---------------------------- MODULE LocalSqlProofs ----------------------------
(***************************************************************************)
(* SQL on an embedded database, for any number of calls, sessions and      *)
(* statements and any outputs: an error of a query never hides a commit;   *)
(* a cancelled query never succeeds; a running query is found; an output   *)
(* comes whole and within its limits, or is refused because it exceeds     *)
(* them.                                                                   *)
(***************************************************************************)
EXTENDS LocalSql, TLAPS, WellFoundedInduction

-----------------------------------------------------------------------------
(* Errors                                                                  *)

\* The error that query_error_with_status lets pass as it is.
PassedBy(r) == r.kind = "TransactionAborted"

\* From<MongrelError> and From<MongrelQueryError> make an error with an outcome;
\* the kinds that carry none have committed nothing as far as they say.
LEMMA FromQueryShape ==
  ASSUME NEW e \in EngineErrors
  PROVE  /\ FromQuery(e) = [kind |-> FromQuery(e).kind, id |-> FromQuery(e).id,
                            outcome |-> FromQuery(e).outcome]
         /\ FromQuery(e).outcome \in Outcomes
         /\ FromQuery(e).outcome.committed =>
              e.outcome.committed \/ (e.kind = "Core" /\ e.core = "DurableCommit")
<1>1. e.kind \in QueryKinds /\ e.core \in CoreKinds /\ e.outcome \in Outcomes
  BY DEF EngineErrors
<1>2. NoOutcome \in Outcomes /\ ~NoOutcome.committed
  BY DEF NoOutcome, Outcomes, None
<1>3. e.outcome.epoch \in Int
  BY <1>1 DEF Outcomes
<1>4. CASE e.kind = "Core"
  <2>1. FromQuery(e) = FromCore(e.core, e.outcome.epoch)
    BY <1>4 DEF FromQuery
  <2>2. CASE e.core = "DurableCommit"
    <3> DEFINE o == [committed |-> TRUE, stmts |-> None, epoch |-> e.outcome.epoch, done |-> 0]
    <3>1. FromCore(e.core, e.outcome.epoch) =
            [kind |-> "CommitOutcome", id |-> Unknown, outcome |-> o]
      BY <2>2 DEF FromCore
    <3>2. o \in Outcomes
      BY <1>3 DEF Outcomes, None
    <3> HIDE DEF o
    <3>3. FromQuery(e) = [kind |-> "CommitOutcome", id |-> Unknown, outcome |-> o]
      BY <2>1, <3>1
    <3>4. e.kind = "Core" /\ e.core = "DurableCommit"
      BY <1>4, <2>2
    <3> QED BY <3>2, <3>3, <3>4
  <2>3. CASE e.core = "CommitOutcomeUnknown"
    <3>1. FromCore(e.core, e.outcome.epoch) =
            [kind |-> "OutcomeUnknown", id |-> Unknown, outcome |-> NoOutcome]
      BY <2>3 DEF FromCore
    <3> QED BY <1>2, <2>1, <3>1
  <2>4. CASE e.core \notin {"DurableCommit", "CommitOutcomeUnknown"}
    <3>1. FromCore(e.core, e.outcome.epoch) =
            [kind |-> CoreCategory[e.core], id |-> Unknown, outcome |-> NoOutcome]
      BY <2>4 DEF FromCore
    <3> QED BY <1>2, <2>1, <3>1
  <2> QED BY <2>2, <2>3, <2>4
<1>5. CASE e.kind # "Core"
  <2> DEFINE k == IF e.kind \in NamedKinds THEN e.kind
                  ELSE IF e.kind = "Schema" THEN "Validation" ELSE "Storage"
             i == IF e.kind \in {"QueryRegistryFull", "TransactionAborted"} THEN Unknown ELSE e.id
             o == IF e.kind \in WithOutcome THEN e.outcome ELSE NoOutcome
  <2>1. FromQuery(e) = [kind |-> k, id |-> i, outcome |-> o]
    BY <1>5 DEF FromQuery
  <2>2. o \in Outcomes /\ (o.committed => e.outcome.committed)
    BY <1>1, <1>2
  <2> QED BY <2>1, <2>2
<1> QED BY <1>4, <1>5

\* The merge of two outcomes keeps a commit either of them knows of, and counts
\* at least the statements each of them counts.
LEMMA MergeKeeps ==
  ASSUME NEW o \in Outcomes, NEW now \in Outcomes
  PROVE  /\ Merge(o, now) \in Outcomes
         /\ Merge(o, now).committed <=> o.committed \/ now.committed
         /\ Merge(o, now).stmts >= o.stmts /\ Merge(o, now).stmts >= now.stmts
BY DEF Merge, Outcomes, Larger, None

\* query_error_with_status: after a commit the status knows of, every error but
\* TransactionAborted says that something was committed and counts at least
\* the statements the status counts.
THEOREM CommitsAreNotHidden ==
  \A e \in EngineErrors, status \in Statuses :
    ~status.unknown /\ status.outcome.committed =>
      LET r == WithStatus(e, status) IN
        \/ PassedBy(r)
        \/ r.kind = "OutcomeUnknown"
        \/ r.outcome.committed /\ r.outcome.stmts >= status.outcome.stmts
<1> SUFFICES ASSUME NEW e \in EngineErrors, NEW status \in Statuses,
                    ~status.unknown, status.outcome.committed
             PROVE  LET r == WithStatus(e, status) IN
                      \/ PassedBy(r)
                      \/ r.kind = "OutcomeUnknown"
                      \/ r.outcome.committed
                           /\ r.outcome.stmts >= status.outcome.stmts
  OBVIOUS
<1> DEFINE f == FromQuery(e)
           id == IF f.id = Unknown THEN status.id ELSE f.id
<1>1. f.outcome \in Outcomes /\ f = [kind |-> f.kind, id |-> f.id, outcome |-> f.outcome]
  BY FromQueryShape
<1>2. status.outcome \in Outcomes
  BY DEF Statuses
<1> HIDE DEF f
<1>3. WithStatus(e, status) =
        IF f.kind \in WithOutcome
        THEN [kind |-> f.kind, id |-> id, outcome |-> Merge(f.outcome, status.outcome)]
        ELSE IF f.kind \in {"TransactionAborted", "OutcomeUnknown"}
        THEN [f EXCEPT !.id = id]
        ELSE [kind |-> "CommitOutcome", id |-> status.id, outcome |-> status.outcome]
  BY DEF WithStatus, f
<1>4. CASE f.kind \in WithOutcome
  BY <1>1, <1>2, <1>3, <1>4, MergeKeeps
<1>5. CASE f.kind \notin WithOutcome /\ f.kind \in {"TransactionAborted", "OutcomeUnknown"}
  <2>1. WithStatus(e, status).kind = f.kind
    BY <1>1, <1>3, <1>5
  <2> QED BY <1>5, <2>1 DEF PassedBy
<1>6. CASE f.kind \notin WithOutcome /\ f.kind \notin {"TransactionAborted", "OutcomeUnknown"}
  <2>1. WithStatus(e, status).outcome = status.outcome
    BY <1>3, <1>6
  <2>2. status.outcome.stmts >= status.outcome.stmts
    BY <1>2 DEF Outcomes
  <2> QED BY <2>1, <2>2
<1> QED BY <1>4, <1>5, <1>6

\* An error reports a commit only if the engine's error or the status does.
THEOREM CommitsAreNotInvented ==
  \A e \in EngineErrors, status \in Statuses :
    WithStatus(e, status).outcome.committed =>
      \/ e.outcome.committed \/ status.outcome.committed
      \/ e.kind = "Core" /\ e.core = "DurableCommit"
<1> SUFFICES ASSUME NEW e \in EngineErrors, NEW status \in Statuses,
                    WithStatus(e, status).outcome.committed
             PROVE  \/ e.outcome.committed \/ status.outcome.committed
                    \/ e.kind = "Core" /\ e.core = "DurableCommit"
  OBVIOUS
<1> DEFINE f == FromQuery(e)
           id == IF f.id = Unknown THEN status.id ELSE f.id
<1>1. /\ f.outcome \in Outcomes
      /\ f = [kind |-> f.kind, id |-> f.id, outcome |-> f.outcome]
      /\ f.outcome.committed =>
           e.outcome.committed \/ (e.kind = "Core" /\ e.core = "DurableCommit")
  BY FromQueryShape
<1>2. status.outcome \in Outcomes
  BY DEF Statuses
<1>3. ~NoOutcome.committed
  BY DEF NoOutcome
<1> HIDE DEF f
<1>4. WithStatus(e, status) =
        IF status.unknown
        THEN [kind |-> "OutcomeUnknown", id |-> status.id, outcome |-> NoOutcome]
        ELSE IF f.kind \in WithOutcome
        THEN [kind |-> f.kind, id |-> id, outcome |-> Merge(f.outcome, status.outcome)]
        ELSE IF f.kind \in {"TransactionAborted", "OutcomeUnknown"}
        THEN [f EXCEPT !.id = id]
        ELSE IF status.outcome.committed
        THEN [kind |-> "CommitOutcome", id |-> status.id, outcome |-> status.outcome]
        ELSE f
  BY DEF WithStatus, f
<1>5. CASE status.unknown
  BY <1>3, <1>4, <1>5
<1>6. CASE ~status.unknown /\ f.kind \in WithOutcome
  <2>1. WithStatus(e, status).outcome = Merge(f.outcome, status.outcome)
    BY <1>4, <1>6
  <2> QED BY <1>1, <1>2, <2>1, MergeKeeps
<1>7. CASE ~status.unknown /\ f.kind \notin WithOutcome
  <2>1. WithStatus(e, status).outcome \in {f.outcome, status.outcome}
    BY <1>1, <1>4, <1>7
  <2> QED BY <1>1, <2>1
<1> QED BY <1>5, <1>6, <1>7

-----------------------------------------------------------------------------
(* Sums.                                                                   *)

\* A nonempty set of naturals has a least element: what an induction over the
\* length of an output rests on.
LEMMA Least ==
  ASSUME NEW S \in SUBSET Nat, S # {}
  PROVE  \E m \in S : \A n \in S : m <= n
  <1> DEFINE R == OpToRel(<, Nat)
  <1>1. \A x, y \in Nat : <<x, y>> \in R <=> x < y
    BY DEF OpToRel
  <1>2. IsWellFoundedOn(R, Nat)
    BY NatLessThanWellFounded
  <1> HIDE DEF R
  <1>3. \E m \in S : \A n \in S : <<n, m>> \notin R
    BY <1>2, WFMin
  <1>4. \A m, n \in Nat : ~(n < m) => m <= n
    OBVIOUS
  <1> QED BY <1>1, <1>3, <1>4

\* The recursion of Sums has a solution.
LEMMA SumsExist ==
  ASSUME NEW v \in Seq(Nat)
  PROVE  \E s : s = [n \in 0..Len(v) |-> IF n = 0 THEN 0 ELSE s[n - 1] + v[n]]
  <1> DEFINE Solves(s, k) == s = [n \in 0..k |-> IF n = 0 THEN 0 ELSE s[n - 1] + v[n]]
             Bad == {k \in 0..Len(v) : ~ \E s : Solves(s, k)}
  <1>1. SUFFICES Bad = {}
    BY DEF Bad
  <1>2. SUFFICES ASSUME Bad # {} PROVE FALSE
    OBVIOUS
  <1> HIDE DEF Solves
  <1>3. PICK k \in Bad : \A n \in Bad : k <= n
    <2>1. Bad \in SUBSET Nat
      OBVIOUS
    <2> HIDE DEF Bad
    <2> QED BY <1>2, <2>1, Least
  <1>4. k # 0
    <2>1. Solves([n \in 0..0 |-> 0], 0)
      BY DEF Solves
    <2> QED BY <2>1
  <1>5. k - 1 \in 0..Len(v) /\ k - 1 \notin Bad
    <2>1. k \in 0..Len(v) /\ k \in Nat
      OBVIOUS
    <2>2. k - 1 \in 0..Len(v) /\ ~(k <= k - 1)
      BY <2>1, <1>4
    <2> HIDE DEF Bad
    <2> QED BY <1>3, <2>2
  <1>6. PICK s : Solves(s, k - 1)
    BY <1>5
  <1> DEFINE t == [n \in 0..k |-> IF n = k THEN s[k - 1] + v[k] ELSE s[n]]
  <1>7. ASSUME NEW n \in 0..k
        PROVE  t[n] = IF n = 0 THEN 0 ELSE t[n - 1] + v[n]
    <2>1. CASE n = k
      BY <1>4, <1>3, <2>1
    <2>2. CASE n # k
      BY <1>6, <1>4, <1>3, <2>2 DEF Solves
    <2> QED BY <2>1, <2>2
  <1>8. Solves(t, k)
    BY <1>7 DEF Solves
  <1> QED BY <1>3, <1>8

\* What Sums computes, and that it only grows.
LEMMA SumsAre ==
  ASSUME NEW v \in Seq(Nat)
  PROVE  /\ Sums(v) \in [0..Len(v) -> Nat]
         /\ Sums(v)[0] = 0
         /\ \A n \in 1..Len(v) : Sums(v)[n] = Sums(v)[n - 1] + v[n]
         /\ \A n \in 0..Len(v) : Sums(v)[n] <= Sums(v)[Len(v)]
  <1> DEFINE s == Sums(v)
  <1>1. s = [n \in 0..Len(v) |-> IF n = 0 THEN 0 ELSE s[n - 1] + v[n]]
    BY SumsExist DEF Sums
  <1> HIDE DEF s
  <1>2. s[0] = 0 /\ \A n \in 1..Len(v) : s[n] = s[n - 1] + v[n]
    BY <1>1
  <1>3. \A n \in 0..Len(v) : s[n] \in Nat
    <2> DEFINE Bad == {n \in 0..Len(v) : s[n] \notin Nat}
    <2>1. SUFFICES ASSUME Bad # {} PROVE FALSE
      OBVIOUS
    <2>2. PICK k \in Bad : \A n \in Bad : k <= n
      <3>1. Bad \in SUBSET Nat
        OBVIOUS
      <3> HIDE DEF Bad
      <3> QED BY <2>1, <3>1, Least
    <2>3. k # 0
      BY <1>2, <2>2
    <2>4. k - 1 \in 0..Len(v) /\ k - 1 \notin Bad /\ k \in 1..Len(v)
      BY <2>2, <2>3
    <2>5. s[k - 1] \in Nat /\ v[k] \in Nat
      BY <2>4
    <2> QED BY <1>2, <2>2, <2>4, <2>5
  <1>4. \A n \in 0..Len(v) : s[n] <= s[Len(v)]
    <2> DEFINE Bad == {m \in 0..Len(v) : ~(s[Len(v) - m] <= s[Len(v)])}
    <2>1. SUFFICES Bad = {}
      <3>1. ASSUME NEW n \in 0..Len(v) PROVE s[n] <= s[Len(v)]
        <4>1. Len(v) - n \in 0..Len(v) /\ Len(v) - (Len(v) - n) = n
          OBVIOUS
        <4> QED BY <2>1, <4>1
      <3> QED BY <3>1
    <2>2. SUFFICES ASSUME Bad # {} PROVE FALSE
      OBVIOUS
    <2>3. PICK k \in Bad : \A n \in Bad : k <= n
      <3>1. Bad \in SUBSET Nat
        OBVIOUS
      <3> HIDE DEF Bad
      <3> QED BY <2>2, <3>1, Least
    <2>4. k # 0
      BY <1>3, <2>3
    <2>5. k - 1 \in 0..Len(v) /\ k - 1 \notin Bad
      BY <2>3, <2>4
    <2> DEFINE n == Len(v) - (k - 1)
    <2>6. n \in 1..Len(v) /\ n - 1 = Len(v) - k
      BY <2>3, <2>4
    <2>7. s[n] <= s[Len(v)] /\ s[n] = s[n - 1] + v[n] /\ v[n] \in Nat
      BY <1>2, <2>5, <2>6
    <2>8. s[n] \in Nat /\ s[n - 1] \in Nat /\ s[Len(v)] \in Nat
      BY <1>3, <2>6
    <2>9. s[n - 1] <= s[Len(v)]
      BY <2>7, <2>8
    <2> QED BY <2>3, <2>6, <2>9
  <1>5. s \in [0..Len(v) -> Nat]
    BY <1>1, <1>3
  <1> QED BY <1>2, <1>4, <1>5 DEF s

-----------------------------------------------------------------------------
(* The inductive invariant.                                                *)

Phases == {"none", "queued", "executing", "commit_critical", "serializing", "cancelling"}
            \cup Terminal
Workers == {"none", "running", "output", "error", "panicked"}
Places == {"idle", "opening", "session", "held", "dropped", "waiting", "converting",
           "completing", "deciding", "done"}
Forms == {"none", "batches", "arrow", "rows"}
Slices == [rows : Nat, bytes : Nat]

Queries ==
  [phase : Phases, worker : Workers, signal : BOOLEAN, due : BOOLEAN, done : Nat,
   stmts : Nat, durable : Nat, unknown : BOOLEAN, error : EngineErrors]

CallRecords ==
  [pc : Places, session : Nat, replaced : BOOLEAN, id : QueryIds, handle : BOOLEAN,
   form : Forms, seen : Phases, output : Seq(Slices), limits : Slices,
   rows : Nat, bytes : Nat, slice : Nat]

Typed ==
  /\ cached \in Nat /\ opened \in Nat
  /\ call \in [Calls -> CallRecords]
  /\ query \in [Calls -> Queries]
  /\ DOMAIN report = Calls /\ DOMAIN stopped = Calls

\* What a worker that ended has left, and what the registry counts of it: only
\* an error that says so itself may be about a commit that is not counted.
Sound(q) ==
  /\ q.worker \in {"error", "panicked"} => q.phase \in Terminal
  /\ q.worker = "output" => q.phase \in {"serializing", "cancelling"} \cup Terminal
  /\ q.worker \in {"none", "running", "output"} => q.durable = q.stmts /\ ~q.unknown
  /\ q.worker = "error" =>
       \/ q.error.kind \in {"Core", "Cancelled", "DeadlineExceeded", "TransactionAborted"}
            /\ q.durable = q.stmts
       \/ q.error.kind = "Core" /\ q.error.core \in {"DurableCommit", "CommitOutcomeUnknown"}

\* Where a call is, and what its query and report are by then.
Placed(c) ==
  /\ call[c].pc \in {"idle", "opening", "session"} => query[c] = NoQuery /\ stopped[c] = "no"
  /\ call[c].pc # "done" => report[c] = NoReport
  /\ call[c].pc = "done" => ~Running(c)
  /\ call[c].pc \in {"converting", "completing", "deciding"} => query[c].worker = "output"
  /\ call[c].pc = "converting" => call[c].form \in {"arrow", "rows"}
  /\ call[c].form \in {"arrow", "rows"} =>
       call[c].pc \in {"converting", "completing", "deciding", "done"}
  /\ call[c].pc \in {"idle", "opening", "session", "held", "waiting"} =>
       call[c].rows = 0 /\ call[c].slice = 0

\* Which session the query of a call is in.
Located(c) ==
  /\ Running(c) \/ call[c].pc = "session" => call[c].session # 0
  /\ call[c].session # 0 /\ ~call[c].replaced => call[c].session = cached

\* A cancelled query cannot complete.
Stopped(c) ==
  /\ stopped[c] \in {"accepted", "already_cancelling"} =>
       query[c].phase \in {"cancelling", "cancelled", "failed"}
  /\ report[c].kind = "Ok" => query[c].phase = "completed"

\* A report tells of the commits of its query.
Tells(c) ==
  /\ report[c].kind \notin {"None", "Ok", "TransactionAborted"}
  /\ query[c].worker # "panicked" /\ query[c].durable > 0
  => TellsOfCommit(report[c])

\* What the first n slices of an output take.
SizeOf(form, output, n) ==
  ByteSums(output)[n]
    + (IF form = "arrow" THEN 1 + n
       ELSE 2 + (IF RowSums(output)[n] = 0 THEN 0 ELSE RowSums(output)[n] - 1))

\* What is converted so far is counted, and within the limits.
Measured(c) ==
  call[c].form \in {"arrow", "rows"} =>
    /\ call[c].pc = "converting" =>
         /\ call[c].slice <= Len(call[c].output)
         /\ call[c].rows = RowSums(call[c].output)[call[c].slice]
         /\ call[c].bytes = SizeOf(call[c].form, call[c].output, call[c].slice)
         /\ call[c].rows <= call[c].limits.rows
         /\ call[c].bytes <= call[c].limits.bytes
    /\ call[c].pc \in {"completing", "deciding"} \/ report[c].kind = "Ok" =>
         ~Exceeds(c) /\ call[c].slice = Len(call[c].output)
    /\ report[c].kind = "ResultLimitExceeded" => Exceeds(c)

SqlInv ==
  /\ Typed
  /\ \A c \in Calls : /\ Sound(query[c]) /\ Placed(c) /\ Located(c)
                      /\ Stopped(c) /\ Tells(c) /\ Measured(c)

-----------------------------------------------------------------------------
(* What the calls return                                                   *)

\* An error is never a success.
LEMMA ErrorsAreErrors ==
  /\ \A core \in CoreKinds : \A epoch : FromCore(core, epoch).kind \notin {"None", "Ok"}
  /\ \A e \in EngineErrors : FromQuery(e).kind \notin {"None", "Ok"}
  /\ \A e \in EngineErrors, status \in Statuses :
       WithStatus(e, status).kind \notin {"None", "Ok"}
<1>1. ASSUME NEW core \in CoreKinds, NEW epoch
      PROVE  FromCore(core, epoch).kind \notin {"None", "Ok"}
  <2>1. CASE core \in {"DurableCommit", "CommitOutcomeUnknown"}
    BY <2>1 DEF FromCore
  <2>2. CASE core \notin {"DurableCommit", "CommitOutcomeUnknown"}
    <3>1. core \in DOMAIN CoreCategory
      BY <2>2 DEF CoreKinds
    <3>2. CoreCategory[core] \notin {"None", "Ok"}
      BY <3>1 DEF CoreCategory
    <3> QED BY <2>2, <3>2 DEF FromCore
  <2> QED BY <2>1, <2>2
<1>2. ASSUME NEW e \in EngineErrors
      PROVE  FromQuery(e).kind \notin {"None", "Ok"}
  <2>1. CASE e.kind = "Core"
    <3>1. e.core \in CoreKinds
      BY DEF EngineErrors
    <3> QED BY <1>1, <2>1, <3>1 DEF FromQuery
  <2>2. CASE e.kind # "Core"
    BY <2>2 DEF FromQuery, NamedKinds
  <2> QED BY <2>1, <2>2
<1>3. ASSUME NEW e \in EngineErrors, NEW status \in Statuses
      PROVE  WithStatus(e, status).kind \notin {"None", "Ok"}
  <2> DEFINE f == FromQuery(e)
  <2>1. f.kind \notin {"None", "Ok"}
    BY <1>2
  <2>2. f = [kind |-> f.kind, id |-> f.id, outcome |-> f.outcome]
    BY FromQueryShape
  <2> HIDE DEF f
  <2>3. WithStatus(e, status).kind \in {"OutcomeUnknown", "CommitOutcome", f.kind}
    BY <2>2 DEF WithStatus, f
  <2> QED BY <2>1, <2>3
<1> QED BY <1>1, <1>2, <1>3

\* The status of a query is one, and tells of its recorded commits.
LEMMA StatusOfQuery ==
  ASSUME Typed, NEW c \in Calls
  PROVE  /\ Status(c) \in Statuses
         /\ Outcome(query[c]) \in Outcomes
         /\ Status(c).outcome = Outcome(query[c])
         /\ Status(c).unknown = query[c].unknown
         /\ Status(c).outcome.committed <=> query[c].stmts > 0
<1>1. query[c] \in Queries /\ call[c].id \in QueryIds
  BY DEF Typed, CallRecords
<1>2. query[c].stmts \in Nat /\ query[c].done \in Nat /\ query[c].unknown \in BOOLEAN
  BY <1>1 DEF Queries
<1> DEFINE o == Outcome(query[c])
<1>3. o \in Outcomes /\ (o.committed <=> query[c].stmts > 0)
  <2> DEFINE n == query[c].stmts
             committed == n > 0
             epoch == IF n > 0 THEN n ELSE None
  <2>1. o = [committed |-> committed, stmts |-> n, epoch |-> epoch, done |-> query[c].done]
    BY DEF Outcome
  <2>2. n \in Int /\ committed \in BOOLEAN /\ epoch \in Int /\ query[c].done \in Int
    BY <1>2 DEF None
  <2> HIDE DEF n, committed, epoch, o
  <2>3. o \in Outcomes /\ o.committed = committed
    BY <2>1, <2>2 DEF Outcomes
  <2> QED BY <2>3 DEF committed, n
<1> HIDE DEF o
<1>4. Status(c) = [id |-> call[c].id, unknown |-> query[c].unknown, outcome |-> o]
  BY DEF Status, o
<1>5. Status(c) \in Statuses
  BY <1>1, <1>2, <1>3, <1>4 DEF Statuses
<1> QED BY <1>3, <1>4, <1>5 DEF o

\* The errors a worker makes are errors of the engine.
LEMMA EngineErrorTyped ==
  ASSUME Typed, NEW c \in Calls, NEW kind \in QueryKinds, NEW core \in CoreKinds
  PROVE  /\ EngineError(c, kind, core) \in EngineErrors
         /\ EngineError(c, kind, core).kind = kind
         /\ EngineError(c, kind, core).core = core
         /\ EngineError(c, kind, core).outcome = Outcome(query[c])
<1>1. Outcome(query[c]) \in Outcomes /\ call[c].id \in QueryIds
  BY StatusOfQuery DEF Typed, CallRecords
<1> QED BY <1>1 DEF EngineError, EngineErrors

\* What JoinError returns, for the error a worker has left, tells of the
\* commits of the query.
LEMMA ErrorsTell ==
  ASSUME Typed, NEW c \in Calls, query[c].worker = "error", Sound(query[c]),
         query[c].durable > 0,
         WithStatus(query[c].error, Status(c)).kind # "TransactionAborted"
  PROVE  TellsOfCommit(WithStatus(query[c].error, Status(c)))
<1> DEFINE e == query[c].error
           r == WithStatus(e, Status(c))
<1>1. e \in EngineErrors /\ query[c].stmts \in Nat /\ query[c].durable \in Nat
  BY DEF Typed, Queries
<1>2. Status(c) \in Statuses /\ (Status(c).outcome.committed <=> query[c].stmts > 0)
      /\ Status(c).outcome \in Outcomes
  BY StatusOfQuery DEF Statuses
<1>3. CASE Status(c).unknown
  BY <1>3 DEF WithStatus, TellsOfCommit
<1>4. CASE ~Status(c).unknown /\ query[c].stmts > 0
  <2>1. \/ PassedBy(r) \/ r.kind = "OutcomeUnknown" \/ r.outcome.committed
    BY <1>1, <1>2, <1>4, CommitsAreNotHidden
  <2> QED BY <2>1 DEF TellsOfCommit, PassedBy
<1>5. CASE ~Status(c).unknown /\ ~(query[c].stmts > 0)
  <2>1. e.kind = "Core" /\ e.core \in {"DurableCommit", "CommitOutcomeUnknown"}
    BY <1>1, <1>5 DEF Sound
  <2> DEFINE f == FromQuery(e)
  <2>2. f = FromCore(e.core, e.outcome.epoch)
    BY <2>1 DEF FromQuery
  <2>3. CASE e.core = "DurableCommit"
    <3>1. f.kind = "CommitOutcome" /\ f.outcome.committed
      BY <2>2, <2>3 DEF FromCore
    <3>2. f.outcome \in Outcomes
      BY <1>1, FromQueryShape
    <3> HIDE DEF f
    <3>3. r.outcome = Merge(f.outcome, Status(c).outcome)
      BY <1>5, <3>1 DEF WithStatus, WithOutcome, f
    <3>4. r.outcome.committed
      BY <1>2, <3>1, <3>2, <3>3, MergeKeeps
    <3> QED BY <3>4 DEF TellsOfCommit
  <2>4. CASE e.core = "CommitOutcomeUnknown"
    <3>1. f = [kind |-> "OutcomeUnknown", id |-> Unknown, outcome |-> NoOutcome]
      BY <2>2, <2>4 DEF FromCore
    <3> HIDE DEF f
    <3>2. r.kind = "OutcomeUnknown"
      BY <1>5, <3>1 DEF WithStatus, WithOutcome, f
    <3> QED BY <3>2 DEF TellsOfCommit
  <2> QED BY <2>1, <2>3, <2>4
<1> QED BY <1>3, <1>4, <1>5

-----------------------------------------------------------------------------
(* The size of an output                                                   *)

\* The rows and the bytes of the first slices of an output: each slice adds its
\* own, and no prefix has more than the whole.
LEMMA PrefixSums ==
  ASSUME NEW output \in Seq(Slices)
  PROVE  /\ RowSums(output)[0] = 0 /\ ByteSums(output)[0] = 0
         /\ \A n \in 0..Len(output) :
              /\ RowSums(output)[n] \in Nat /\ ByteSums(output)[n] \in Nat
              /\ RowSums(output)[n] <= RowSums(output)[Len(output)]
              /\ ByteSums(output)[n] <= ByteSums(output)[Len(output)]
         /\ \A n \in 1..Len(output) :
              /\ RowSums(output)[n] = RowSums(output)[n - 1] + output[n].rows
              /\ ByteSums(output)[n] = ByteSums(output)[n - 1] + output[n].bytes
<1> DEFINE rows == [i \in 1..Len(output) |-> output[i].rows]
           bytes == [i \in 1..Len(output) |-> output[i].bytes]
<1>1. \A i \in 1..Len(output) : output[i].rows \in Nat /\ output[i].bytes \in Nat
  <2>1. \A i \in 1..Len(output) : output[i] \in Slices
    OBVIOUS
  <2> QED BY <2>1 DEF Slices
<1>2. /\ rows \in Seq(Nat) /\ Len(rows) = Len(output)
      /\ bytes \in Seq(Nat) /\ Len(bytes) = Len(output)
  BY <1>1
<1>3. \A i \in 1..Len(output) : rows[i] = output[i].rows /\ bytes[i] = output[i].bytes
  OBVIOUS
<1>4. RowSums(output) = Sums(rows) /\ ByteSums(output) = Sums(bytes)
  BY DEF RowSums, ByteSums
<1> HIDE DEF rows, bytes
<1>5. /\ Sums(rows)[0] = 0
      /\ \A n \in 0..Len(output) : Sums(rows)[n] \in Nat
                                   /\ Sums(rows)[n] <= Sums(rows)[Len(output)]
      /\ \A n \in 1..Len(output) : Sums(rows)[n] = Sums(rows)[n - 1] + rows[n]
  BY <1>2, SumsAre
<1>6. /\ Sums(bytes)[0] = 0
      /\ \A n \in 0..Len(output) : Sums(bytes)[n] \in Nat
                                   /\ Sums(bytes)[n] <= Sums(bytes)[Len(output)]
      /\ \A n \in 1..Len(output) : Sums(bytes)[n] = Sums(bytes)[n - 1] + bytes[n]
  BY <1>2, SumsAre
<1> QED BY <1>3, <1>4, <1>5, <1>6

\* A conversion starts with a header, and ends with what Bytes says of the whole.
LEMMA SizeAtEnds ==
  ASSUME NEW output \in Seq(Slices), NEW form
  PROVE  /\ SizeOf(form, output, 0) = Header(form)
         /\ SizeOf(form, output, Len(output)) + Footer(form) = Bytes(form, output)
         /\ SizeOf(form, output, Len(output)) \in Nat
<1> DEFINE n == Len(output)
           rows == RowSums(output)
           bytes == ByteSums(output)
<1>1. rows[0] = 0 /\ bytes[0] = 0 /\ rows[n] \in Nat /\ bytes[n] \in Nat /\ n \in Nat
  <2>1. n \in 0..n /\ n \in Nat
    OBVIOUS
  <2> QED BY <2>1, PrefixSums
<1>2. Rows(output) = rows[n]
  BY DEF Rows
<1>3. CASE form = "arrow"
  BY <1>1, <1>3 DEF SizeOf, Bytes, Header, Footer
<1>4. CASE form # "arrow"
  BY <1>1, <1>2, <1>4 DEF SizeOf, Bytes, Header, Footer
<1> QED BY <1>3, <1>4

\* A slice adds what SliceBytes says, and no prefix is larger than the whole.
LEMMA SizeGrows ==
  ASSUME NEW output \in Seq(Slices), NEW form, NEW n \in 1..Len(output)
  PROVE  /\ SizeOf(form, output, n) =
              SizeOf(form, output, n - 1)
                + (IF form = "arrow" THEN output[n].bytes + 1
                   ELSE output[n].bytes + output[n].rows
                          - (IF RowSums(output)[n - 1] = 0 /\ output[n].rows > 0
                             THEN 1 ELSE 0))
         /\ SizeOf(form, output, n) \in Nat
         /\ SizeOf(form, output, n) <= SizeOf(form, output, Len(output))
<1> DEFINE rows == RowSums(output)
           bytes == ByteSums(output)
           all == Len(output)
<1>1. n \in Nat /\ all \in Nat /\ n <= all /\ n - 1 \in 0..all /\ n \in 0..all /\ all \in 0..all
  OBVIOUS
<1>2. output[n].rows \in Nat /\ output[n].bytes \in Nat
  <2>1. output[n] \in Slices
    OBVIOUS
  <2> QED BY <2>1 DEF Slices
<1>3. /\ rows[n - 1] \in Nat /\ rows[n] \in Nat /\ rows[all] \in Nat
      /\ bytes[n - 1] \in Nat /\ bytes[n] \in Nat /\ bytes[all] \in Nat
      /\ rows[n] <= rows[all] /\ bytes[n] <= bytes[all]
  BY <1>1, PrefixSums
<1>4. rows[n] = rows[n - 1] + output[n].rows /\ bytes[n] = bytes[n - 1] + output[n].bytes
  BY PrefixSums
<1> HIDE DEF rows, bytes, all
<1> DEFINE size == [m \in 0..all |-> SizeOf(form, output, m)]
           before == rows[n - 1]
           more == output[n].rows
<1>5. /\ size[n - 1] = SizeOf(form, output, n - 1) /\ size[n] = SizeOf(form, output, n)
      /\ size[all] = SizeOf(form, output, all)
  BY <1>1
<1>6. CASE form = "arrow"
  <2>1. /\ size[n - 1] = bytes[n - 1] + (1 + (n - 1))
        /\ size[n] = bytes[n] + (1 + n) /\ size[all] = bytes[all] + (1 + all)
    BY <1>5, <1>6 DEF SizeOf, bytes
  <2> HIDE DEF size
  <2>2. size[n] = size[n - 1] + (output[n].bytes + 1)
    <3>1. \A b, k, x \in Int : (b + x) + (1 + k) = (b + (1 + (k - 1))) + (x + 1)
      OBVIOUS
    <3>2. size[n] = (bytes[n - 1] + output[n].bytes) + (1 + n)
      BY <1>4, <2>1
    <3>3. bytes[n - 1] \in Int /\ n \in Int /\ output[n].bytes \in Int
      BY <1>1, <1>2, <1>3
    <3>4. size[n] = (bytes[n - 1] + (1 + (n - 1))) + (output[n].bytes + 1)
      BY <3>1, <3>2, <3>3, Zenon
    <3> QED BY <2>1, <3>4, Zenon
  <2>3. size[n] \in Nat /\ size[n] <= size[all]
    BY <1>1, <1>3, <2>1
  <2> QED BY <1>5, <1>6, <2>2, <2>3 DEF all
<1>7. CASE form # "arrow"
  <2> DEFINE commas(m) == IF rows[m] = 0 THEN 0 ELSE rows[m] - 1
             comma == IF before = 0 /\ more > 0 THEN 1 ELSE 0
             added == more - comma
             b == bytes[n - 1]
             x == output[n].bytes
             k == commas(n - 1)
  <2>1. /\ size[n - 1] = b + (2 + k)
        /\ size[n] = bytes[n] + (2 + commas(n)) /\ size[all] = bytes[all] + (2 + commas(all))
    BY <1>5, <1>7 DEF SizeOf, rows, bytes
  <2>2. k \in Nat /\ commas(n) \in Nat /\ commas(all) \in Nat /\ commas(n) <= commas(all)
    BY <1>3
  <2>3. commas(n) = k + added
    <3>1. rows[n] = before + more /\ before \in Nat /\ more \in Nat
      BY <1>2, <1>3, <1>4
    <3>2. CASE before = 0 /\ more = 0
      BY <3>1, <3>2
    <3>3. CASE before = 0 /\ more > 0
      BY <3>1, <3>3
    <3>4. CASE before # 0
      BY <3>1, <3>4
    <3> QED BY <3>1, <3>2, <3>3, <3>4
  <2>4. comma \in Int /\ more \in Nat
    BY <1>2
  <2>5. SizeOf(form, output, n) = size[n] /\ SizeOf(form, output, n - 1) = size[n - 1]
        /\ SizeOf(form, output, all) = size[all]
    BY <1>5
  <2> HIDE DEF size, commas, comma
  <2>6. added \in Int /\ b \in Nat /\ x \in Nat /\ bytes[n] = b + x
    BY <1>2, <1>3, <1>4, <2>4
  <2>7. x + added = output[n].bytes + output[n].rows - comma
    BY <1>2, <2>4
  <2> HIDE DEF added, b, x, k
  <2>8. (b + x) + (2 + (k + added)) = (b + (2 + k)) + (x + added)
    BY <2>2, <2>6
  <2>9. size[n] = size[n - 1] + (x + added)
    BY <2>1, <2>3, <2>6, <2>8, Zenon
  <2>10. size[n] \in Nat /\ size[n] <= size[all]
    <3> DEFINE b1 == bytes[n]
               b2 == bytes[all]
               k1 == commas(n)
               k2 == commas(all)
    <3>1. /\ b1 \in Nat /\ b2 \in Nat /\ b1 <= b2 /\ k1 \in Nat /\ k2 \in Nat /\ k1 <= k2
          /\ size[n] = b1 + (2 + k1) /\ size[all] = b2 + (2 + k2)
      BY <1>3, <2>1, <2>2
    <3> HIDE DEF b1, b2, k1, k2
    <3> QED BY <3>1
  <2> QED BY <1>7, <2>5, <2>7, <2>9, <2>10 DEF comma, all, rows
<1> QED BY <1>6, <1>7

-----------------------------------------------------------------------------
(* Steps of one call                                                       *)

\* A step of one call leaves the others as they are: the first session that is
\* opened is none that another call holds.
LEMMA OneCall ==
  ASSUME SqlInv, Typed', NEW c \in Calls,
         \A d \in Calls \ {c} : /\ call'[d] = call[d] /\ query'[d] = query[d]
                                /\ report'[d] = report[d] /\ stopped'[d] = stopped[d],
         cached' = cached \/ cached = 0,
         Sound(query[c])', Placed(c)', Located(c)', Stopped(c)', Tells(c)', Measured(c)'
  PROVE  SqlInv'
<1>1. ASSUME NEW d \in Calls \ {c}
      PROVE  (/\ Sound(query[d]) /\ Placed(d) /\ Located(d)
              /\ Stopped(d) /\ Tells(d) /\ Measured(d))'
  <2>1. Sound(query[d])' /\ Placed(d)'
    BY <1>1 DEF SqlInv, Placed, Running
  <2>2. Located(d)'
    BY <1>1 DEF SqlInv, Located, Running
  <2>3. Stopped(d)' /\ Tells(d)'
    BY <1>1 DEF SqlInv, Stopped, Tells
  <2>4. Measured(d)'
    BY <1>1 DEF SqlInv, Measured, Exceeds
  <2> QED BY <2>1, <2>2, <2>3, <2>4
<1> QED BY <1>1 DEF SqlInv

\* A step of a running query, and of nothing else: it leaves the worker in order,
\* and a cancelled query cancelled.
LEMMA QueryStep ==
  ASSUME SqlInv, NEW c \in Calls, NEW q \in Queries, Running(c), Becomes(c, q), Sound(q),
         query[c].worker = "output" => q.worker = "output",
         query[c].phase = "cancelling" => q.phase \in {"cancelling", "cancelled", "failed"}
  PROVE  SqlInv'
<1>1. /\ query'[c] = q /\ query' \in [Calls -> Queries]
      /\ \A d \in Calls \ {c} : query'[d] = query[d]
  BY DEF Becomes, SqlInv, Typed
<1>2. UNCHANGED <<cached, opened, call, report, stopped>>
  BY DEF Becomes
<1>3. Typed'
  BY <1>1, <1>2 DEF SqlInv, Typed
<1>4. /\ call[c].pc \notin {"idle", "opening", "session", "done"}
      /\ report[c] = NoReport
  BY DEF SqlInv, Placed, Running, NoQuery
<1>5. report[c].kind = "None"
  BY <1>4 DEF NoReport, Ok
<1>6. Placed(c)'
  BY <1>1, <1>2, <1>4 DEF SqlInv, Placed
<1>7. Located(c)'
  BY <1>1, <1>2 DEF SqlInv, Located, Running
<1>8. Stopped(c)'
  BY <1>1, <1>2, <1>5 DEF SqlInv, Stopped, Running, Terminal
<1>9. Tells(c)' /\ Measured(c)'
  BY <1>1, <1>2, <1>5 DEF SqlInv, Tells, Measured, Exceeds
<1> QED BY <1>1, <1>2, <1>3, <1>6, <1>7, <1>8, <1>9, OneCall

\* A step of a call that is not over and leaves its query alone.
LEMMA CallStep ==
  ASSUME SqlInv, NEW c \in Calls, NEW k \in CallRecords, report[c] = NoReport,
         call' = [call EXCEPT ![c] = k], UNCHANGED <<query, report, stopped>>,
         cached' \in Nat, opened' \in Nat, cached' = cached \/ cached = 0,
         Placed(c)', Located(c)', Measured(c)'
  PROVE  SqlInv'
<1>1. /\ call'[c] = k /\ call' \in [Calls -> CallRecords]
      /\ \A d \in Calls \ {c} : call'[d] = call[d]
  BY DEF SqlInv, Typed
<1>2. Typed'
  BY <1>1 DEF SqlInv, Typed
<1>3. report[c].kind = "None"
  BY DEF NoReport, Ok
<1>4. Sound(query[c])' /\ Stopped(c)' /\ Tells(c)'
  BY <1>3 DEF SqlInv, Stopped, Tells
<1> QED BY <1>1, <1>2, <1>4, OneCall

\* A step with which a call returns: its query has ended, and the report is
\* true to it.
LEMMA ReturnStep ==
  ASSUME SqlInv, NEW c \in Calls, NEW q \in Queries, NEW r,
         call[c].pc # "done", Return(c, r), query' = [query EXCEPT ![c] = q],
         UNCHANGED <<cached, opened, stopped>>,
         Sound(q), q.phase \in Terminal \cup {"none"},
         stopped[c] \in {"accepted", "already_cancelling"}
           => q.phase \in {"cancelled", "failed"},
         r.kind = "Ok" => q.phase = "completed",
         r.kind \notin {"Ok", "TransactionAborted"} /\ q.worker # "panicked" /\ q.durable > 0
           => TellsOfCommit(r),
         call[c].form \in {"arrow", "rows"} =>
           /\ r.kind = "Ok" => ~Exceeds(c) /\ call[c].slice = Len(call[c].output)
           /\ r.kind = "ResultLimitExceeded" => Exceeds(c)
  PROVE  SqlInv'
<1> DEFINE k == [call[c] EXCEPT !.pc = "done", !.session = 0, !.replaced = FALSE, !.seen = "none"]
<1>1. call[c] \in CallRecords
  BY DEF SqlInv, Typed
<1>2. /\ k \in CallRecords /\ k.pc = "done" /\ k.session = 0 /\ k.form = call[c].form
      /\ k.output = call[c].output /\ k.limits = call[c].limits /\ k.slice = call[c].slice
  BY <1>1 DEF CallRecords, Places, Phases
<1>3. call' = [call EXCEPT ![c] = k]
  BY DEF Return
<1> HIDE DEF k
<1>4. /\ call'[c] = k /\ call' \in [Calls -> CallRecords]
      /\ query'[c] = q /\ query' \in [Calls -> Queries]
      /\ report'[c] = r /\ DOMAIN report' = Calls
      /\ \A d \in Calls \ {c} : /\ call'[d] = call[d] /\ query'[d] = query[d]
                                /\ report'[d] = report[d]
  BY <1>2, <1>3 DEF SqlInv, Typed, Return
<1>5. Typed'
  BY <1>4 DEF SqlInv, Typed
<1>6. Sound(query[c])' /\ Placed(c)' /\ Located(c)'
  BY <1>2, <1>4 DEF Placed, Located, Running
<1>7. Stopped(c)' /\ Tells(c)'
  BY <1>4 DEF Stopped, Tells
<1>8. Measured(c)'
  BY <1>2, <1>4 DEF Measured, Exceeds
<1> QED BY <1>4, <1>5, <1>6, <1>7, <1>8, OneCall

-----------------------------------------------------------------------------
(* The worker                                                              *)

\* The worker is at a phase of its query only while the query runs, and every
\* commit is counted so far.
LEMMA AtPhase ==
  ASSUME SqlInv, NEW c \in Calls, NEW phase \in Phases \ (Terminal \cup {"none"}), Step(c, phase)
  PROVE  /\ Running(c) /\ query[c].worker = "running" /\ query[c].phase = phase
         /\ query[c].durable = query[c].stmts /\ ~query[c].unknown
BY DEF Step, Running, SqlInv, Sound

\* A query whose worker goes on, at another phase and with other counts.
LEMMA GoesOn ==
  ASSUME SqlInv, NEW c \in Calls,
         NEW phase \in Phases, NEW worker \in {"running", "output"},
         NEW n \in Nat, NEW done \in Nat,
         Running(c), query[c].worker = "running", query[c].phase # "cancelling",
         worker = "output" => phase = "serializing",
         Becomes(c, [query[c] EXCEPT !.phase = phase, !.worker = worker, !.durable = n,
                                     !.stmts = n, !.done = done])
  PROVE  SqlInv'
<1> DEFINE q == [query[c] EXCEPT !.phase = phase, !.worker = worker, !.durable = n,
                                 !.stmts = n, !.done = done]
<1>1. query[c] \in Queries /\ Sound(query[c])
  BY DEF SqlInv, Typed
<1>2. q \in Queries
  BY <1>1 DEF Queries, Workers
<1>3. q.phase = phase /\ q.worker = worker /\ q.durable = n /\ q.stmts = n
      /\ q.unknown = query[c].unknown
  BY <1>1 DEF Queries
<1>4. Sound(q)
  BY <1>1, <1>3 DEF Sound
<1> HIDE DEF q
<1>5. Becomes(c, q)
  BY DEF q
<1> QED BY <1>2, <1>3, <1>4, <1>5, QueryStep

\* A query whose worker ends.
LEMMA WorkerEnds ==
  ASSUME SqlInv, NEW c \in Calls,
         NEW phase \in {"cancelled", "failed"}, NEW worker \in {"error", "panicked"},
         NEW stmts \in Nat, NEW durable \in Nat, NEW unknown \in BOOLEAN,
         NEW error \in EngineErrors,
         Running(c), query[c].worker = "running",
         worker = "error" =>
           \/ error.kind \in {"Core", "Cancelled", "DeadlineExceeded", "TransactionAborted"}
                /\ durable = stmts
           \/ error.kind = "Core" /\ error.core \in {"DurableCommit", "CommitOutcomeUnknown"},
         Becomes(c, [query[c] EXCEPT !.phase = phase, !.worker = worker, !.stmts = stmts,
                                     !.durable = durable, !.unknown = unknown, !.error = error])
  PROVE  SqlInv'
<1> DEFINE q == [query[c] EXCEPT !.phase = phase, !.worker = worker, !.stmts = stmts,
                                 !.durable = durable, !.unknown = unknown, !.error = error]
<1>1. query[c] \in Queries
  BY DEF SqlInv, Typed
<1>2. q \in Queries
  BY <1>1 DEF Queries, Workers, Phases, Terminal
<1>3. /\ q.phase = phase /\ q.worker = worker /\ q.durable = durable /\ q.stmts = stmts
      /\ q.error = error
  BY <1>1 DEF Queries
<1>4. Sound(q)
  BY <1>3 DEF Sound, Terminal
<1> HIDE DEF q
<1>5. Becomes(c, q)
  BY DEF q
<1> QED BY <1>2, <1>3, <1>4, <1>5, QueryStep

\* Statements, the fence and the commit of one, and the end of the script.
LEMMA StatementsKeep ==
  ASSUME LocalSqlAssumption, SqlInv, NEW c \in Calls,
         Execute(c) \/ Read(c) \/ Fence(c) \/ Commit(c) \/ Finish(c)
  PROVE  SqlInv'
<1> DEFINE n == query[c].stmts
<1>1. query[c] \in Queries
  BY DEF SqlInv, Typed
<1>2. n \in Nat /\ n + 1 \in Nat /\ query[c].done \in Nat /\ query[c].done + 1 \in Nat
  BY <1>1 DEF Queries
<1>3. /\ "queued" \in Phases /\ "executing" \in Phases /\ "commit_critical" \in Phases
      /\ "serializing" \in Phases
      /\ Terminal = {"completed", "failed", "cancelled"}
  BY DEF Phases, Terminal
<1>4. CASE Execute(c)
  <2>1. /\ Running(c) /\ query[c].worker = "running" /\ query[c].phase = "queued"
        /\ query[c].durable = n
    BY <1>3, <1>4, AtPhase DEF Execute
  <2>2. Becomes(c, [query[c] EXCEPT !.phase = "executing", !.worker = "running",
                                    !.durable = n, !.stmts = n, !.done = query[c].done])
    BY <1>1, <1>4, <2>1 DEF Execute, Queries
  <2> QED BY <1>2, <1>3, <2>1, <2>2, GoesOn
<1>5. CASE Read(c)
  <2>1. /\ Running(c) /\ query[c].worker = "running" /\ query[c].phase = "executing"
        /\ query[c].durable = n
    BY <1>3, <1>5, AtPhase DEF Read
  <2>2. Becomes(c, [query[c] EXCEPT !.phase = "executing", !.worker = "running",
                                    !.durable = n, !.stmts = n, !.done = query[c].done + 1])
    BY <1>1, <1>5, <2>1 DEF Read, Queries
  <2> QED BY <1>2, <1>3, <2>1, <2>2, GoesOn
<1>6. CASE Fence(c)
  <2>1. /\ Running(c) /\ query[c].worker = "running" /\ query[c].phase = "executing"
        /\ query[c].durable = n
    BY <1>3, <1>6, AtPhase DEF Fence
  <2>2. Becomes(c, [query[c] EXCEPT !.phase = "commit_critical", !.worker = "running",
                                    !.durable = n, !.stmts = n, !.done = query[c].done])
    BY <1>1, <1>6, <2>1 DEF Fence, Queries
  <2> QED BY <1>2, <1>3, <2>1, <2>2, GoesOn
<1>7. CASE Commit(c)
  <2>1. /\ Running(c) /\ query[c].worker = "running" /\ query[c].phase = "commit_critical"
        /\ query[c].durable = n
    BY <1>3, <1>7, AtPhase DEF Commit
  <2>2. Becomes(c, [query[c] EXCEPT !.phase = "executing", !.worker = "running",
                                    !.durable = n + 1, !.stmts = n + 1,
                                    !.done = query[c].done + 1])
    BY <1>1, <1>7, <2>1 DEF Commit, Queries
  <2> QED BY <1>2, <1>3, <2>1, <2>2, GoesOn
<1>8. CASE Finish(c)
  <2>1. /\ Running(c) /\ query[c].worker = "running" /\ query[c].phase = "executing"
        /\ query[c].durable = n
    BY <1>3, <1>8, AtPhase DEF Finish
  <2>2. Becomes(c, [query[c] EXCEPT !.phase = "serializing", !.worker = "output",
                                    !.durable = n, !.stmts = n, !.done = query[c].done])
    BY <1>1, <1>8, <2>1 DEF Finish, Queries
  <2> QED BY <1>2, <1>3, <2>1, <2>2, GoesOn
<1> QED BY <1>4, <1>5, <1>6, <1>7, <1>8

\* A statement that fails, and one of an aborted transaction.
LEMMA StatementFailuresKeep ==
  ASSUME LocalSqlAssumption, SqlInv, NEW c \in Calls, StatementFails(c) \/ Aborted(c)
  PROVE  SqlInv'
<1>1. query[c] \in Queries /\ Typed
  BY DEF SqlInv, Typed
<1>2. query[c].stmts \in Nat /\ query[c].durable \in Nat /\ query[c].unknown \in BOOLEAN
  BY <1>1 DEF Queries
<1>3. PICK phase \in {"executing", "commit_critical"},
           kind \in {"Core", "TransactionAborted"}, core \in CoreKinds :
             Step(c, phase) /\ Fails(c, query[c], EngineError(c, kind, core))
  <2>1. CASE StatementFails(c)
    <3>1. Failures \subseteq CoreKinds
      BY DEF LocalSqlAssumption
    <3> QED BY <2>1, <3>1 DEF StatementFails
  <2>2. CASE Aborted(c)
    <3>1. "Other" \in CoreKinds
      BY DEF CoreKinds, CoreCategory
    <3> QED BY <2>2, <3>1 DEF Aborted
  <2> QED BY <2>1, <2>2
<1>4. phase \in Phases \ (Terminal \cup {"none"})
  BY DEF Phases, Terminal
<1>5. Running(c) /\ query[c].worker = "running" /\ query[c].durable = query[c].stmts
  BY <1>3, <1>4, AtPhase
<1> DEFINE error == EngineError(c, kind, core)
<1>6. error \in EngineErrors /\ error.kind = kind
  <2>1. kind \in QueryKinds
    BY DEF QueryKinds, NamedKinds
  <2> QED BY <1>1, <2>1, EngineErrorTyped
<1>7. Fails(c, query[c], error)
  BY <1>3
<1> HIDE DEF error
<1>8. Becomes(c, [query[c] EXCEPT !.phase = "failed", !.worker = "error",
                    !.stmts = query[c].stmts, !.durable = query[c].durable,
                    !.unknown = query[c].unknown, !.error = error])
  BY <1>1, <1>7 DEF Fails, Queries
<1>9. error.kind \in {"Core", "Cancelled", "DeadlineExceeded", "TransactionAborted"}
      /\ query[c].durable = query[c].stmts
  BY <1>5, <1>6
<1> QED BY <1>2, <1>5, <1>6, <1>8, <1>9, WorkerEnds

\* A commit that fails after it is durable, or of which nothing is known.
LEMMA CommitFailsKeeps ==
  ASSUME LocalSqlAssumption, SqlInv, NEW c \in Calls, CommitFails(c)
  PROVE  SqlInv'
<1> DEFINE q == query[c]
<1>1. q \in Queries /\ Typed
  BY DEF SqlInv, Typed
<1>2. q.stmts \in Nat /\ q.durable \in Nat /\ q.unknown \in BOOLEAN
  BY <1>1 DEF Queries
<1>3. /\ "commit_critical" \in Phases \ (Terminal \cup {"none"}) /\ "Core" \in QueryKinds
      /\ "DurableCommit" \in CoreKinds /\ "CommitOutcomeUnknown" \in CoreKinds
  BY DEF Phases, Terminal, QueryKinds, CoreKinds
<1>4. Running(c) /\ q.worker = "running" /\ q.durable = q.stmts /\ ~q.unknown
  BY <1>3, AtPhase DEF CommitFails
<1>5. ASSUME NEW recorded \in {0, 1},
             Fails(c, [query[c] EXCEPT !.durable = @ + 1, !.stmts = @ + recorded],
                   [EngineError(c, "Core", "DurableCommit")
                      EXCEPT !.outcome.epoch = query[c].durable + 1])
      PROVE  SqlInv'
  <2> DEFINE base == EngineError(c, "Core", "DurableCommit")
             error == [base EXCEPT !.outcome.epoch = q.durable + 1]
  <2>1. base \in EngineErrors /\ base.kind = "Core" /\ base.core = "DurableCommit"
    BY <1>1, <1>3, EngineErrorTyped
  <2> HIDE DEF base
  <2>2. error \in EngineErrors /\ error.kind = "Core" /\ error.core = "DurableCommit"
    <3> DEFINE o == [base.outcome EXCEPT !.epoch = q.durable + 1]
    <3>1. base.outcome \in Outcomes
      BY <2>1 DEF EngineErrors
    <3>2. o \in Outcomes
      BY <1>2, <3>1 DEF Outcomes
    <3>3. error = [base EXCEPT !.outcome = o]
      BY <2>1 DEF EngineErrors
    <3> HIDE DEF o, error
    <3> QED BY <2>1, <3>2, <3>3 DEF EngineErrors
  <2>3. Fails(c, [q EXCEPT !.durable = @ + 1, !.stmts = @ + recorded], error)
    BY <1>5 DEF base
  <2> HIDE DEF error
  <2>4. Becomes(c, [query[c] EXCEPT !.phase = "failed", !.worker = "error",
                      !.stmts = q.stmts + recorded, !.durable = q.durable + 1,
                      !.unknown = q.unknown, !.error = error])
    BY <1>1, <2>3 DEF Fails, Queries
  <2>5. q.stmts + recorded \in Nat /\ q.durable + 1 \in Nat
    BY <1>2
  <2> QED BY <1>2, <1>4, <2>2, <2>4, <2>5, WorkerEnds
<1>6. ASSUME NEW durable \in {0, 1}, NEW marked \in BOOLEAN,
             Fails(c, [query[c] EXCEPT !.durable = @ + durable, !.unknown = marked],
                   EngineError(c, "Core", "CommitOutcomeUnknown"))
      PROVE  SqlInv'
  <2> DEFINE error == EngineError(c, "Core", "CommitOutcomeUnknown")
  <2>1. error \in EngineErrors /\ error.kind = "Core" /\ error.core = "CommitOutcomeUnknown"
    BY <1>1, <1>3, EngineErrorTyped
  <2>2. Fails(c, [q EXCEPT !.durable = @ + durable, !.unknown = marked], error)
    BY <1>6
  <2> HIDE DEF error
  <2>3. Becomes(c, [query[c] EXCEPT !.phase = "failed", !.worker = "error",
                      !.stmts = q.stmts, !.durable = q.durable + durable,
                      !.unknown = marked, !.error = error])
    BY <1>1, <2>2 DEF Fails, Queries
  <2>4. q.durable + durable \in Nat
    BY <1>2
  <2> QED BY <1>2, <1>4, <2>1, <2>3, <2>4, WorkerEnds
<1> QED BY <1>5, <1>6 DEF CommitFails

\* A worker that notices it must stop, and one that panics.
LEMMA StopsKeep ==
  ASSUME LocalSqlAssumption, SqlInv, NEW c \in Calls, Notice(c) \/ Panic(c)
  PROVE  SqlInv'
<1> DEFINE q == query[c]
<1>1. q \in Queries /\ Typed
  BY DEF SqlInv, Typed
<1>2. /\ q.stmts \in Nat /\ q.durable \in Nat /\ q.unknown \in BOOLEAN /\ q.done \in Nat
      /\ q.error \in EngineErrors
  BY <1>1 DEF Queries
<1>3. /\ {"queued", "executing", "cancelling"} \subseteq Phases \ (Terminal \cup {"none"})
      /\ {"Cancelled", "DeadlineExceeded"} \subseteq QueryKinds /\ "Other" \in CoreKinds
  BY DEF Phases, Terminal, QueryKinds, NamedKinds, CoreKinds, CoreCategory
<1>4. CASE Notice(c)
  <2> DEFINE kind == IF q.signal THEN "Cancelled" ELSE "DeadlineExceeded"
             base == EngineError(c, kind, "Other")
  <2>1. PICK phase \in {"queued", "executing", "cancelling"}, n \in 0..q.stmts :
          /\ Step(c, phase)
          /\ Becomes(c, [q EXCEPT !.phase = "cancelled", !.worker = "error",
                           !.error = [base EXCEPT !.outcome = Outcome([q EXCEPT !.stmts = n])]])
    BY <1>4 DEF Notice
  <2>2. Running(c) /\ q.worker = "running" /\ q.durable = q.stmts
    BY <1>3, <2>1, AtPhase
  <2> DEFINE old == Outcome([q EXCEPT !.stmts = n])
             error == [base EXCEPT !.outcome = old]
  <2>3. old \in Outcomes
    <3> DEFINE committed == n > 0
               epoch == IF n > 0 THEN n ELSE None
    <3>1. n \in Nat
      BY <1>2
    <3>2. old = [committed |-> committed, stmts |-> n, epoch |-> epoch, done |-> q.done]
      BY <1>1 DEF Outcome, Queries
    <3>3. committed \in BOOLEAN /\ n \in Int /\ epoch \in Int /\ q.done \in Int
      BY <1>2, <3>1 DEF None
    <3> HIDE DEF committed, epoch, old
    <3> QED BY <3>2, <3>3 DEF Outcomes
  <2>4. base \in EngineErrors /\ base.kind = kind
    <3>1. kind \in QueryKinds
      BY <1>3
    <3> QED BY <1>1, <1>3, <3>1, EngineErrorTyped
  <2>5. Becomes(c, [q EXCEPT !.phase = "cancelled", !.worker = "error", !.error = error])
    BY <2>1
  <2> HIDE DEF base, old
  <2>6. error \in EngineErrors /\ error.kind \in {"Cancelled", "DeadlineExceeded"}
    BY <2>3, <2>4 DEF EngineErrors
  <2> HIDE DEF error
  <2>7. Becomes(c, [query[c] EXCEPT !.phase = "cancelled", !.worker = "error",
                      !.stmts = q.stmts, !.durable = q.durable,
                      !.unknown = q.unknown, !.error = error])
    BY <1>1, <2>5 DEF Queries
  <2> QED BY <1>2, <2>2, <2>6, <2>7, WorkerEnds
<1>5. CASE Panic(c)
  <2>1. PICK phase \in {"queued", "executing"} :
          Step(c, phase) /\ Becomes(c, [q EXCEPT !.phase = "failed", !.worker = "panicked"])
    BY <1>5 DEF Panic
  <2>2. Running(c) /\ q.worker = "running"
    BY <1>3, <2>1, AtPhase
  <2>3. Becomes(c, [query[c] EXCEPT !.phase = "failed", !.worker = "panicked",
                      !.stmts = q.stmts, !.durable = q.durable,
                      !.unknown = q.unknown, !.error = q.error])
    BY <1>1, <2>1 DEF Queries
  <2> QED BY <1>2, <2>2, <2>3, WorkerEnds
<1> QED BY <1>4, <1>5

\* The deadline passes, the signal comes, and nobody takes a result.
LEMMA SignalsKeep ==
  ASSUME SqlInv, NEW c \in Calls, Expire(c) \/ Signal(c) \/ Discard(c)
  PROVE  SqlInv'
<1> DEFINE q == query[c]
<1>1. q \in Queries /\ Sound(q)
  BY DEF SqlInv, Typed
<1>2. CASE Expire(c)
  <2> DEFINE k == [q EXCEPT !.due = TRUE]
  <2>1. k \in Queries /\ Sound(k) /\ k.phase = q.phase /\ k.worker = q.worker
    BY <1>1 DEF Queries, Sound
  <2>2. Becomes(c, k) /\ Running(c)
    BY <1>2 DEF Expire
  <2> HIDE DEF k
  <2> QED BY <2>1, <2>2, QueryStep
<1>3. CASE Signal(c)
  <2> DEFINE k == [q EXCEPT !.signal = TRUE]
  <2>1. k \in Queries /\ Sound(k) /\ k.phase = q.phase /\ k.worker = q.worker
    BY <1>1 DEF Queries, Sound
  <2>2. Becomes(c, k) /\ Running(c)
    BY <1>3 DEF Signal, Running, Terminal
  <2> HIDE DEF k
  <2> QED BY <2>1, <2>2, QueryStep
<1>4. CASE Discard(c)
  <2> DEFINE k == [q EXCEPT !.phase = "failed"]
  <2>1. k \in Queries /\ Sound(k) /\ k.phase = "failed" /\ k.worker = q.worker
    BY <1>1 DEF Queries, Sound, Phases, Terminal
  <2>2. Becomes(c, k) /\ Running(c)
    BY <1>4 DEF Discard
  <2> HIDE DEF k
  <2> QED BY <2>1, <2>2, QueryStep
<1> QED BY <1>2, <1>3, <1>4

-----------------------------------------------------------------------------
(* The session                                                             *)

\* A call at the start, and no query.
LEMMA IdleTyped == IdleCall \in CallRecords
<1>1. <<>> \in Seq(Slices) /\ [rows |-> 0, bytes |-> 0] \in Slices
  BY DEF Slices
<1>2. "idle" \in Places /\ "none" \in Forms /\ "none" \in Phases
  BY DEF Places, Forms, Phases
<1>3. Unknown \in QueryIds
  BY DEF QueryIds
<1> QED BY <1>1, <1>2, <1>3 DEF IdleCall, CallRecords

LEMMA NoQueryTyped ==
  NoQuery \in Queries /\ NoQuery.durable = NoQuery.stmts /\ ~NoQuery.unknown
<1> DEFINE e == [kind |-> "Core", core |-> "Other", id |-> Unknown, outcome |-> NoOutcome]
<1>1. e \in EngineErrors
  <2>1. "Core" \in QueryKinds /\ "Other" \in CoreKinds
    BY DEF QueryKinds, CoreKinds, CoreCategory
  <2>2. Unknown \in QueryIds
    BY DEF QueryIds
  <2>3. NoOutcome \in Outcomes
    BY DEF NoOutcome, Outcomes, None
  <2> QED BY <2>1, <2>2, <2>3 DEF EngineErrors
<1>2. NoQuery = [phase |-> "none", worker |-> "none", signal |-> FALSE, due |-> FALSE,
                 done |-> 0, stmts |-> 0, durable |-> 0, unknown |-> FALSE, error |-> e]
  BY DEF NoQuery
<1> HIDE DEF e
<1> QED BY <1>1, <1>2 DEF Queries, Phases, Workers

\* A call begins, and shares the session that another has opened first.
LEMMA SessionKeeps ==
  ASSUME LocalSqlAssumption, SqlInv, NEW c \in Calls, Begin(c) \/ Open(c)
  PROVE  SqlInv'
<1>1. call[c] \in CallRecords /\ cached \in Nat /\ opened \in Nat
  BY DEF SqlInv, Typed
<1>2. UNCHANGED <<query, report, stopped>>
  BY DEF Begin, Open
<1>3. query[c] = NoQuery /\ stopped[c] = "no" /\ report[c] = NoReport
  BY DEF Begin, Open, SqlInv, Placed
<1>4. ~Running(c) /\ NoReport.kind = "None"
  BY <1>3 DEF Running, NoQuery, NoReport, Ok
<1>5. CASE Begin(c)
  <2>1. PICK id \in Ids, handle \in BOOLEAN :
          call' = [call EXCEPT ![c] = [IdleCall EXCEPT !.id = id, !.handle = handle,
                     !.session = cached,
                     !.pc = IF cached = 0 THEN "opening" ELSE "session"]]
    BY <1>5 DEF Begin
  <2> DEFINE k == [IdleCall EXCEPT !.id = id, !.handle = handle, !.session = cached,
                     !.pc = IF cached = 0 THEN "opening" ELSE "session"]
  <2>2. IdleCall \in CallRecords
    BY IdleTyped
  <2>3. id \in QueryIds
    BY DEF LocalSqlAssumption, QueryIds
  <2>4. k \in CallRecords
    BY <1>1, <2>2, <2>3 DEF CallRecords, Places
  <2>5. /\ k.session = cached /\ ~k.replaced /\ k.form = "none" /\ k.rows = 0 /\ k.slice = 0
        /\ k.pc = (IF cached = 0 THEN "opening" ELSE "session")
    BY <2>2 DEF CallRecords, IdleCall
  <2>6. call' = [call EXCEPT ![c] = k] /\ UNCHANGED <<cached, opened>>
    BY <1>5, <2>1 DEF Begin
  <2> HIDE DEF k
  <2>7. call'[c] = k
    BY <2>6 DEF SqlInv, Typed
  <2>8. Placed(c)'
    BY <1>2, <1>3, <2>5, <2>7 DEF Placed
  <2>9. Located(c)' /\ Measured(c)'
    BY <1>2, <1>4, <2>5, <2>6, <2>7 DEF Located, Measured, Running
  <2> QED BY <1>1, <1>2, <1>3, <2>4, <2>6, <2>8, <2>9, CallStep
<1>6. CASE Open(c)
  <2> DEFINE k == [call[c] EXCEPT !.pc = "session", !.session = cached']
  <2>1. cached' \in Nat /\ opened' \in Nat /\ cached' # 0 /\ (cached' = cached \/ cached = 0)
    BY <1>1, <1>6 DEF Open
  <2>2. k \in CallRecords
    BY <1>1, <2>1 DEF CallRecords, Places
  <2>3. /\ k.pc = "session" /\ k.session = cached' /\ k.form = call[c].form
        /\ k.rows = call[c].rows /\ k.slice = call[c].slice
    BY <1>1 DEF CallRecords
  <2>4. call' = [call EXCEPT ![c] = k]
    BY <1>6 DEF Open
  <2>5. call[c].pc = "opening" /\ Placed(c)
    BY <1>6 DEF Open, SqlInv
  <2> HIDE DEF k
  <2>6. call'[c] = k
    BY <2>4 DEF SqlInv, Typed
  <2>7. Placed(c)'
    BY <1>2, <1>3, <2>3, <2>5, <2>6 DEF Placed
  <2>8. Located(c)' /\ Measured(c)'
    BY <1>2, <1>3, <1>4, <2>1, <2>3, <2>5, <2>6 DEF Located, Measured, Placed, Running
  <2> QED BY <1>2, <1>3, <2>1, <2>2, <2>4, <2>7, <2>8, CallStep
<1> QED BY <1>5, <1>6

\* Another session takes the place of the one of the Database, or none does:
\* the calls that have the old one know it by `replaced'.
LEMMA ReplaceKeeps ==
  ASSUME SqlInv, RefreshSession \/ RefreshPrincipal
  PROVE  SqlInv'
<1> PICK session \in Nat : Replace(session) /\ opened' \in Nat
  BY DEF RefreshSession, RefreshPrincipal, SqlInv, Typed
<1> DEFINE k(c) == [call[c] EXCEPT !.replaced = @ \/ call[c].session # 0]
<1>1. ASSUME NEW c \in Calls
      PROVE  k(c) \in CallRecords /\ k(c).replaced = (call[c].replaced \/ call[c].session # 0)
  <2>1. call[c] \in CallRecords
    BY DEF SqlInv, Typed
  <2>2. call[c].replaced \in BOOLEAN
    BY <2>1 DEF CallRecords
  <2> DEFINE b == call[c].replaced \/ call[c].session # 0
  <2>3. b \in BOOLEAN /\ k(c) = [call[c] EXCEPT !.replaced = b]
    BY <2>2
  <2> HIDE DEF b
  <2>4. k(c) \in CallRecords /\ k(c).replaced = b
    BY <2>1, <2>3 DEF CallRecords
  <2> QED BY <2>4 DEF b
<1>2. ASSUME NEW c \in Calls
      PROVE  /\ k(c).pc = call[c].pc /\ k(c).session = call[c].session /\ k(c).form = call[c].form
             /\ k(c).output = call[c].output /\ k(c).limits = call[c].limits
             /\ k(c).rows = call[c].rows /\ k(c).bytes = call[c].bytes
             /\ k(c).slice = call[c].slice
  <2>1. call[c] \in CallRecords
    BY DEF SqlInv, Typed
  <2> QED BY <2>1 DEF CallRecords
<1>3. cached' = session /\ call' = [c \in Calls |-> k(c)] /\ UNCHANGED <<query, report, stopped>>
  BY DEF Replace
<1> HIDE DEF k
<1>4. \A c \in Calls : call'[c] = k(c)
  BY <1>3
<1>5. Typed'
  BY <1>1, <1>3 DEF SqlInv, Typed
<1>6. ASSUME NEW c \in Calls
      PROVE  (/\ Sound(query[c]) /\ Placed(c) /\ Located(c)
              /\ Stopped(c) /\ Tells(c) /\ Measured(c))'
  <2>1. /\ Sound(query[c]) /\ Placed(c) /\ Located(c) /\ Stopped(c) /\ Tells(c) /\ Measured(c)
        /\ call[c].replaced \in BOOLEAN
    BY DEF SqlInv, Typed, CallRecords
  <2>2. Sound(query[c])' /\ Stopped(c)' /\ Tells(c)'
    BY <1>3, <2>1 DEF Stopped, Tells
  <2>3. Placed(c)'
    BY <1>2, <1>3, <1>4, <2>1 DEF Placed, Running
  <2>4. Located(c)'
    BY <1>1, <1>2, <1>3, <1>4, <2>1 DEF Located, Running
  <2>5. Measured(c)'
    BY <1>2, <1>3, <1>4, <2>1 DEF Measured, Exceeds
  <2> QED BY <2>2, <2>3, <2>4, <2>5
<1> QED BY <1>5, <1>6 DEF SqlInv

\* A query is registered in the session the call has.
LEMMA RegisterKeeps ==
  ASSUME SqlInv, NEW c \in Calls, Register(c)
  PROVE  SqlInv'
<1> DEFINE q == [NoQuery EXCEPT !.phase = "queued", !.worker = "running"]
           k == [call[c] EXCEPT !.pc = IF call[c].handle THEN "held" ELSE "waiting"]
<1>1. /\ call[c] \in CallRecords /\ call[c].pc = "session" /\ Located(c) /\ Placed(c)
      /\ report[c] = NoReport /\ stopped[c] = "no" /\ query[c] = NoQuery
  BY DEF Register, SqlInv, Typed, Placed
<1>2. NoQuery \in Queries /\ NoQuery.durable = NoQuery.stmts /\ ~NoQuery.unknown
  BY NoQueryTyped
<1>3. q \in Queries /\ Sound(q) /\ q.phase = "queued" /\ q.worker = "running"
  BY <1>2 DEF Queries, Phases, Workers, Sound
<1>4. /\ k \in CallRecords /\ k.pc \in {"held", "waiting"} /\ k.form = call[c].form
      /\ k.session = call[c].session /\ k.replaced = call[c].replaced
      /\ k.rows = call[c].rows /\ k.slice = call[c].slice
  BY <1>1 DEF CallRecords, Places
<1>5. /\ query' = [query EXCEPT ![c] = q] /\ call' = [call EXCEPT ![c] = k]
      /\ UNCHANGED <<cached, opened, report, stopped>>
  BY DEF Register
<1> HIDE DEF q, k
<1>6. /\ call'[c] = k /\ query'[c] = q
      /\ call' \in [Calls -> CallRecords] /\ query' \in [Calls -> Queries]
      /\ \A d \in Calls \ {c} : call'[d] = call[d] /\ query'[d] = query[d]
  BY <1>3, <1>4, <1>5 DEF SqlInv, Typed
<1>7. Typed'
  BY <1>5, <1>6 DEF SqlInv, Typed
<1>8. Placed(c)' /\ Located(c)'
  BY <1>1, <1>3, <1>4, <1>5, <1>6 DEF Placed, Located, Running
<1>9. NoReport.kind = "None"
  BY DEF NoReport, Ok
<1>10. Stopped(c)' /\ Tells(c)' /\ Measured(c)'
  BY <1>1, <1>4, <1>5, <1>6, <1>9 DEF Stopped, Tells, Measured, Placed
<1> QED BY <1>3, <1>5, <1>6, <1>7, <1>8, <1>10, OneCall

-----------------------------------------------------------------------------
(* Calls that fail early, and joins                                        *)

\* A call that returns before it has a query, and one that joins a worker that
\* ended in an error or a panic.
LEMMA EarlyReturnsKeep ==
  ASSUME LocalSqlAssumption, SqlInv, NEW c \in Calls, OpenFails(c) \/ RegisterFails(c)
  PROVE  SqlInv'
<1>1. query[c] \in Queries /\ Sound(query[c]) /\ query[c] = NoQuery /\ stopped[c] = "no"
      /\ call[c].pc # "done" /\ call[c].form \notin {"arrow", "rows"}
  BY DEF OpenFails, RegisterFails, SqlInv, Typed, Placed
<1>2. query[c].phase = "none" /\ ~(query[c].durable > 0)
  BY <1>1 DEF NoQuery
<1>3. PICK r : Return(c, r) /\ r.kind # "Ok"
  <2>1. CASE OpenFails(c)
    <3>1. PICK core \in CoreKinds : Return(c, FromCore(core, None))
      BY <2>1 DEF OpenFails, LocalSqlAssumption
    <3> QED BY <3>1, ErrorsAreErrors
  <2>2. CASE RegisterFails(c)
    <3>1. Refused(c) \in QueryKinds /\ "Other" \in CoreKinds
      BY <2>2 DEF RegisterFails, Refused, QueryKinds, NamedKinds, CoreKinds, CoreCategory
    <3>2. EngineError(c, Refused(c), "Other") \in EngineErrors
      BY <3>1, EngineErrorTyped DEF SqlInv
    <3> QED BY <2>2, <3>2, ErrorsAreErrors DEF RegisterFails
  <2> QED BY <2>1, <2>2
<1>4. UNCHANGED <<cached, opened, query, stopped>>
  BY DEF OpenFails, RegisterFails
<1>5. query' = [query EXCEPT ![c] = query[c]]
  BY <1>4 DEF SqlInv, Typed
<1> QED BY <1>1, <1>2, <1>3, <1>4, <1>5, ReturnStep

\* The thread of the worker cannot be made.
LEMMA SpawnFailsKeeps ==
  ASSUME SqlInv, NEW c \in Calls, SpawnFails(c)
  PROVE  SqlInv'
<1> DEFINE q == [query[c] EXCEPT !.phase = "failed"]
           r == [NoReport EXCEPT !.kind = "Storage"]
<1>1. /\ call[c].pc # "done" /\ call[c].form \notin {"arrow", "rows"}
      /\ query[c] \in Queries /\ query[c] = NoQuery /\ Sound(query[c])
  BY DEF SpawnFails, SqlInv, Typed, Placed
<1>2. q \in Queries /\ Sound(q) /\ q.phase = "failed" /\ q.durable = query[c].durable
  BY <1>1 DEF Queries, Phases, Terminal, Sound
<1> HIDE DEF q
<1>3. r.kind = "Storage"
  BY DEF NoReport, Ok
<1>4. Return(c, r) /\ query' = [query EXCEPT ![c] = q] /\ UNCHANGED <<cached, opened, stopped>>
  BY <1>1 DEF SpawnFails, q
<1>5. query[c].durable = 0
  BY <1>1 DEF NoQuery
<1> HIDE DEF r
<1>6. ~(q.durable > 0)
  BY <1>2, <1>5
<1> QED BY <1>1, <1>2, <1>3, <1>4, <1>6, ReturnStep DEF Terminal

\* A worker that panicked, or left an error: what its status knows is told.
LEMMA JoinsKeep ==
  ASSUME SqlInv, NEW c \in Calls, JoinPanic(c) \/ JoinError(c)
  PROVE  SqlInv'
<1>1. /\ query[c] \in Queries /\ Sound(query[c]) /\ Typed
      /\ call[c].pc # "done" /\ call[c].form \notin {"arrow", "rows"}
      /\ query[c].worker \in {"error", "panicked"}
  BY DEF JoinPanic, JoinError, SqlInv, Typed, Placed
<1>2. /\ query[c].phase \in Terminal
      /\ stopped[c] \in {"accepted", "already_cancelling"}
           => query[c].phase \in {"cancelled", "failed"}
  BY <1>1 DEF Sound, SqlInv, Stopped, Terminal
<1>3. PICK r : /\ Return(c, r) /\ r.kind # "Ok"
               /\ r.kind # "TransactionAborted" /\ query[c].worker # "panicked"
                  /\ query[c].durable > 0 => TellsOfCommit(r)
  <2>1. CASE JoinPanic(c)
    <3>1. [NoReport EXCEPT !.kind = "Storage"].kind = "Storage"
      BY DEF NoReport, Ok
    <3> QED BY <2>1, <3>1 DEF JoinPanic
  <2>2. CASE JoinError(c)
    <3>1. query[c].error \in EngineErrors /\ Status(c) \in Statuses
      BY <1>1, StatusOfQuery DEF Queries
    <3>2. query[c].worker = "error" /\ Return(c, WithStatus(query[c].error, Status(c)))
      BY <2>2 DEF JoinError
    <3>3. WithStatus(query[c].error, Status(c)).kind # "Ok"
      BY <3>1, ErrorsAreErrors
    <3>4. /\ WithStatus(query[c].error, Status(c)).kind # "TransactionAborted"
          /\ query[c].durable > 0
          => TellsOfCommit(WithStatus(query[c].error, Status(c)))
      BY <1>1, <3>2, ErrorsTell
    <3> QED BY <3>2, <3>3, <3>4
  <2> QED BY <2>1, <2>2
<1>4. UNCHANGED <<cached, opened, query, stopped>>
  BY DEF JoinPanic, JoinError
<1>5. query' = [query EXCEPT ![c] = query[c]]
  BY <1>4 DEF SqlInv, Typed
<1> QED BY <1>1, <1>2, <1>3, <1>4, <1>5, ReturnStep

-----------------------------------------------------------------------------
(* The conversion of an output                                             *)

\* A conversion that fails: nothing its query committed is kept back.
LEMMA OutputFailsKeeps ==
  ASSUME SqlInv, NEW c \in Calls, call[c].pc \in {"converting", "completing"},
         NEW r, OutputFails(c, r), r.kind # "Ok",
         query[c].durable > 0 => TellsOfCommit(r),
         call[c].form \in {"arrow", "rows"} /\ r.kind = "ResultLimitExceeded" => Exceeds(c)
  PROVE  SqlInv'
<1> DEFINE phase == IF MustStop(c) THEN "cancelled" ELSE "failed"
           q == [query[c] EXCEPT !.phase = phase]
<1>1. /\ query[c] \in Queries /\ Sound(query[c]) /\ query[c].worker = "output"
      /\ call[c].pc # "done"
  BY DEF SqlInv, Typed, Placed
<1>2. q \in Queries /\ Sound(q) /\ q.phase \in {"cancelled", "failed"}
      /\ q.durable = query[c].durable /\ q.worker = "output"
  BY <1>1 DEF Queries, Phases, Terminal, Sound
<1>3. /\ Return(c, r) /\ query' = [query EXCEPT ![c] = q]
      /\ UNCHANGED <<cached, opened, stopped>>
  BY DEF OutputFails
<1> HIDE DEF q
<1> QED BY <1>1, <1>2, <1>3, ReturnStep DEF Terminal

\* The errors of a conversion tell of the commits.
LEMMA ConversionErrors ==
  ASSUME SqlInv, NEW c \in Calls, call[c].pc \in {"converting", "completing"}
  PROVE  /\ \A kind : Limited(c, kind).kind = kind
         /\ FromQuery(StopError(c)).kind \in {"Cancelled", "DeadlineExceeded"}
         /\ WithStatus(StopError(c), Status(c)).kind \in {"Cancelled", "DeadlineExceeded"}
         /\ query[c].durable > 0 =>
              /\ \A kind : TellsOfCommit(Limited(c, kind))
              /\ TellsOfCommit(FromQuery(StopError(c)))
              /\ TellsOfCommit(WithStatus(StopError(c), Status(c)))
<1>1. /\ query[c] \in Queries /\ Typed
      /\ query[c].durable = query[c].stmts /\ ~query[c].unknown
  BY DEF SqlInv, Typed, Placed, Sound
<1>2. /\ Status(c).outcome = Outcome(query[c]) /\ ~Status(c).unknown
      /\ Outcome(query[c]) \in Outcomes
      /\ Outcome(query[c]).committed <=> query[c].durable > 0
  BY <1>1, StatusOfQuery
<1> DEFINE kind == IF query[c].signal THEN "Cancelled" ELSE "DeadlineExceeded"
           e == StopError(c)
<1>3. e \in EngineErrors /\ e.kind = kind /\ e.outcome = Outcome(query[c])
  <2>1. kind \in QueryKinds /\ "Other" \in CoreKinds
    BY DEF QueryKinds, NamedKinds, CoreKinds, CoreCategory
  <2> QED BY <1>1, <2>1, EngineErrorTyped DEF StopError
<1>4. kind \in {"Cancelled", "DeadlineExceeded"}
  OBVIOUS
<1> HIDE DEF kind, e
<1> DEFINE f == FromQuery(e)
<1>5. f.kind = kind /\ f.outcome = Outcome(query[c])
  BY <1>3, <1>4 DEF FromQuery, NamedKinds, WithOutcome
<1> HIDE DEF f
<1>6. /\ WithStatus(e, Status(c)).kind = kind
      /\ WithStatus(e, Status(c)).outcome = Merge(f.outcome, Status(c).outcome)
  BY <1>2, <1>4, <1>5 DEF WithStatus, WithOutcome, f
<1>7. Merge(f.outcome, Status(c).outcome).committed <=> query[c].durable > 0
  BY <1>2, <1>5, MergeKeeps
<1>8. \A k : Limited(c, k).kind = k /\ Limited(c, k).outcome = Outcome(query[c])
  BY DEF Limited
<1> QED BY <1>2, <1>4, <1>5, <1>6, <1>7, <1>8 DEF TellsOfCommit, e, f

\* The next slice is converted, and the limits are looked at with it.
LEMMA ConvertKeeps ==
  ASSUME LocalSqlAssumption, SqlInv, NEW c \in Calls, Convert(c)
  PROVE  SqlInv'
<1> DEFINE k0 == call[c]
           s == k0.output[k0.slice + 1]
           n == k0.slice + 1
           form == k0.form
           output == k0.output
<1>1. /\ k0 \in CallRecords /\ k0.pc = "converting" /\ k0.slice < Len(output)
      /\ report[c] = NoReport /\ form \in {"arrow", "rows"}
      /\ Measured(c) /\ Placed(c) /\ Located(c)
  BY DEF Convert, Converting, SqlInv, Typed, Placed
<1>2. /\ output \in Seq(Slices) /\ k0.slice \in Nat /\ k0.rows \in Nat /\ k0.bytes \in Nat
      /\ k0.limits.rows \in Nat /\ k0.limits.bytes \in Nat
  BY <1>1 DEF CallRecords, Slices
<1>3. n \in 1..Len(output) /\ n - 1 = k0.slice /\ n \in 0..Len(output) /\ n \in Nat
  BY <1>1, <1>2
<1>4. s \in Slices /\ s.rows \in Nat /\ s.bytes \in Nat
  <2>1. s \in Slices
    BY <1>2, <1>3
  <2> QED BY <2>1 DEF Slices
<1>5. k0.rows = RowSums(output)[n - 1] /\ k0.bytes = SizeOf(form, output, n - 1)
  BY <1>1, <1>3 DEF Measured
<1>6. /\ RowSums(output)[n] = k0.rows + s.rows
      /\ SizeOf(form, output, n) = k0.bytes + SliceBytes(c, s)
      /\ SizeOf(form, output, n) \in Nat
  <2>1. RowSums(output)[n] = k0.rows + s.rows
    BY <1>2, <1>3, <1>5, PrefixSums
  <2>2. SizeOf(form, output, n) = SizeOf(form, output, n - 1) + SliceBytes(c, s)
        /\ SizeOf(form, output, n) \in Nat
    <3>1. SliceBytes(c, s) =
            (IF form = "arrow" THEN output[n].bytes + 1
             ELSE output[n].bytes + output[n].rows
                    - (IF RowSums(output)[n - 1] = 0 /\ output[n].rows > 0 THEN 1 ELSE 0))
      BY <1>5 DEF SliceBytes
    <3> QED BY <1>2, <1>3, <3>1, SizeGrows
  <2> QED BY <1>5, <2>1, <2>2
<1>7. /\ RowSums(output)[n] <= Rows(output) /\ Rows(output) \in Nat
      /\ RowSums(output)[n] \in Nat
  <2>1. Len(output) \in 0..Len(output)
    BY <1>2
  <2> QED BY <1>2, <1>3, <2>1, PrefixSums DEF Rows
<1>8. SizeOf(form, output, n) <= Bytes(form, output) /\ Bytes(form, output) \in Nat
  <2>1. /\ SizeOf(form, output, n) <= SizeOf(form, output, Len(output))
        /\ SizeOf(form, output, Len(output)) \in Nat
        /\ SizeOf(form, output, Len(output)) + Footer(form) = Bytes(form, output)
    BY <1>2, <1>3, SizeGrows, SizeAtEnds
  <2>2. Footer(form) \in Nat
    BY DEF Footer
  <2> QED BY <1>6, <2>1, <2>2
<1>9. CASE Fits(c) /\ UNCHANGED <<cached, opened, query, report, stopped>>
           /\ call' = [call EXCEPT ![c].slice = @ + 1, ![c].rows = @ + s.rows,
                                    ![c].bytes = @ + SliceBytes(c, s)]
  <2> DEFINE rows == RowSums(output)[n]
             bytes == SizeOf(form, output, n)
             k == [k0 EXCEPT !.slice = n, !.rows = rows, !.bytes = bytes]
  <2>1. rows <= k0.limits.rows /\ bytes <= k0.limits.bytes
    BY <1>6, <1>9 DEF Fits
  <2>2. rows \in Nat /\ bytes \in Nat /\ n <= Len(output)
    <3>1. n <= Len(output)
      BY <1>2, <1>3
    <3> QED BY <1>6, <1>7, <3>1
  <2>3. call' = [call EXCEPT ![c] = k]
    <3>1. k = [k0 EXCEPT !.slice = @ + 1, !.rows = @ + s.rows, !.bytes = @ + SliceBytes(c, s)]
      BY <1>1, <1>6 DEF CallRecords
    <3> QED BY <1>9, <3>1 DEF SqlInv, Typed
  <2> HIDE DEF rows, bytes, n, s
  <2>4. k \in CallRecords
    BY <1>1, <1>3, <2>2 DEF CallRecords
  <2>5. /\ k.pc = "converting" /\ k.form = form /\ k.output = output /\ k.limits = k0.limits
        /\ k.slice = n /\ k.rows = rows /\ k.bytes = bytes
        /\ k.session = k0.session /\ k.replaced = k0.replaced
    BY <1>1 DEF CallRecords
  <2> HIDE DEF k
  <2>6. call'[c] = k
    BY <2>3 DEF SqlInv, Typed
  <2>7. Placed(c)' /\ Located(c)'
    BY <1>1, <1>9, <2>5, <2>6 DEF Placed, Located, Running
  <2>8. report'[c].kind = "None"
    BY <1>1, <1>9 DEF NoReport, Ok
  <2>9. Measured(c)'
    BY <2>1, <2>2, <2>5, <2>6, <2>8 DEF Measured, rows, bytes
  <2>10. cached' \in Nat /\ opened' \in Nat /\ cached' = cached
    BY <1>9 DEF SqlInv, Typed
  <2> QED BY <1>1, <1>9, <2>3, <2>4, <2>7, <2>9, <2>10, CallStep
<1>10. CASE ~Fits(c) /\ OutputFails(c, Limited(c, "ResultLimitExceeded"))
  <2>1. Exceeds(c)
    <3>1. \/ ~(RowSums(output)[n] <= k0.limits.rows)
          \/ ~(SizeOf(form, output, n) <= k0.limits.bytes)
      BY <1>6, <1>10 DEF Fits
    <3> QED BY <1>2, <1>6, <1>7, <1>8, <3>1 DEF Exceeds
  <2> QED BY <1>1, <1>10, <2>1, ConversionErrors, OutputFailsKeeps
<1>11. CASE OutputFails(c, Limited(c, "SerializationFailed"))
  BY <1>1, <1>11, ConversionErrors, OutputFailsKeeps
<1> QED BY <1>9, <1>10, <1>11 DEF Convert

\* A call that waits takes the output of its worker, and converts it when it is
\* one of those that return rows or Arrow bytes.
LEMMA WaitsKeep ==
  ASSUME LocalSqlAssumption, SqlInv, NEW c \in Calls, Wait(c) \/ JoinOutput(c)
  PROVE  SqlInv'
<1>1. /\ call[c] \in CallRecords /\ call[c].pc \in {"held", "waiting"}
      /\ report[c] = NoReport /\ Placed(c) /\ Located(c)
      /\ call[c].form \notin {"arrow", "rows"}
  BY DEF Wait, JoinOutput, SqlInv, Typed, Placed
<1>2. UNCHANGED <<cached, opened, query, report, stopped>>
  BY DEF Wait, JoinOutput
<1>3. cached' \in Nat /\ opened' \in Nat /\ cached' = cached /\ report'[c].kind = "None"
  BY <1>1, <1>2 DEF SqlInv, Typed, NoReport, Ok
<1>4. CASE Wait(c)
  <2> DEFINE k == [call[c] EXCEPT !.pc = "waiting"]
  <2>1. /\ k \in CallRecords /\ k.pc = "waiting" /\ k.form = call[c].form
        /\ k.session = call[c].session /\ k.replaced = call[c].replaced
        /\ k.rows = call[c].rows /\ k.slice = call[c].slice
    BY <1>1 DEF CallRecords, Places
  <2>2. call' = [call EXCEPT ![c] = k]
    BY <1>4 DEF Wait
  <2> HIDE DEF k
  <2>3. call'[c] = k
    BY <2>2 DEF SqlInv, Typed
  <2>4. Placed(c)' /\ Located(c)' /\ Measured(c)'
    BY <1>1, <1>2, <2>1, <2>3 DEF Placed, Located, Measured, Running
  <2> QED BY <1>1, <1>2, <1>3, <2>1, <2>2, <2>4, CallStep
<1>5. CASE JoinOutput(c) /\ call' = [call EXCEPT ![c].pc = "completing", ![c].form = "batches"]
  <2> DEFINE k == [call[c] EXCEPT !.pc = "completing", !.form = "batches"]
  <2>1. /\ k \in CallRecords /\ k.pc = "completing" /\ k.form = "batches"
        /\ k.session = call[c].session /\ k.replaced = call[c].replaced
    BY <1>1 DEF CallRecords, Places, Forms
  <2>2. call' = [call EXCEPT ![c] = k]
    BY <1>5 DEF SqlInv, Typed
  <2> HIDE DEF k
  <2>3. call'[c] = k /\ query[c].worker = "output"
    BY <1>5, <2>2 DEF SqlInv, Typed, JoinOutput
  <2>4. Placed(c)' /\ Located(c)' /\ Measured(c)'
    BY <1>1, <1>2, <2>1, <2>3 DEF Placed, Located, Measured, Running
  <2> QED BY <1>1, <1>2, <1>3, <2>1, <2>2, <2>4, CallStep
<1>6. ASSUME JoinOutput(c), NEW form \in {"arrow", "rows"}, NEW o \in Outputs,
             call' = [call EXCEPT ![c] = [@ EXCEPT !.pc = "converting", !.form = form,
                        !.output = o.slices, !.limits = o.limits, !.bytes = Header(form)]]
      PROVE  SqlInv'
  <2> DEFINE k == [call[c] EXCEPT !.pc = "converting", !.form = form,
                     !.output = o.slices, !.limits = o.limits, !.bytes = Header(form)]
  <2>1. /\ o.slices \in Seq(Slices) /\ o.limits \in Slices
        /\ o.limits.rows \in Nat /\ o.limits.bytes \in Nat \ {0, 1}
    <3>1. o \in [slices : Seq([rows : Nat, bytes : Nat]),
                 limits : [rows : Nat, bytes : Nat \ {0, 1}]]
      BY DEF LocalSqlAssumption
    <3>2. o.limits \in [rows : Nat, bytes : Nat \ {0, 1}]
      BY <3>1
    <3> QED BY <3>1, <3>2 DEF Slices
  <2>2. call' = [call EXCEPT ![c] = k]
    BY <1>6
  <2>3. Header(form) \in Nat /\ Header(form) <= o.limits.bytes
    BY <2>1 DEF Header
  <2>4. k \in CallRecords
    BY <1>1, <2>1, <2>3 DEF CallRecords, Places, Forms
  <2>5. /\ k.pc = "converting" /\ k.form = form /\ k.output = o.slices /\ k.limits = o.limits
        /\ k.bytes = Header(form) /\ k.rows = call[c].rows /\ k.slice = call[c].slice
        /\ k.session = call[c].session /\ k.replaced = call[c].replaced
    BY <1>1 DEF CallRecords
  <2> HIDE DEF k
  <2>6. call'[c] = k /\ query[c].worker = "output"
    BY <1>6, <2>2 DEF SqlInv, Typed, JoinOutput
  <2>7. Placed(c)' /\ Located(c)'
    BY <1>1, <1>2, <2>5, <2>6 DEF Placed, Located, Running
  <2>8. call[c].rows = 0 /\ call[c].slice = 0
    BY <1>1 DEF Placed
  <2>9. RowSums(o.slices)[0] = 0 /\ SizeOf(form, o.slices, 0) = Header(form)
        /\ 0 <= Len(o.slices)
    BY <2>1, PrefixSums, SizeAtEnds
  <2>10. Measured(c)'
    BY <1>3, <2>1, <2>3, <2>5, <2>6, <2>8, <2>9 DEF Measured
  <2> QED BY <1>1, <1>2, <1>3, <2>2, <2>4, <2>7, <2>10, CallStep
<1> QED BY <1>4, <1>5, <1>6 DEF JoinOutput

\* A conversion that stops, and the end of one.
LEMMA ConversionEndsKeep ==
  ASSUME LocalSqlAssumption, SqlInv, NEW c \in Calls, ConvertStops(c) \/ Converted(c)
  PROVE  SqlInv'
<1> DEFINE k0 == call[c]
           output == k0.output
<1>1. /\ k0 \in CallRecords /\ k0.pc = "converting" /\ report[c] = NoReport
      /\ k0.form \in {"arrow", "rows"}
      /\ Measured(c) /\ Placed(c) /\ Located(c)
  BY DEF ConvertStops, Converted, Converting, SqlInv, Typed, Placed
<1>2. CASE ConvertStops(c)
  BY <1>1, <1>2, ConversionErrors, OutputFailsKeeps DEF ConvertStops
<1>3. CASE Converted(c)
  <2>1. /\ output \in Seq(Slices) /\ k0.slice \in Nat /\ k0.rows \in Nat /\ k0.bytes \in Nat
        /\ k0.limits.rows \in Nat /\ k0.limits.bytes \in Nat
    BY <1>1 DEF CallRecords, Slices
  <2>2. k0.slice = Len(output)
    <3>1. k0.slice <= Len(output) /\ ~(k0.slice < Len(output))
      BY <1>1, <1>3 DEF Measured, Converted, Converting
    <3> QED BY <2>1, <3>1
  <2>3. k0.rows = Rows(output) /\ k0.bytes + Footer(k0.form) = Bytes(k0.form, output)
    BY <1>1, <2>1, <2>2, SizeAtEnds DEF Measured, Rows
  <2>4. k0.rows <= k0.limits.rows /\ k0.bytes <= k0.limits.bytes
    BY <1>1 DEF Measured
  <2>5. Footer("arrow") = 1 /\ Footer("rows") = 0
    BY DEF Footer
  <2>6. CASE k0.form = "arrow" /\ k0.bytes + Footer("arrow") > k0.limits.bytes
    <3>1. OutputFails(c, Limited(c, "ResultLimitExceeded"))
      BY <1>3, <2>6 DEF Converted
    <3>2. Exceeds(c)
      BY <2>3, <2>6 DEF Exceeds
    <3> QED BY <1>1, <3>1, <3>2, ConversionErrors, OutputFailsKeeps
  <2>7. CASE ~(k0.form = "arrow" /\ k0.bytes + Footer("arrow") > k0.limits.bytes)
    <3> DEFINE bytes == k0.bytes + Footer(k0.form)
               k == [k0 EXCEPT !.pc = "completing", !.bytes = bytes]
    <3>1. bytes \in Nat /\ bytes <= k0.limits.bytes
      BY <1>1, <2>1, <2>4, <2>5, <2>7
    <3>2. /\ call' = [call EXCEPT ![c].pc = "completing", ![c].bytes = @ + Footer(call[c].form)]
          /\ UNCHANGED <<cached, opened, query, report, stopped>>
      BY <1>3, <2>7 DEF Converted
    <3>3. call' = [call EXCEPT ![c] = k]
      BY <3>2 DEF SqlInv, Typed
    <3>4. ~Exceeds(c)
      <4>1. Bytes(k0.form, output) = bytes
        BY <2>3
      <4> HIDE DEF bytes
      <4>2. ~(bytes > k0.limits.bytes) /\ ~(Rows(output) > k0.limits.rows)
        BY <2>1, <2>3, <2>4, <3>1
      <4> QED BY <4>1, <4>2 DEF Exceeds
    <3> HIDE DEF bytes
    <3>5. /\ k \in CallRecords /\ k.pc = "completing" /\ k.form = k0.form
          /\ k.output = k0.output /\ k.limits = k0.limits /\ k.slice = k0.slice
          /\ k.session = k0.session /\ k.replaced = k0.replaced
      BY <1>1, <3>1 DEF CallRecords, Places
    <3> HIDE DEF k
    <3>6. call'[c] = k
      BY <3>3 DEF SqlInv, Typed
    <3>7. Placed(c)' /\ Located(c)'
      BY <1>1, <3>2, <3>5, <3>6 DEF Placed, Located, Running
    <3>8. report'[c].kind = "None"
      BY <1>1, <3>2 DEF NoReport, Ok
    <3>9. Measured(c)'
      BY <2>2, <3>4, <3>5, <3>6, <3>8 DEF Measured, Exceeds
    <3>10. cached' \in Nat /\ opened' \in Nat /\ cached' = cached
      BY <3>2 DEF SqlInv, Typed
    <3> QED BY <1>1, <3>2, <3>3, <3>5, <3>7, <3>9, <3>10, CallStep
  <2> QED BY <2>6, <2>7
<1> QED BY <1>2, <1>3

-----------------------------------------------------------------------------
(* The completion of an output                                             *)

\* The last checkpoint, and another round of the loop.
LEMMA CheckpointsKeep ==
  ASSUME SqlInv, NEW c \in Calls, Checkpoint(c) \/ Again(c)
  PROVE  SqlInv'
<1> DEFINE k0 == call[c]
<1>1. /\ k0 \in CallRecords /\ k0.pc \in {"completing", "deciding"} /\ report[c] = NoReport
      /\ query[c].phase \in Phases /\ Measured(c) /\ Placed(c) /\ Located(c)
  BY DEF Checkpoint, Again, SqlInv, Typed, Placed, Queries
<1>2. CASE Checkpoint(c) /\ MustStop(c)
  <2>1. OutputFails(c, WithStatus(StopError(c), Status(c))) /\ k0.pc = "completing"
    BY <1>2 DEF Checkpoint
  <2> QED BY <2>1, ConversionErrors, OutputFailsKeeps
<1>3. ASSUME NEW pc \in {"completing", "deciding"}, NEW seen \in Phases,
             call' = [call EXCEPT ![c].pc = pc, ![c].seen = seen],
             UNCHANGED <<cached, opened, query, report, stopped>>
      PROVE  SqlInv'
  <2> DEFINE k == [k0 EXCEPT !.pc = pc, !.seen = seen]
  <2>1. /\ k \in CallRecords /\ k.pc = pc /\ k.form = k0.form
        /\ k.output = k0.output /\ k.limits = k0.limits /\ k.slice = k0.slice
        /\ k.session = k0.session /\ k.replaced = k0.replaced
    BY <1>1 DEF CallRecords, Places
  <2>2. call' = [call EXCEPT ![c] = k]
    BY <1>3 DEF SqlInv, Typed
  <2> HIDE DEF k
  <2>3. call'[c] = k
    BY <2>2 DEF SqlInv, Typed
  <2>4. Placed(c)' /\ Located(c)'
    BY <1>1, <1>3, <2>1, <2>3 DEF Placed, Located, Running
  <2>5. report'[c].kind = "None"
    BY <1>1, <1>3 DEF NoReport, Ok
  <2>6. Measured(c)'
    BY <1>1, <2>1, <2>3, <2>5 DEF Measured, Exceeds
  <2>7. cached' \in Nat /\ opened' \in Nat /\ cached' = cached
    BY <1>3 DEF SqlInv, Typed
  <2> QED BY <1>1, <1>3, <2>1, <2>2, <2>4, <2>6, <2>7, CallStep
<1>4. CASE Checkpoint(c) /\ ~MustStop(c)
  <2>1. /\ call' = [call EXCEPT ![c].pc = "deciding", ![c].seen = query[c].phase]
        /\ UNCHANGED <<cached, opened, query, report, stopped>>
    BY <1>4 DEF Checkpoint
  <2> QED BY <1>1, <1>3, <2>1
<1>5. CASE Again(c)
  <2>1. k0.seen \in Phases
    BY <1>1 DEF CallRecords
  <2>2. /\ call' = [call EXCEPT ![c].pc = "completing", ![c].seen = k0.seen]
        /\ UNCHANGED <<cached, opened, query, report, stopped>>
    BY <1>1, <1>5 DEF Again, SqlInv, Typed, CallRecords
  <2> QED BY <1>3, <2>1, <2>2
<1> QED BY <1>2, <1>4, <1>5

\* The query completes, and only one that nobody cancelled: its phase is still
\* the one that was read.
LEMMA TransitionKeeps ==
  ASSUME SqlInv, NEW c \in Calls, Transition(c)
  PROVE  SqlInv'
<1> DEFINE q == [query[c] EXCEPT !.phase = "completed"]
<1>1. /\ query[c] \in Queries /\ Sound(query[c]) /\ query[c].worker = "output"
      /\ query[c].phase = "serializing" /\ call[c].pc = "deciding"
      /\ Stopped(c) /\ Measured(c)
  BY DEF Transition, SqlInv, Typed, Placed
<1>2. q \in Queries /\ Sound(q) /\ q.phase = "completed"
  BY <1>1 DEF Queries, Phases, Terminal, Sound
<1>3. /\ Return(c, Ok) /\ query' = [query EXCEPT ![c] = q]
      /\ UNCHANGED <<cached, opened, stopped>>
  BY DEF Transition
<1>4. stopped[c] \notin {"accepted", "already_cancelling"}
  BY <1>1 DEF Stopped
<1>5. Ok.kind = "Ok"
  BY DEF Ok
<1>6. call[c].form \in {"arrow", "rows"} =>
        ~Exceeds(c) /\ call[c].slice = Len(call[c].output)
  BY <1>1 DEF Measured
<1> HIDE DEF q
<1> QED BY <1>1, <1>2, <1>3, <1>4, <1>5, <1>6, ReturnStep DEF Terminal

-----------------------------------------------------------------------------
(* Cancellation                                                            *)

\* A cancellation that is accepted finds the query before its end, and no way
\* leads from there to a success.
LEMMA CancelKeeps ==
  ASSUME SqlInv, NEW c \in Calls, CancelHandle(c) \/ CancelSql(c) \/ Drop(c)
  PROVE  SqlInv'
<1>1. /\ call[c] \in CallRecords /\ query[c] \in Queries /\ Sound(query[c])
      /\ Placed(c) /\ Located(c) /\ Stopped(c) /\ Tells(c) /\ Measured(c)
  BY DEF SqlInv, Typed
<1>2. call[c].pc \in {"held", "waiting", "converting", "completing", "deciding", "dropped"}
  <2>1. CASE CancelHandle(c) \/ Drop(c)
    BY <2>1 DEF CancelHandle, Drop
  <2>2. CASE CancelSql(c)
    <3>1. Running(c)
      BY <2>2 DEF CancelSql, FoundBy, InSession
    <3>2. call[c].pc \notin {"idle", "opening", "session", "done"}
      BY <1>1, <3>1 DEF Placed, Running, NoQuery
    <3> QED BY <1>1, <3>2 DEF CallRecords, Places
  <2> QED BY <2>1, <2>2
<1>3. report[c] = NoReport /\ NoReport.kind = "None"
  BY <1>1, <1>2 DEF Placed, NoReport, Ok
<1>4. PICK k : /\ call' = [call EXCEPT ![c] = k] /\ UNCHANGED <<cached, opened, report>>
               /\ \/ k = call[c]
                  \/ call[c].pc = "held" /\ k = [call[c] EXCEPT !.pc = "dropped"]
  <2>1. CASE CancelHandle(c) \/ CancelSql(c)
    <3>1. call = [call EXCEPT ![c] = call[c]]
      BY DEF SqlInv, Typed
    <3>2. call' = call /\ UNCHANGED <<cached, opened, report>>
      BY <2>1 DEF CancelHandle, CancelSql
    <3> QED BY <3>1, <3>2
  <2>2. CASE Drop(c)
    <3>1. /\ call' = [call EXCEPT ![c] = [call[c] EXCEPT !.pc = "dropped"]]
          /\ call[c].pc = "held" /\ UNCHANGED <<cached, opened, report>>
      BY <2>2 DEF Drop, SqlInv, Typed
    <3> QED BY <3>1
  <2> QED BY <2>1, <2>2
<1>5. /\ k \in CallRecords /\ (k.pc = call[c].pc \/ (call[c].pc = "held" /\ k.pc = "dropped"))
      /\ k.form = call[c].form /\ k.output = call[c].output /\ k.limits = call[c].limits
      /\ k.slice = call[c].slice /\ k.rows = call[c].rows /\ k.bytes = call[c].bytes
      /\ k.session = call[c].session /\ k.replaced = call[c].replaced
  <2>1. CASE k = call[c]
    BY <1>1, <2>1
  <2>2. CASE call[c].pc = "held" /\ k = [call[c] EXCEPT !.pc = "dropped"]
    BY <1>1, <2>2 DEF CallRecords, Places
  <2> QED BY <1>4, <2>1, <2>2
<1>6. PICK q : /\ query' = [query EXCEPT ![c] = q]
               /\ stopped' = [stopped EXCEPT ![c] = CancelAnswer(c)]
               /\ \/ CancelAnswer(c) = "accepted" /\ q = [query[c] EXCEPT !.phase = "cancelling"]
                  \/ CancelAnswer(c) # "accepted" /\ q = query[c]
  <2>1. query = [query EXCEPT ![c] = query[c]]
    BY DEF SqlInv, Typed
  <2>2. CancelQuery(c)
    BY DEF CancelHandle, CancelSql, Drop
  <2>3. CASE CancelAnswer(c) = "accepted"
    <3>1. query' = [query EXCEPT ![c] = [query[c] EXCEPT !.phase = "cancelling"]]
      BY <2>2, <2>3 DEF CancelQuery, SqlInv, Typed
    <3> QED BY <2>2, <2>3, <3>1 DEF CancelQuery
  <2>4. CASE CancelAnswer(c) # "accepted"
    BY <2>1, <2>2, <2>4 DEF CancelQuery
  <2> QED BY <2>3, <2>4
<1>7. /\ q \in Queries /\ Sound(q) /\ q.worker = query[c].worker
      /\ q.durable = query[c].durable
      /\ q.phase = query[c].phase \/ (Running(c) /\ q.phase = "cancelling")
      /\ CancelAnswer(c) \in {"accepted", "already_cancelling"} => q.phase = "cancelling"
  <2>1. CASE CancelAnswer(c) = "accepted"
    <3>1. query[c].phase \in {"queued", "executing", "serializing"}
      BY <2>1 DEF CancelAnswer
    <3>2. Running(c)
      BY <3>1 DEF Running, Terminal
    <3>3. q = [query[c] EXCEPT !.phase = "cancelling"]
      BY <1>6, <2>1
    <3> QED BY <1>1, <3>1, <3>2, <3>3 DEF Queries, Phases, Terminal, Sound
  <2>2. CASE CancelAnswer(c) # "accepted"
    <3>1. q = query[c]
      BY <1>6, <2>2
    <3>2. CancelAnswer(c) = "already_cancelling" => query[c].phase = "cancelling"
      BY DEF CancelAnswer
    <3> QED BY <1>1, <2>2, <3>1, <3>2
  <2> QED BY <2>1, <2>2
<1>8. /\ call'[c] = k /\ call' \in [Calls -> CallRecords]
      /\ query'[c] = q /\ query' \in [Calls -> Queries]
      /\ stopped'[c] = CancelAnswer(c) /\ DOMAIN stopped' = Calls
      /\ \A d \in Calls \ {c} : /\ call'[d] = call[d] /\ query'[d] = query[d]
                                /\ stopped'[d] = stopped[d]
  BY <1>4, <1>5, <1>6, <1>7 DEF SqlInv, Typed
<1>9. Typed'
  BY <1>4, <1>8 DEF SqlInv, Typed
<1>10. Sound(query[c])' /\ Placed(c)'
  BY <1>1, <1>2, <1>3, <1>4, <1>5, <1>7, <1>8 DEF Placed
<1>11. Located(c)'
  BY <1>1, <1>4, <1>5, <1>7, <1>8 DEF Located, Running
<1>12. Stopped(c)' /\ Tells(c)'
  BY <1>3, <1>4, <1>7, <1>8 DEF Stopped, Tells
<1>13. Measured(c)'
  BY <1>1, <1>2, <1>3, <1>4, <1>5, <1>8 DEF Measured, Exceeds
<1> QED BY <1>4, <1>8, <1>9, <1>10, <1>11, <1>12, <1>13, OneCall

-----------------------------------------------------------------------------
(* The theorems                                                            *)

\* SqlInv holds at the start, and every step keeps it.
LEMMA SqlInvHolds == LocalSqlAssumption => (Spec => []SqlInv)
<1> SUFFICES ASSUME LocalSqlAssumption PROVE Spec => []SqlInv
  OBVIOUS
<1>1. Init => SqlInv
  <2> SUFFICES ASSUME Init PROVE SqlInv
    OBVIOUS
  <2>1. IdleCall \in CallRecords
    BY IdleTyped
  <2>2. NoQuery \in Queries
    BY NoQueryTyped
  <2>3. Typed
    BY <2>1, <2>2 DEF Init, Typed
  <2>4. ASSUME NEW c \in Calls
        PROVE  /\ Sound(query[c]) /\ Placed(c) /\ Located(c)
               /\ Stopped(c) /\ Tells(c) /\ Measured(c)
    <3>1. call[c] = IdleCall /\ query[c] = NoQuery /\ report[c] = NoReport /\ stopped[c] = "no"
      BY DEF Init
    <3>2. /\ IdleCall.pc = "idle" /\ IdleCall.session = 0 /\ IdleCall.form = "none"
          /\ IdleCall.rows = 0 /\ IdleCall.slice = 0
      BY DEF IdleCall
    <3>3. /\ NoQuery.phase = "none" /\ NoQuery.worker = "none" /\ NoQuery.durable = NoQuery.stmts
          /\ ~NoQuery.unknown /\ NoReport.kind = "None"
      BY DEF NoQuery, NoReport, Ok
    <3> QED BY <3>1, <3>2, <3>3
            DEF Sound, Placed, Located, Stopped, Tells, Measured, Running
  <2> QED BY <2>3, <2>4 DEF SqlInv
<1>2. SqlInv /\ [Next]_vars => SqlInv'
  <2> SUFFICES ASSUME SqlInv, [Next]_vars PROVE SqlInv'
    OBVIOUS
  <2>1. CASE UNCHANGED vars
    BY <2>1 DEF vars, SqlInv, Typed, Placed, Located, Stopped, Tells, Measured, Exceeds, Running
  <2>2. CASE RefreshSession \/ RefreshPrincipal
    BY <2>2, ReplaceKeeps
  <2>3. ASSUME NEW c \in Calls,
               \/ Begin(c) \/ Open(c) \/ OpenFails(c)
               \/ RegisterFails(c) \/ Register(c) \/ SpawnFails(c)
               \/ Execute(c) \/ Read(c) \/ Fence(c) \/ Finish(c)
               \/ StatementFails(c) \/ Aborted(c) \/ Panic(c) \/ Expire(c)
               \/ CancelHandle(c) \/ CancelSql(c) \/ Drop(c) \/ Wait(c)
               \/ Waits(c) \/ Ends(c)
        PROVE  SqlInv'
    <3>1. CASE \/ Begin(c) \/ Open(c) \/ OpenFails(c)
               \/ RegisterFails(c) \/ Register(c) \/ SpawnFails(c)
      BY <3>1, SessionKeeps, EarlyReturnsKeep, RegisterKeeps, SpawnFailsKeeps
    <3>2. CASE \/ Execute(c) \/ Read(c) \/ Fence(c) \/ Finish(c)
               \/ StatementFails(c) \/ Aborted(c) \/ Panic(c) \/ Expire(c)
      BY <3>2, StatementsKeep, StatementFailuresKeep, StopsKeep, SignalsKeep
    <3>3. CASE CancelHandle(c) \/ CancelSql(c) \/ Drop(c) \/ Wait(c)
      BY <3>3, CancelKeeps, WaitsKeep
    <3>4. CASE Waits(c)
      BY <3>4, JoinsKeep, WaitsKeep, ConversionEndsKeep, ConvertKeeps, CheckpointsKeep,
         TransitionKeeps DEF Waits
    <3>5. CASE Ends(c)
      BY <3>5, StatementsKeep, CommitFailsKeeps, StopsKeep, SignalsKeep DEF Ends
    <3> QED BY <2>3, <3>1, <3>2, <3>3, <3>4, <3>5
  <2> QED BY <2>1, <2>2, <2>3 DEF Next
<1> QED BY <1>1, <1>2, PTL DEF Spec

\* A call that fails after one of its statements committed says so, or says
\* that it cannot tell, whatever fails and whenever it is cancelled.
THEOREM ReportsTellOfCommits == Spec => []CommitsAreReported
<1>1. SqlInv => CommitsAreReported
  BY DEF SqlInv, Tells, CommitsAreReported
<1> QED BY <1>1, SqlInvHolds, LocalSqlAssumption, PTL

\* No call returns success after its cancellation was accepted.
THEOREM CancelledCallsFail == Spec => []AcceptedCancelNeverSucceeds
<1>1. SqlInv => AcceptedCancelNeverSucceeds
  BY DEF SqlInv, Stopped, AcceptedCancelNeverSucceeds
<1> QED BY <1>1, SqlInvHolds, LocalSqlAssumption, PTL

\* A running query is in the session where it is looked for, however many calls
\* opened one at once, until the session is replaced.
THEOREM QueriesStayFound == Spec => []RunningQueriesAreFound
<1>1. SqlInv => RunningQueriesAreFound
  BY DEF SqlInv, Located, RunningQueriesAreFound, FoundBy, InSession
<1> QED BY <1>1, SqlInvHolds, LocalSqlAssumption, PTL

\* For every output and every limit: a result comes whole and within its limits,
\* and is refused for them only if it exceeds them.
THEOREM LimitsAreExact == Spec => []OutputIsWholeOrRefused
<1>1. SqlInv => OutputIsWholeOrRefused
  BY DEF SqlInv, Measured, OutputIsWholeOrRefused
<1> QED BY <1>1, SqlInvHolds, LocalSqlAssumption, PTL
=============================================================================
