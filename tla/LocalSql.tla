------------------------------ MODULE LocalSql ------------------------------
(***************************************************************************)
(* SQL on an embedded database: the session Database::sql opens on first   *)
(* use, the handle of a running query, its cancellation, and the output    *)
(* conversion that stays cancellable to its end (db.rs, arrow_util.rs).    *)
(*                                                                         *)
(* A session, its query registry and the phases of a query are the query   *)
(* engine's; their actions are those the kit's code relies on.  A worker   *)
(* runs a script of statements that each commit on their own.              *)
(***************************************************************************)
EXTENDS QueryErrors, Sequences, FiniteSets

CONSTANTS
  Calls,         \* the calls of start_sql and of sql_rows, sql_arrow
  Ids,           \* the query ids they ask for, strings
  MaxSessions,   \* bound: sessions opened
  MaxStatements, \* bound: statements of a script
  Capacity,      \* of a session's registry
  Failures,      \* the engine errors a statement fails with, a subset of CoreKinds
  Brief,         \* bound: the calls that only read, and end without a conversion
  Outputs        \* results as sequences of slices [rows, bytes] of up to 256 rows,
                 \* with the limits [rows, bytes] asked for: [slices, limits]

ASSUME LocalSqlAssumption ==
  /\ Ids \subseteq STRING /\ Unknown \notin Ids
  /\ MaxSessions \in Nat /\ MaxStatements \in Nat /\ Capacity \in Nat
  /\ Failures \subseteq CoreKinds
  /\ Brief \subseteq Calls
  /\ Outputs \subseteq [slices : Seq([rows : Nat, bytes : Nat]),
                       limits : [rows : Nat, bytes : Nat \ {0, 1}]]

VARIABLES
  cached,    \* the session of the Database, 0 when it has none
  opened,    \* sessions opened so far
  call,      \* call[c]: where call c is, its session, id and what it asked for
  query,     \* query[c]: the query of call c in the registry of its session
  report,    \* report[c]: what call c returned
  stopped    \* stopped[c]: the answer to the cancellation of c's query

vars == <<cached, opened, call, query, report, stopped>>

Ok == [kind |-> "Ok", id |-> Unknown, outcome |-> NoOutcome]
NoReport == [Ok EXCEPT !.kind = "None"]

IdleCall == [pc |-> "idle", session |-> 0, replaced |-> FALSE, id |-> Unknown,
             handle |-> FALSE, form |-> "none", seen |-> "none", output |-> <<>>,
             limits |-> [rows |-> 0, bytes |-> 0], rows |-> 0, bytes |-> 0, slice |-> 0]

\* `replaced' is history: the session was replaced under the call.  `signal' and
\* `due' are what a checkpoint looks at; `durable' counts the statements that
\* really committed.
NoQuery == [phase |-> "none", worker |-> "none", signal |-> FALSE, due |-> FALSE,
            done |-> 0, stmts |-> 0, durable |-> 0, unknown |-> FALSE,
            error |-> [kind |-> "Core", core |-> "Other", id |-> Unknown, outcome |-> NoOutcome]]

Terminal == {"completed", "failed", "cancelled"}
Running(c) == query[c].phase \notin Terminal \cup {"none"}

Outcome(q) == [committed |-> q.stmts > 0, stmts |-> q.stmts,
               epoch |-> IF q.stmts > 0 THEN q.stmts ELSE None, done |-> q.done]
Status(c) == [id |-> call[c].id, unknown |-> query[c].unknown, outcome |-> Outcome(query[c])]

EngineError(c, kind, core) ==
    [kind |-> kind, core |-> core, id |-> call[c].id, outcome |-> Outcome(query[c])]

Return(c, r) == /\ call' = [call EXCEPT ![c] = [@ EXCEPT !.pc = "done", !.session = 0,
                                                 !.replaced = FALSE, !.seen = "none"]]
                /\ report' = [report EXCEPT ![c] = r]

-----------------------------------------------------------------------------
(* sql_session *)

\* A call asks for the session: there is one, or it opens one with the lock
\* released.
Begin(c) ==
  /\ call[c].pc = "idle"
  /\ \E id \in Ids, handle \in (IF c \in Brief THEN {TRUE} ELSE BOOLEAN) :
        call' = [call EXCEPT ![c] = [IdleCall EXCEPT !.id = id, !.handle = handle,
                   !.session = cached,
                   !.pc = IF cached = 0 THEN "opening" ELSE "session"]]
  /\ UNCHANGED <<cached, opened, query, report, stopped>>

\* mutant: the session opened last is kept, not the one opened first
Opens(c) ==
  /\ call[c].pc = "opening" /\ opened < MaxSessions
  /\ opened' = opened + 1
  /\ cached' = opened'
  /\ call' = [call EXCEPT ![c].pc = "session", ![c].session = cached']
  /\ UNCHANGED <<query, report, stopped>>

\* get_or_insert: a session another call has opened meanwhile is shared.
Open(c) ==
  /\ call[c].pc = "opening" /\ opened < MaxSessions
  /\ opened' = IF cached = 0 THEN opened + 1 ELSE opened
  /\ cached' = IF cached = 0 THEN opened' ELSE cached
  /\ call' = [call EXCEPT ![c].pc = "session", ![c].session = cached']
  /\ UNCHANGED <<query, report, stopped>>

\* MongrelSession::open fails.
OpenFails(c) ==
  /\ call[c].pc = "opening"
  /\ \E core \in Failures : Return(c, FromCore(core, None))
  /\ UNCHANGED <<cached, opened, query, stopped>>

Replace(session) ==
  /\ cached' = session
  /\ call' = [c \in Calls |-> [call[c] EXCEPT !.replaced = @ \/ call[c].session # 0]]
  /\ UNCHANGED <<query, report, stopped>>

\* refresh_sql_session and refresh_principal
RefreshSession == opened < MaxSessions /\ opened' = opened + 1 /\ Replace(opened')
RefreshPrincipal == cached # 0 /\ Replace(0) /\ UNCHANGED opened

-----------------------------------------------------------------------------
(* start_sql, sql_serialized_with_options *)

InSession(s) == {d \in Calls : Running(d) /\ call[d].session = s}

\* The id is in use, or the registry is full.
Refused(c) ==
    IF \E d \in InSession(call[c].session) : call[d].id = call[c].id THEN "QueryConflict"
    ELSE IF Cardinality(InSession(call[c].session)) >= Capacity THEN "QueryRegistryFull"
    ELSE "no"

RegisterFails(c) ==
  /\ call[c].pc = "session" /\ Refused(c) # "no"
  /\ Return(c, FromQuery(EngineError(c, Refused(c), "Other")))
  /\ UNCHANGED <<cached, opened, query, stopped>>

\* A handle leaves its query to a worker thread; the calls that return rows or
\* Arrow bytes run it themselves.
Register(c) ==
  /\ call[c].pc = "session" /\ Refused(c) = "no"
  /\ query' = [query EXCEPT ![c] = [NoQuery EXCEPT !.phase = "queued", !.worker = "running"]]
  /\ call' = [call EXCEPT ![c].pc = IF call[c].handle THEN "held" ELSE "waiting"]
  /\ UNCHANGED <<cached, opened, report, stopped>>

\* The thread is not created: the guard of the registration ends the query.
SpawnFails(c) ==
  /\ call[c].pc = "session" /\ Refused(c) = "no" /\ call[c].handle /\ c \notin Brief
  /\ query' = [query EXCEPT ![c] = [NoQuery EXCEPT !.phase = "failed"]]
  /\ Return(c, [NoReport EXCEPT !.kind = "Storage"])
  /\ UNCHANGED <<cached, opened, stopped>>

-----------------------------------------------------------------------------
(* The worker: the query engine *)

Step(c, phase) == query[c].worker = "running" /\ query[c].phase = phase
Becomes(c, q) == /\ query' = [query EXCEPT ![c] = q]
                 /\ UNCHANGED <<cached, opened, call, report, stopped>>
Fails(c, q, error) == Becomes(c, [q EXCEPT !.phase = "failed", !.worker = "error", !.error = error])

Execute(c) == Step(c, "queued") /\ Becomes(c, [query[c] EXCEPT !.phase = "executing"])

\* A statement reads, or comes to the fence of its commit.
Read(c) == /\ Step(c, "executing")
           /\ query[c].done < MaxStatements
           /\ Becomes(c, [query[c] EXCEPT !.done = @ + 1])
Fence(c) == /\ Step(c, "executing") /\ query[c].done < MaxStatements /\ c \notin Brief
            /\ Becomes(c, [query[c] EXCEPT !.phase = "commit_critical"])

Commit(c) == /\ Step(c, "commit_critical")
             /\ Becomes(c, [query[c] EXCEPT !.phase = "executing", !.durable = @ + 1,
                                            !.stmts = @ + 1, !.done = @ + 1])

StatementFails(c) ==
  \E phase \in {"executing", "commit_critical"}, core \in Failures :
     /\ core \notin {"DurableCommit", "CommitOutcomeUnknown"} /\ c \notin Brief
     /\ Step(c, phase) /\ Fails(c, query[c], EngineError(c, "Core", core))

\* A statement of an aborted transaction.
Aborted(c) == Step(c, "executing") /\ c \notin Brief /\ Fails(c, query[c], EngineError(c, "TransactionAborted", "Other"))

\* The commit is durable and fails after it, before or after the receipt is
\* recorded; or nothing is known of it.
CommitFails(c) ==
  /\ Step(c, "commit_critical")
  /\ \/ \E recorded \in {0, 1} :
           Fails(c, [query[c] EXCEPT !.durable = @ + 1, !.stmts = @ + recorded],
                 [EngineError(c, "Core", "DurableCommit") EXCEPT !.outcome.epoch = query[c].durable + 1])
     \/ \E durable \in {0, 1}, marked \in BOOLEAN :
           Fails(c, [query[c] EXCEPT !.durable = @ + durable, !.unknown = marked],
                 EngineError(c, "Core", "CommitOutcomeUnknown"))

\* The script is over: its last result is handed over for conversion.
Finish(c) == /\ Step(c, "executing") /\ query[c].done > 0
             /\ Becomes(c, [query[c] EXCEPT !.phase = "serializing", !.worker = "output"])

\* A checkpoint of the worker, whose error may be older than the last commit.
Notice(c) ==
  \E phase \in {"queued", "executing", "cancelling"}, n \in 0..query[c].stmts :
     /\ Step(c, phase) /\ (query[c].signal \/ query[c].due)
     /\ Becomes(c, [query[c] EXCEPT !.phase = "cancelled", !.worker = "error",
          !.error = [EngineError(c, IF query[c].signal THEN "Cancelled" ELSE "DeadlineExceeded",
                                 "Other") EXCEPT !.outcome = Outcome([query[c] EXCEPT !.stmts = n])]])

Panic(c) == \E phase \in {"queued", "executing"} :
     /\ Step(c, phase) /\ c \notin Brief
     /\ Becomes(c, [query[c] EXCEPT !.phase = "failed", !.worker = "panicked"])

\* The deadline passes.
Expire(c) == /\ Running(c) /\ c \notin Brief /\ ~query[c].due
             /\ Becomes(c, [query[c] EXCEPT !.due = TRUE])

\* A cancellation: it is accepted where no commit is under way, and the query
\* is signalled after its phase.
CancelAnswer(c) ==
    CASE query[c].phase \in {"queued", "executing", "serializing"} -> "accepted"
      [] query[c].phase = "cancelling" -> "already_cancelling"
      [] query[c].phase = "commit_critical" -> "too_late"
      [] OTHER -> "already_finished"

CancelQuery(c) ==
  /\ stopped' = [stopped EXCEPT ![c] = CancelAnswer(c)]
  /\ query' = IF CancelAnswer(c) = "accepted" THEN [query EXCEPT ![c].phase = "cancelling"]
              ELSE query

Signal(c) == /\ query[c].phase = "cancelling" /\ ~query[c].signal
             /\ Becomes(c, [query[c] EXCEPT !.signal = TRUE])

-----------------------------------------------------------------------------
(* cancel, cancel_sql, dropping the handle *)

\* SqlQueryHandle::cancel and the status know the query's own session;
\* Database::cancel_sql looks an id up in the cached one.
CancelHandle(c) == /\ call[c].pc = "held" /\ stopped[c] = "no" /\ c \notin Brief
                   /\ CancelQuery(c)
                   /\ UNCHANGED <<cached, opened, call, report>>

FoundBy(id) == {c \in InSession(cached) : call[c].id = id}
CancelSql(c) == /\ c \in FoundBy(call[c].id) /\ stopped[c] = "no" /\ c \notin Brief
                /\ CancelQuery(c)
                /\ UNCHANGED <<cached, opened, call, report>>

\* mutant: the handle cancels only after its worker was joined
DropsQuietly(c) == /\ call[c].pc = "held" /\ c \notin Brief
                   /\ call' = [call EXCEPT ![c].pc = "dropped"]
                   /\ UNCHANGED <<cached, opened, query, report, stopped>>

Drop(c) == /\ call[c].pc = "held" /\ c \notin Brief
           /\ CancelQuery(c)
           /\ call' = [call EXCEPT ![c].pc = "dropped"]
           /\ UNCHANGED <<cached, opened, report>>

\* Nobody takes the result of a dropped handle: it is dropped with the thread.
Discard(c) == /\ call[c].pc = "dropped" /\ query[c].worker = "output" /\ Running(c)
              /\ Becomes(c, [query[c] EXCEPT !.phase = "failed"])

-----------------------------------------------------------------------------
(* wait, wait_rows, wait_arrow: wait_for_serialization and the conversion *)

Wait(c) == /\ call[c].pc = "held"
           /\ call' = [call EXCEPT ![c].pc = "waiting"]
           /\ UNCHANGED <<cached, opened, query, report, stopped>>

JoinPanic(c) == /\ call[c].pc = "waiting" /\ query[c].worker = "panicked"
                /\ Return(c, [NoReport EXCEPT !.kind = "Storage"])
                /\ UNCHANGED <<cached, opened, query, stopped>>

JoinError(c) == /\ call[c].pc = "waiting" /\ query[c].worker = "error"
                /\ Return(c, WithStatus(query[c].error, Status(c)))
                /\ UNCHANGED <<cached, opened, query, stopped>>

\* The bytes before the first slice: the header of the Arrow file, the brackets
\* of the JSON array.
Header(form) == IF form = "arrow" THEN 1 ELSE 2

JoinOutput(c) ==
  /\ call[c].pc = "waiting" /\ query[c].worker = "output"
  /\ \/ /\ call[c].handle
        /\ call' = [call EXCEPT ![c].pc = "completing", ![c].form = "batches"]
     \/ \E form \in {"arrow", "rows"}, o \in Outputs :
           /\ c \notin Brief
           /\ call' = [call EXCEPT ![c] = [@ EXCEPT !.pc = "converting", !.form = form,
                        !.output = o.slices, !.limits = o.limits, !.bytes = Header(form)]]
  /\ UNCHANGED <<cached, opened, query, report, stopped>>

\* The checkpoint of a query that is being converted.
MustStop(c) == query[c].signal \/ query[c].due
StopError(c) == EngineError(c, IF query[c].signal THEN "Cancelled" ELSE "DeadlineExceeded", "Other")

\* The conversion ends in an error: fail_sql_output.
OutputFails(c, r) ==
  /\ Return(c, r)
  /\ query' = [query EXCEPT ![c].phase = IF MustStop(c) THEN "cancelled" ELSE "failed"]
  /\ UNCHANGED <<cached, opened, stopped>>

Limited(c, kind) == [kind |-> kind, id |-> call[c].id, outcome |-> Outcome(query[c])]

\* The bytes a slice adds: an Arrow message, or JSON rows with their commas.
SliceBytes(c, s) ==
    IF call[c].form = "arrow" THEN s.bytes + 1
    ELSE s.bytes + s.rows - (IF call[c].rows = 0 /\ s.rows > 0 THEN 1 ELSE 0)

\* mutant: the limits are looked at before the slice is added
Fitted(c) == LET s == call[c].output[call[c].slice + 1] IN
    call[c].rows <= call[c].limits.rows /\ call[c].bytes <= call[c].limits.bytes

Fits(c) == LET s == call[c].output[call[c].slice + 1] IN
    /\ call[c].rows + s.rows <= call[c].limits.rows
    /\ call[c].bytes + SliceBytes(c, s) <= call[c].limits.bytes

Converting(c) == call[c].pc = "converting" /\ call[c].slice < Len(call[c].output)

ConvertStops(c) == Converting(c) /\ MustStop(c) /\ OutputFails(c, FromQuery(StopError(c)))

\* One slice; a value that cannot be written fails the conversion.
Convert(c) ==
  /\ Converting(c) /\ ~MustStop(c)
  /\ \/ /\ Fits(c)
        /\ LET s == call[c].output[call[c].slice + 1] IN
           call' = [call EXCEPT ![c].slice = @ + 1, ![c].rows = @ + s.rows,
                                ![c].bytes = @ + SliceBytes(c, s)]
        /\ UNCHANGED <<cached, opened, query, report, stopped>>
     \/ ~Fits(c) /\ OutputFails(c, Limited(c, "ResultLimitExceeded"))
     \/ OutputFails(c, Limited(c, "SerializationFailed"))

\* The footer of an Arrow file is written against the limit too.
Footer(form) == IF form = "arrow" THEN 1 ELSE 0

Converted(c) ==
  /\ call[c].pc = "converting" /\ ~Converting(c)
  /\ IF call[c].form = "arrow" /\ call[c].bytes + Footer("arrow") > call[c].limits.bytes
     THEN OutputFails(c, Limited(c, "ResultLimitExceeded"))
     ELSE /\ call' = [call EXCEPT ![c].pc = "completing", ![c].bytes = @ + Footer(call[c].form)]
          /\ UNCHANGED <<cached, opened, query, report, stopped>>

-----------------------------------------------------------------------------
(* complete_sql_output *)

\* The last checkpoint, then the phase.
Checkpoint(c) ==
  /\ call[c].pc = "completing"
  /\ IF MustStop(c) THEN OutputFails(c, WithStatus(StopError(c), Status(c)))
     ELSE /\ call' = [call EXCEPT ![c].pc = "deciding", ![c].seen = query[c].phase]
          /\ UNCHANGED <<cached, opened, query, report, stopped>>

\* mutant: the phase is set without comparing it
CompletesAnyway(c) ==
  /\ call[c].pc = "deciding" /\ call[c].seen = "serializing"
  /\ query' = [query EXCEPT ![c].phase = "completed"]
  /\ Return(c, Ok)
  /\ UNCHANGED <<cached, opened, stopped>>

\* The query completes if its phase is still the one that was read.
Transition(c) ==
  /\ call[c].pc = "deciding" /\ call[c].seen = "serializing"
  /\ query[c].phase = call[c].seen
  /\ query' = [query EXCEPT ![c].phase = "completed"]
  /\ Return(c, Ok)
  /\ UNCHANGED <<cached, opened, stopped>>

\* mutant: a cancelling query is waited for without another checkpoint
YieldsOnly(c) ==
  /\ call[c].pc = "deciding" /\ call[c].seen # "serializing"
  /\ call' = [call EXCEPT ![c].seen = query[c].phase]
  /\ UNCHANGED <<cached, opened, query, report, stopped>>

\* Otherwise the loop goes round: the phase changed, or it is cancelling.
Again(c) ==
  /\ call[c].pc = "deciding"
  /\ call[c].seen = "serializing" => query[c].phase # call[c].seen
  /\ call' = [call EXCEPT ![c].pc = "completing"]
  /\ UNCHANGED <<cached, opened, query, report, stopped>>

-----------------------------------------------------------------------------

Init ==
  /\ cached = 0 /\ opened = 0
  /\ call = [c \in Calls |-> IdleCall]
  /\ query = [c \in Calls |-> NoQuery]
  /\ report = [c \in Calls |-> NoReport]
  /\ stopped = [c \in Calls |-> "no"]

\* What a call does once it has begun to wait, and what its worker must do.
Waits(c) == \/ JoinPanic(c) \/ JoinError(c) \/ JoinOutput(c)
            \/ ConvertStops(c) \/ Convert(c) \/ Converted(c)
            \/ Checkpoint(c) \/ Transition(c) \/ Again(c)
Ends(c) == \/ Commit(c) \/ CommitFails(c) \/ Notice(c) \/ Signal(c) \/ Discard(c)

Next ==
  \/ \E c \in Calls :
        \/ Begin(c) \/ Open(c) \/ OpenFails(c)
        \/ RegisterFails(c) \/ Register(c) \/ SpawnFails(c)
        \/ Execute(c) \/ Read(c) \/ Fence(c) \/ Finish(c)
        \/ StatementFails(c) \/ Aborted(c) \/ Panic(c) \/ Expire(c)
        \/ CancelHandle(c) \/ CancelSql(c) \/ Drop(c) \/ Wait(c)
        \/ Waits(c) \/ Ends(c)
  \/ RefreshSession \/ RefreshPrincipal

Spec == Init /\ [][Next]_vars

\* A thread that waits goes on, and a worker ends a commit and looks at its
\* checkpoints; no query need ever finish of itself.
FairSpec == /\ Spec
            /\ \A c \in Calls : WF_vars(Waits(c)) /\ WF_vars(Signal(c)) /\ WF_vars(Discard(c))
                             /\ WF_vars(Notice(c)) /\ WF_vars(Commit(c) \/ CommitFails(c))

-----------------------------------------------------------------------------
(* Properties *)

\* A call that fails after one of its statements committed says so, or says
\* that it cannot tell: also when the error is about the conversion, a later
\* statement or a cancellation (error.rs, docs/sql-cancellation.md).  A panic
\* of the worker and an aborted transaction say nothing.
CommitsAreReported ==
  \A c \in Calls :
     /\ report[c].kind \notin {"None", "Ok", "TransactionAborted"}
     /\ query[c].worker # "panicked" /\ query[c].durable > 0
     => TellsOfCommit(report[c])

\* A call whose cancellation was accepted never returns success, however late
\* in the completion it comes (complete_sql_output).
AcceptedCancelNeverSucceeds ==
  \A c \in Calls :
     stopped[c] \in {"accepted", "already_cancelling"} => report[c].kind # "Ok"

\* While nobody replaces the session, a running query is in the session where
\* Database::cancel_sql and sql_query_status look for it, though two first
\* calls may each open one (sql_session).
RunningQueriesAreFound ==
  \A c \in Calls : Running(c) /\ ~call[c].replaced => c \in FoundBy(call[c].id)

\* Sums(v)[n] is the sum of the first n numbers of v.
Sums(v) == LET sum[n \in 0..Len(v)] == IF n = 0 THEN 0 ELSE sum[n - 1] + v[n]
           IN  sum

\* Rows and bytes of a whole output.
RowSums(output) == Sums([i \in 1..Len(output) |-> output[i].rows])
ByteSums(output) == Sums([i \in 1..Len(output) |-> output[i].bytes])
Rows(output) == RowSums(output)[Len(output)]
Bytes(form, output) ==
    ByteSums(output)[Len(output)]
      + (IF form = "arrow" THEN 2 + Len(output)
         ELSE 2 + (IF Rows(output) = 0 THEN 0 ELSE Rows(output) - 1))

Exceeds(c) == \/ Rows(call[c].output) > call[c].limits.rows
              \/ Bytes(call[c].form, call[c].output) > call[c].limits.bytes

\* A result is returned whole, and only if it is within the limits of rows and
\* bytes; a call is refused for its limits only if its result exceeds them
\* (batches_to_rows_controlled_with_limits, batches_to_ipc_...).
OutputIsWholeOrRefused ==
  \A c \in Calls : call[c].form \in {"arrow", "rows"} =>
     /\ report[c].kind = "Ok" => ~Exceeds(c) /\ call[c].slice = Len(call[c].output)
     /\ report[c].kind = "ResultLimitExceeded" => Exceeds(c)

\* A query whose cancellation was accepted ends, and the call that waits for it
\* returns; a dropped handle stops its query unless a commit was under way.
StopsEnd ==
  \A c \in Calls :
     /\ (stopped[c] = "accepted" /\ call[c].pc \notin {"held", "done"})
           ~> (call[c].pc \in {"done", "dropped"} /\ ~Running(c))
     /\ (call[c].pc = "dropped" /\ stopped[c] # "too_late") ~> ~Running(c)
=============================================================================
