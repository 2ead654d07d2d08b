------------------------------ MODULE RemoteSql ------------------------------
(***************************************************************************)
(* One client of a MongrelDB server running SQL over HTTP                  *)
(* (crates/mongreldb-kit/src/remote.rs): plain statements                  *)
(* (sql_rows_with_options, start_sql_rows), idempotent writes              *)
(* (execute_idempotent_sql), typed batches (RemoteTransaction::commit) and *)
(* changes of the schema (create_table, create_procedure, ...).            *)
(* Requests and answers are lost or late, answers are mixed up or cannot   *)
(* be read, the server restarts, and the client finds out what became of   *)
(* its statement from what the server still remembers.                     *)
(*                                                                         *)
(* The server is external.  It does what its capabilities promise: a query *)
(* has the client's id, a cancel that comes first stops it, the intent of  *)
(* an idempotent write is durable before it runs, its receipt is replayed, *)
(* and an intent without a receipt is never executed again.  What runs and *)
(* what ran is remembered in memory only and lost in a restart.            *)
(***************************************************************************)
EXTENDS RemoteStatus, FiniteSets

CONSTANTS MaxCalls,     \* calls of the client, one after the other
          Programs,     \* the kinds of the calls, one for each
          Statements,   \* statements of a plain call
          Codes,        \* Codes[k]: the codes a statement of kind k may fail with
          MaxRestarts,  \* restarts of the server
          MaxPolls      \* polls that fit in the recovery window

ASSUME RemoteAssumption ==
    /\ Programs \subseteq [1..MaxCalls -> {"sql", "idempotent", "batch", "ddl"}]
    /\ {MaxCalls, Statements, MaxPolls} \subseteq Nat \ {0}
    /\ MaxRestarts \in Nat

Calls == 1..MaxCalls
Ids == 1..2 * MaxCalls            \* a call and its replay have ids of their own

VARIABLES
    kind,      \* kind[c]: what call c is
    calls,     \* how many calls were begun
    attempt,   \* of the current call: 1, or 2 for the replay
    pc,        \* where the client is
    failure,   \* what recovery is for: "transport", or "reading" the answer
    polls,     \* polls of the recovery
    handle,    \* the handle of a started statement: "none", "held", "dropped"
    answer,    \* what the cancellation through the handle was answered
    report,    \* report[c]: what call c told its caller, or NoError
    exec,      \* exec[q]: what the server remembers of query q, or Forgotten
    sent,      \* the requests under way to the server
    intent,    \* the durable record of the idempotency key
    effects,   \* effects[q]: the statements of q that committed
    restarts

client == <<kind, calls, attempt, pc, failure, polls, handle, answer, report>>
server == <<exec, sent, intent, effects, restarts>>
vars == <<client, server>>

Id(c, n) == 2 * c - 2 + n
CallOf(q) == (q + 1) \div 2
id == Id(calls, attempt)          \* the query of the current attempt
Length(q) == IF kind[CallOf(q)] = "sql" THEN Statements ELSE 1

-----------------------------------------------------------------------------
(* The server.                                                             *)

\* `done' counts the statements that ended, `by' is the query whose receipt this
\* is, and `asked' says that the request is here and waits for its answer.
Forgotten == [phase |-> "forgotten", done |-> 0, code |-> Null, why |-> "none",
              by |-> None, asked |-> FALSE]
Running(phase) == [Forgotten EXCEPT !.phase = phase, !.asked = (phase # "pre_cancelled")]
Ended(q) == exec[q].phase \in TerminalStates
NoIntent == [by |-> None, state |-> "none", body |-> Forgotten]

\* The durable fields of a query that committed the statements C.
DurableOf(e, C, length) ==
    IF e.code = "QUERY_OUTCOME_UNKNOWN"
    THEN [committed |-> Null, stmts |-> None, epoch |-> None, first |-> None,
          last |-> None, done |-> None, at |-> None]
    ELSE LET End(better(_, _)) == IF C = {} THEN None
                                  ELSE CHOOSE i \in C : \A j \in C : better(i, j) \/ i = j
         IN [committed |-> IF C = {} THEN "no" ELSE "yes",
             stmts |-> Cardinality(C),
             epoch |-> IF C = {} THEN None ELSE Cardinality(C),
             first |-> End(<), last |-> End(>), done |-> e.done,
             at |-> IF e.done = length THEN length - 1 ELSE e.done]

StatusName(e, C) ==
    LET name(none, some) == IF C = {} THEN none ELSE some IN
    CASE e.phase = "pre_cancelled" -> "cancelled_before_start"
      [] e.phase = "failed" -> IF e.code = "QUERY_OUTCOME_UNKNOWN" THEN "outcome_unknown"
                               ELSE name("failed_before_commit", "partially_committed")
      [] e.phase = "cancelled" ->
            IF e.why = "deadline" THEN name("deadline_before_commit", "deadline_after_commit")
                                  ELSE name("cancelled_before_commit", "cancelled_after_commit")
      [] e.phase = "completed" -> name("completed", "committed")
      [] OTHER -> name("running", "committed")

\* The body that describes query q when it is e and committed C.
Body(q, e, C) ==
    LET bare == [id |-> q, state |-> e.phase, status |-> StatusName(e, C),
                 terminal |-> Null, code |-> e.code, reason |-> e.why,
                 cancel |-> CancelOf(e.phase), retryable |-> e.code \in RetryableCodes,
                 top |-> DurableOf(e, C, Length(q)),
                 outcome |-> DurableOf(e, C, Length(q))]
    IN [bare EXCEPT !.terminal = TerminalOf(bare)]

\* The query that did what q reports: another one for a replayed receipt.
Origin(q) == IF exec[q].by = None THEN q ELSE exec[q].by

\* The bodies the client may be handed: the true one, one whose top level or
\* outcome is older, and the one of another query.
Earlier(q) == Body(q, Running("executing"), {})
Bodies(q) ==
    LET now == Body(q, exec[q], effects[Origin(q)])
    IN {now, [now EXCEPT !.outcome = Earlier(q).outcome],
        [now EXCEPT !.top = Earlier(q).top],
        [now EXCEPT !.top = Earlier(q).top, !.outcome = Earlier(q).outcome],
        [now EXCEPT !.id = 0]}

\* A request arrives: the query is registered, unless a cancel came first.
\* The intent of an idempotent write decides whether it runs.
Arrive(q) ==
    /\ q \in sent
    /\ sent' = sent \ {q}
    /\ LET keyed == kind[CallOf(q)] = "idempotent" IN
       IF exec[q] # Forgotten
       THEN exec' = [exec EXCEPT ![q].asked = TRUE] /\ UNCHANGED intent
       ELSE IF keyed /\ intent.state = "receipt"
       THEN exec' = [exec EXCEPT ![q] = intent.body] /\ UNCHANGED intent
       ELSE IF keyed /\ intent.state = "intended"
       THEN /\ exec' = [exec EXCEPT ![q] =
                           [Running("failed") EXCEPT !.code = "QUERY_OUTCOME_UNKNOWN"]]
            /\ UNCHANGED intent
       ELSE /\ exec' = [exec EXCEPT ![q] = Running("executing")]
            /\ intent' = IF keyed THEN [NoIntent EXCEPT !.by = q, !.state = "intended"]
                                  ELSE intent
    /\ UNCHANGED <<client, effects, restarts>>

\* The current statement of q wins the commit fence.
Fence(q) ==
    /\ exec[q].phase = "executing"
    /\ exec' = [exec EXCEPT ![q].phase = "commit_critical"]
    /\ UNCHANGED <<client, sent, intent, effects, restarts>>

Advanced(e, length) == [e EXCEPT !.done = @ + 1,
                                 !.phase = IF e.done + 1 = length THEN "serializing" ELSE "executing"]

Commit(q) ==
    /\ exec[q].phase = "commit_critical"
    /\ effects' = [effects EXCEPT ![q] = @ \cup {exec[q].done}]
    /\ exec' = [exec EXCEPT ![q] = Advanced(@, Length(q))]
    /\ UNCHANGED <<client, sent, intent, restarts>>

\* A statement that writes nothing.
Read(q) ==
    /\ exec[q].phase = "executing"
    /\ kind[CallOf(q)] \notin {"batch", "ddl"}
    /\ exec' = [exec EXCEPT ![q] = Advanced(@, Length(q))]
    /\ UNCHANGED <<client, sent, intent, effects, restarts>>

\* The end of q as e: what an idempotent write did is its receipt, and the key
\* of one that did nothing is free again.
Conclude(q, e) ==
    /\ exec' = [exec EXCEPT ![q] = e]
    /\ intent' = IF intent.by # q \/ intent.state # "intended" THEN intent
                 ELSE IF e.phase = "completed" \/ effects[q] # {}
                 THEN [by |-> q, state |-> "receipt", body |-> [e EXCEPT !.by = q]]
                 ELSE NoIntent
    /\ UNCHANGED <<client, sent, effects, restarts>>

Complete(q) ==
    /\ exec[q].phase = "serializing"
    /\ Conclude(q, [exec[q] EXCEPT !.phase = "completed"])

Fail(q) ==
    /\ exec[q].phase = "executing"
    /\ \E code \in Codes[kind[CallOf(q)]] :
          Conclude(q, [exec[q] EXCEPT !.phase = "failed", !.code = code])

\* The end of a cancelled query, and of one past its deadline.
Stop(q) ==
    /\ exec[q].phase = "cancelling"
    /\ Conclude(q, [exec[q] EXCEPT !.phase = "cancelled",
            !.code = IF effects[q] = {} THEN "QUERY_CANCELLED" ELSE "QUERY_CANCELLED_AFTER_COMMIT"])

Deadline(q) ==
    /\ exec[q].phase = "executing"
    /\ kind[CallOf(q)] \notin {"batch", "ddl"}
    /\ Conclude(q, [exec[q] EXCEPT !.phase = "cancelled", !.why = "deadline",
            !.code = IF effects[q] = {} THEN "DEADLINE_EXCEEDED" ELSE "DEADLINE_AFTER_COMMIT"])

\* What a cancel makes of a query; one the server does not know is cancelled
\* before it starts.
Cancelled(e) ==
    CASE e = Forgotten -> [Running("pre_cancelled") EXCEPT !.code = "QUERY_CANCELLED",
                                                           !.why = "client_request"]
      [] e.phase \in {"executing", "serializing"} ->
            [e EXCEPT !.phase = "cancelling", !.why = "client_request"]
      [] OTHER -> e

\* The server restarts: it forgets its queries and who waits for them, and the
\* commit of an idempotent write without a receipt stays undecided.
Restart ==
    /\ restarts < MaxRestarts
    /\ restarts' = restarts + 1
    /\ exec' = [q \in Ids |-> Forgotten]
    /\ UNCHANGED <<client, sent, intent, effects>>

ServerStep == \/ \E q \in Ids : \/ Arrive(q) \/ Fence(q) \/ Commit(q) \/ Read(q)
                                \/ Complete(q) \/ Fail(q) \/ Stop(q) \/ Deadline(q)
              \/ Restart

-----------------------------------------------------------------------------
(* The client.                                                             *)

NotTold == [committed |-> "nothing", stmts |-> None, state |-> Null, about |-> 0]

Init ==
    /\ kind \in Programs
    /\ calls = 0 /\ attempt = 1 /\ pc = "idle"
    /\ failure = "none" /\ polls = 0 /\ handle = "none" /\ answer = "none"
    /\ report = [c \in Calls |-> NotTold]
    /\ exec = [q \in Ids |-> Forgotten]
    /\ sent = {} /\ intent = NoIntent /\ effects = [q \in Ids |-> {}] /\ restarts = 0

\* A call is begun: its request is sent under a fresh id.  (The queries of
\* earlier calls that ended are never asked for again: they are dropped here to
\* keep the state small.)
Begin ==
    /\ pc = "idle" /\ calls < MaxCalls
    /\ calls' = calls + 1
    /\ pc' = "sent"
    /\ handle' = IF kind[calls + 1] = "sql" THEN "held" ELSE "none"
    /\ sent' = sent \cup {Id(calls + 1, 1)}
    /\ exec' = [q \in Ids |-> IF Ended(q) /\ q \notin sent THEN Forgotten ELSE exec[q]]
    /\ answer' = "none"
    /\ UNCHANGED <<kind, attempt, failure, polls, report, intent, effects, restarts>>

\* The call returns with the answer r, about its current query; of the answer
\* what it says of the commit is kept.
Tell(r) ==
    /\ report' = [report EXCEPT ![calls] = [committed |-> r.committed, stmts |-> r.stmts,
                                            state |-> r.state, about |-> id]]
    /\ pc' = "idle" /\ attempt' = 1
    /\ failure' = "none" /\ polls' = 0 /\ handle' = "none"
    /\ UNCHANGED <<kind, calls, answer>>

\* The call goes on at p, for the failure `why'.
GoTo(p, why) ==
    /\ pc' = p /\ failure' = why
    /\ UNCHANGED <<kind, calls, attempt, polls, handle, answer, report>>

EveryCall == TRUE           \* mutant: any statement is taken for replayable

Keyed == kind[calls] = "idempotent"

\* No answer arrives: the request is still on its way (a lost one stays there),
\* or its answer is lost.  A plain call recovers, an idempotent one may be
\* replayed, the others just fail.
TransportLoss ==
    /\ pc = "sent"
    /\ CASE kind[calls] = "batch" -> Tell(Silent("Storage"))
         [] kind[calls] = "ddl" -> Tell(OutcomeUnknown)
         [] Keyed -> GoTo("loss", "transport")
         [] OTHER -> GoTo("recover", "transport")
    /\ UNCHANGED server

\* The statement succeeded, or an idempotent one has a receipt.
Succeeded == \/ exec[id].phase = "completed"
             \/ Keyed /\ Ended(id) /\ effects[Origin(id)] # {}
Answered == pc = "sent" /\ Ended(id) /\ exec[id].asked

\* The rows of a plain statement: read, cut off, or not what was asked for.
ReceiveRows ==
    /\ Answered /\ Succeeded /\ kind[calls] = "sql"
    /\ \/ Tell(Silent("rows"))
       \/ \E why \in {"transport", "reading"} : GoTo("recover", why)
    /\ UNCHANGED server

\* The receipt of an idempotent write, in a response whose header may name
\* another query.
Receipts ==
    [body : Bodies(id), replayed : {exec[id].by # None}, original : {Origin(id)}]
Expected == IF attempt = 2 THEN Id(calls, 1) ELSE None

ReceiveReceipt ==
    /\ Answered /\ Succeeded /\ Keyed
    /\ \E r \in Receipts, header \in BOOLEAN :
          CASE ValidReceipt(r, id, Expected) /\ header -> Tell(Carrying("receipt", r.body))
            [] ValidReceipt(r, id, Expected) /\ ~header /\ r.body.top.committed = "yes" ->
                  Tell(Carrying("CommitOutcome", r.body))
            [] OTHER -> GoTo("loss", "reading")
    /\ UNCHANGED server

\* The envelope of an error.
ReceiveError ==
    /\ Answered /\ exec[id].phase # "completed" /\ kind[calls] \in {"sql", "idempotent"}
    /\ \E b \in Bodies(id) : IF ValidEnvelope(b, id) THEN Tell(EnvelopeError(b))
                             ELSE GoTo("recover", "transport")
    /\ UNCHANGED server

\* The errors a batch may be answered with: the true one, one that contradicts
\* itself, and that of a server that cannot tell.
BatchErrors ==
    LET error(status, committed, code) ==
            [status |-> status, committed |-> committed, code |-> code, retryable |-> FALSE]
        now == IF Succeeded THEN error("committed", "yes", "COMMIT_OUTCOME")
                            ELSE error("aborted", "no", exec[id].code)
    IN {now, [now EXCEPT !.committed = Null], [now EXCEPT !.code = "QUERY_OUTCOME_UNKNOWN"],
        error("outcome_unknown", Null, "QUERY_OUTCOME_UNKNOWN")}

\* The answer to a batch: committed, with results that fit the operations or
\* do not; an error; or one that cannot be read.
ReceiveBatch ==
    /\ Answered /\ kind[calls] = "batch"
    /\ LET committed == Body(id, exec[id], effects[id]) IN
       \/ Succeeded /\ Tell(Carrying("batch", committed))
       \/ Succeeded /\ Tell([Carrying("CommitOutcome", committed) EXCEPT !.stmts = None])
       \/ Tell(OutcomeUnknown)
       \/ \E b \in BatchErrors : Tell(BatchError(b))
    /\ UNCHANGED server

\* The answer to a change of the schema, which the client reads again before
\* it returns.
ReceiveDdl ==
    /\ Answered /\ kind[calls] = "ddl"
    /\ \/ Tell(OutcomeUnknown)
       \/ Succeeded /\ GoTo("refresh", "none")
       \/ ~Succeeded /\ Tell(Silent("Storage"))
    /\ UNCHANGED server

Refresh ==
    /\ pc = "refresh"
    /\ \/ Tell(Silent("ddl"))
       \/ Tell([Silent("CommitOutcome") EXCEPT !.committed = "yes"])
    /\ UNCHANGED server

\* What a status request of the recovery finds: a status, or nothing.
Found == {NoStatus} \cup
         {b \in (IF exec[id] = Forgotten THEN {} ELSE Bodies(id)) : ValidStatus(b, id)}
Decisive(s) == s # NoStatus /\ IsRecoveryDecisive(s)

\* The end of a recovery with the status s, or without one.
Decide(s) == Tell(IF failure = "reading" THEN SerializationError(s) ELSE RecoveryError(s))

\* A decisive status ends recovery at once.  Any other answers nothing: the
\* statement is cancelled and polled.
Follow(s) == IF Decisive(s) THEN Decide(s) ELSE GoTo("cancel", failure)

\* idempotent_status_after_loss: only a server that does not know the query
\* lets the write be replayed.
NotFoundBodies ==
    LET now == [id |-> id, outcome |-> "not_found", committed |-> Null, stmts |-> None]
    IN {now, [now EXCEPT !.id = 0], [now EXCEPT !.committed = "no"]}

StatusAfterLoss ==
    /\ pc = "loss"
    /\ \/ GoTo("recover", failure)
       \/ /\ exec[id] = Forgotten
          /\ \E b \in NotFoundBodies :
                IF ValidNotFound(b, id) THEN GoTo("replay", failure) ELSE Tell(OutcomeUnknown)
       \/ /\ exec[id] # Forgotten
          /\ \E b \in Bodies(id) : IF ValidStatus(b, id) THEN Follow(b) ELSE Tell(OutcomeUnknown)
    /\ UNCHANGED server

\* mutant: the replay is not counted
ResendAgain ==
    /\ attempt = 1
    /\ pc' = "sent" /\ failure' = "none"
    /\ sent' = sent \cup {Id(calls, 2)}
    /\ UNCHANGED <<kind, calls, attempt, polls, handle, answer, report>>

\* The write is sent once more, under a fresh id, to a server that still has
\* the capabilities.
Resend ==
    /\ attempt = 1
    /\ attempt' = 2 /\ pc' = "sent" /\ failure' = "none"
    /\ sent' = sent \cup {Id(calls, 2)}
    /\ UNCHANGED <<kind, calls, polls, handle, answer, report>>

Replay ==
    /\ pc = "replay"
    /\ \/ Resend
       \/ attempt = 1 /\ Tell(Silent("CapabilityUnsupported")) /\ UNCHANGED sent
       \/ attempt = 2 /\ Tell(OutcomeUnknown) /\ UNCHANGED sent
    /\ UNCHANGED <<exec, intent, effects, restarts>>

Recover ==
    /\ pc = "recover"
    /\ \E s \in Found : Follow(s)
    /\ UNCHANGED server

\* The statement is cancelled, if the request arrives.
CancelForRecovery ==
    /\ pc = "cancel"
    /\ exec' \in {exec, [exec EXCEPT ![id] = Cancelled(@)]}
    /\ GoTo("poll", failure)
    /\ UNCHANGED <<sent, intent, effects, restarts>>

Poll ==
    /\ pc = "poll" /\ polls < MaxPolls
    /\ \E s \in Found : IF Decisive(s) THEN Decide(s)
                       ELSE /\ polls' = polls + 1
                            /\ UNCHANGED <<kind, calls, attempt, pc, failure, handle, answer, report>>
    /\ UNCHANGED server

Expire ==
    /\ pc = "poll"
    /\ Decide(NoStatus)
    /\ UNCHANGED server

\* The answers to a cancellation of q: the true one, one of another query, one
\* whose parts disagree.
AnswerTo(e) ==
    CASE e = Forgotten -> "pre_cancelled"
      [] e.phase \in {"executing", "serializing"} -> "accepted"
      [] e.phase = "cancelling" -> "already_cancelling"
      [] e.phase = "commit_critical" -> "too_late"
      [] OTHER -> "already_finished"
CancelBodies(q) ==
    LET says(o) == [id |-> q, outcome |-> o, state |-> o, http |-> CancelAnswers[o],
                    top |-> Null, detail |-> Null]
        now == says(AnswerTo(exec[q]))
    IN {now, [now EXCEPT !.outcome = "already_finished"], [now EXCEPT !.http = 200],
        [now EXCEPT !.top = "yes"], [says("already_finished") EXCEPT !.id = 0]}

\* The caller cancels the statement through its handle and reads the answer, or
\* drops the handle, while the worker of the handle waits for the statement.
CancelByHandle ==
    /\ pc # "idle" /\ handle = "held" /\ answer = "none"
    /\ exec' = [exec EXCEPT ![id] = Cancelled(@)]
    /\ \E a \in CancelBodies(id) :
          answer' = IF ValidCancel(a, id) THEN a.outcome ELSE "invalid"
    /\ UNCHANGED <<kind, calls, attempt, pc, failure, polls, handle, report,
                   sent, intent, effects, restarts>>

DropHandle ==
    /\ pc # "idle" /\ handle = "held"
    /\ handle' = "dropped"
    /\ exec' \in {exec, [exec EXCEPT ![id] = Cancelled(@)]}
    /\ UNCHANGED <<kind, calls, attempt, pc, failure, polls, answer, report,
                   sent, intent, effects, restarts>>

CallStep == \/ TransportLoss \/ ReceiveRows \/ ReceiveReceipt \/ ReceiveError
            \/ ReceiveBatch \/ ReceiveDdl \/ Refresh \/ StatusAfterLoss \/ Replay \/ Recover \/ CancelForRecovery \/ Poll \/ Expire

Next == Begin \/ CallStep \/ CancelByHandle \/ DropHandle \/ ServerStep

Spec == Init /\ [][Next]_vars
FairSpec == Spec /\ WF_vars(CallStep)

-----------------------------------------------------------------------------
(* Properties.                                                             *)

\* What a caller is told of a commit is the truth, now and whatever the server
\* and late requests do afterwards: a commit took place, with the statements
\* counted in the answer of a query that ended; and where none is reported none of
\* the requests of the call ever commits.  There are two exceptions.  A server that
\* was restarted and then asked to cancel the query it had forgotten answers that
\* the query never started.  And an idempotent write that was replayed is reported
\* by its second request: the first, if it was late and not lost, may still run once
\* the second has ended without a commit and its key is free.
Key == 0
Owner(q) == IF kind[CallOf(q)] = "idempotent" THEN Key ELSE CallOf(q)
Committed(q) == UNION {effects[p] : p \in {p \in Ids : Owner(p) = Owner(q)}}

ReportsAreTrue ==
    \A c \in Calls :
        LET r == report[c] IN
        /\ r.committed = "yes" =>
              /\ Committed(r.about) # {}
              /\ r.stmts \in {None} \cup 1..Cardinality(Committed(r.about))
              /\ r.stmts # None /\ r.state \in TerminalStates =>
                    r.stmts = Cardinality(Committed(r.about))
        /\ r.committed = "no" =>
              \/ effects[Id(c, 1)] = {} /\ effects[Id(c, 2)] = {}
              \/ restarts > 0 /\ r.state = "pre_cancelled"
              \/ r.about = Id(c, 2) /\ effects[Id(c, 2)] = {}

\* docs/sql-cancellation.md:223: only an explicit false proves no commit.  So a
\* call that reports none has committed nothing by then, with either request.
NoMeansNo ==
    [][\A c \in Calls : report'[c].committed = "no"
                         => \/ report[c] = report'[c]
                            \/ effects[Id(c, 1)] = {} /\ effects[Id(c, 2)] = {} ]_vars

\* A caller whose cancellation was answered that the statement has finished, or
\* will never start, sees no effect of it afterwards.  (A server that restarts
\* forgets that it will never start.)
CancelledStaysCancelled ==
    [][\A c \in Calls : (/\ answer \in {"already_finished", "pre_cancelled"}
                         /\ c = calls /\ restarts = 0)
                        => effects'[Id(c, 1)] = effects[Id(c, 1)] ]_vars

\* Every statement takes effect at most once, through replays, repeated calls
\* with one key, late requests and restarts, and a caller is told of a commit
\* only after it.
Work == (Calls \cup {Key}) \X (0..Statements - 1)
Effects == [w \in Work |-> Cardinality({q \in Ids : Owner(q) = w[1] /\ w[2] \in effects[q]})]
Told == [c \in Calls |-> report[c].committed]
Promise == INSTANCE AtMostOnce
              WITH effects <- Effects, told <- Told,
                   WorkOf <- [c \in Calls |-> {w \in Work : w[1] \in {c, Key}}]
ImplementsAtMostOnce == Promise!Spec

\* A call returns, whatever becomes of its requests.
CallsReturn == pc # "idle" ~> pc = "idle"
=============================================================================
