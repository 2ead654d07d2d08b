---------------------------- MODULE RemoteStatus ----------------------------
(***************************************************************************)
(* What a remote client of MongrelDB reads about a SQL statement: the      *)
(* status of a query, the receipt of an idempotent write and the envelope  *)
(* of an error, the rules that accept them, and the error a caller gets    *)
(* for them (crates/mongreldb-kit/src/remote.rs).                          *)
(*                                                                         *)
(* The three bodies share the fields of a status, so one record stands for *)
(* all.  `top' are the fields a body repeats under `outcome'.  An epoch    *)
(* and its decimal text are one value, and the fields that have no part in *)
(* the durable outcome (trace, session, limits) are left out.              *)
(***************************************************************************)
EXTENDS Integers

None == -1                                    \* a null number
Null == "null"                                \* a null boolean or string

\* `committed' of a body is "yes", "no" or Null; of a report, "unknown" too.
CommittedStatuses == {"committed", "committed_with_error", "partially_committed",
                      "cancelled_after_commit", "deadline_after_commit"}
CancelCodes == {"QUERY_CANCELLED", "QUERY_CANCELLED_AFTER_COMMIT"}
DeadlineCodes == {"DEADLINE_EXCEEDED", "DEADLINE_AFTER_COMMIT"}
SerializationCodes == {"SERIALIZATION_FAILED", "SERIALIZATION_FAILED_AFTER_COMMIT"}
RetryableCodes == {"IDEMPOTENCY_STORE_FULL", "IDEMPOTENCY_STORE_UNAVAILABLE"}
RunningStates == {"queued", "planning", "executing", "streaming", "serializing",
                  "commit_critical", "cancelling"}
TerminalStates == {"completed", "failed", "cancelled", "pre_cancelled"}

-----------------------------------------------------------------------------
(* The rules for a body.                                                   *)

StatesOf(status) ==
    CASE status = "running" -> RunningStates
      [] status = "committed" -> (RunningStates \ {"queued"}) \cup {"completed"}
      [] status = "completed" -> {"completed"}
      [] status \in {"failed_before_commit", "committed_with_error",
                     "partially_committed", "outcome_unknown"} -> {"failed"}
      [] status \in {"cancelled_before_commit", "deadline_before_commit",
                     "cancelled_after_commit", "deadline_after_commit"} -> {"cancelled"}
      [] status = "cancelled_before_start" -> {"pre_cancelled"}
      [] status = "finished" -> {"finished"}
      [] OTHER -> {}

\* A running statement and one whose commit is not its end have no terminal
\* state; every other status is its own.
TerminalOf(s) ==
    IF \/ s.status \in {"running", "finished"}
       \/ s.status = "committed" /\ s.state # "completed"
    THEN Null ELSE s.status

\* What the durable fields must be, by what they say of the commit.
DurableFieldsAgree(s) ==
    LET t == s.top IN
    CASE t.committed = "yes" ->
            /\ t.stmts \notin {None, 0}
            /\ None \notin {t.epoch, t.first, t.last, t.done, t.at}
            /\ s.status \in CommittedStatuses
      [] t.committed = "no" ->
            /\ t.stmts = 0
            /\ {t.epoch, t.first, t.last} = {None}
            /\ None \notin {t.done, t.at}
            /\ s.status \notin CommittedStatuses \cup {"outcome_unknown", "finished"}
      [] OTHER ->
            /\ {t.stmts, t.epoch, t.first, t.last, t.done, t.at} = {None}
            /\ s.status \in {"outcome_unknown", "finished"}

\* A commit lies between the first and the last committed statement, and these
\* before the statement that runs; the completed statements end there.
IndexesAgree(t) ==
    /\ None \in {t.first, t.last, t.stmts, t.at} \/
          /\ t.first <= t.last
          /\ t.stmts <= (t.last - t.first) + 1
          /\ t.last <= t.at
    /\ None \in {t.done, t.at} \/ t.done \in {t.at, t.at + 1}

CancelOf(state) ==
    CASE state = "cancelling" -> "accepted"
      [] state = "commit_critical" -> "too_late"
      [] state \in {"completed", "failed", "cancelled", "finished"} -> "already_finished"
      [] state = "pre_cancelled" -> "pre_cancelled"
      [] OTHER -> Null

\* The error code a status goes with: Null is no terminal error.
CodeAgrees(s) ==
    CASE s.status \in {"running", "completed", "committed", "finished"} -> s.code = Null
      [] s.status = "outcome_unknown" -> s.code = "QUERY_OUTCOME_UNKNOWN"
      [] s.status \in {"cancelled_before_commit", "cancelled_before_start"} ->
            s.code = "QUERY_CANCELLED"
      [] s.status = "cancelled_after_commit" -> s.code = "QUERY_CANCELLED_AFTER_COMMIT"
      [] s.status = "deadline_before_commit" -> s.code = "DEADLINE_EXCEEDED"
      [] s.status = "deadline_after_commit" -> s.code = "DEADLINE_AFTER_COMMIT"
      [] OTHER -> s.code # Null

\* Why a statement was cancelled.
ReasonAgrees(s) ==
    CASE s.status \in {"deadline_before_commit", "deadline_after_commit"} ->
            s.reason = "deadline"
      [] s.status \in {"cancelled_before_commit", "cancelled_before_start",
                       "cancelled_after_commit"} -> s.reason \notin {"none", "deadline"}
      [] s.status \in {"running", "committed"} /\ s.state = "cancelling" ->
            s.reason # "none"
      [] s.status \in {"running", "committed"} /\ s.state = "commit_critical" -> TRUE
      [] OTHER -> s.reason = "none"

\* mutant: the top level is not compared with the outcome
ValidTopLevel(s, id) ==
    /\ s.id = id
    /\ s.state \in StatesOf(s.status)
    /\ s.terminal = TerminalOf(s)
    /\ s.cancel = CancelOf(s.state)
    /\ CodeAgrees(s)
    /\ ReasonAgrees(s)

\* validate_query_status: the status of `id' is accepted.
ValidStatus(s, id) ==
    /\ s.id = id
    /\ s.state \in StatesOf(s.status)
    /\ s.terminal = TerminalOf(s)
    /\ s.top = s.outcome
    /\ DurableFieldsAgree(s)
    /\ IndexesAgree(s.top)
    /\ s.cancel = CancelOf(s.state)
    /\ CodeAgrees(s)
    /\ s.retryable = (s.code \in RetryableCodes)
    /\ ReasonAgrees(s)

\* validate_sql_error_envelope: the error of a response is accepted.
ValidEnvelope(s, id) ==
    LET t == s.top IN
    /\ s.id = id
    /\ s.terminal = s.status
    /\ s.code # Null
    /\ s.top = s.outcome
    /\ s.retryable = (s.code \in RetryableCodes \cup {"QUERY_REGISTRY_FULL"})
    /\ (s.code = "QUERY_OUTCOME_UNKNOWN") = (t.committed = Null)
    /\ s.status \in (CASE t.committed = "yes" -> CommittedStatuses
                       [] t.committed = "no" ->
                             {"failed_before_commit", "cancelled_before_commit",
                              "deadline_before_commit", "cancelled_before_start"}
                       [] OTHER -> {"outcome_unknown"})
    /\ DurableFieldsAgree(s)
    /\ IndexesAgree(t)
    /\ s.code \in {"COMMIT_OUTCOME", "SERIALIZATION_FAILED_AFTER_COMMIT"} => t.committed = "yes"
    /\ \A pair \in {<<"outcome_unknown", "QUERY_OUTCOME_UNKNOWN">>,
                    <<"cancelled_after_commit", "QUERY_CANCELLED_AFTER_COMMIT">>,
                    <<"deadline_after_commit", "DEADLINE_AFTER_COMMIT">>,
                    <<"deadline_before_commit", "DEADLINE_EXCEEDED">>} :
          (s.status = pair[1]) = (s.code = pair[2])
    /\ (s.status \in {"cancelled_before_commit", "cancelled_before_start"})
          = (s.code = "QUERY_CANCELLED")

\* validate_sql_write_receipt: `original' is the query that executed the write,
\* and `expected' the first attempt of the call that this is the replay of.
ValidReceipt(r, id, expected) ==
    LET s == r.body IN
    /\ s.id = id
    /\ s.status \in CommittedStatuses \cup {"completed"}
    /\ s.state = (CASE s.status \in {"completed", "committed"} -> "completed"
                    [] s.status \in {"committed_with_error", "partially_committed"} -> "failed"
                    [] OTHER -> "cancelled")
    /\ s.terminal = s.status
    /\ s.cancel = "already_finished"
    /\ s.top = s.outcome
    /\ s.top.committed = (IF s.status = "completed" THEN "no" ELSE "yes")
    /\ DurableFieldsAgree(s)
    /\ IndexesAgree(s.top)
    /\ CodeAgrees(s)
    /\ ReasonAgrees(s)
    /\ ~s.retryable
    /\ IF r.replayed THEN expected # None => r.original = expected
                     ELSE r.original = id

\* validate_txn_error_envelope: the error of a batch is accepted.
ValidBatchError(b) ==
    CASE b.status = "aborted" -> b.committed = "no"
      [] b.status = "committed" ->
            b.committed = "yes" /\ b.code = "COMMIT_OUTCOME" /\ ~b.retryable
      [] b.status = "outcome_unknown" ->
            b.committed = Null /\ b.code = "QUERY_OUTCOME_UNKNOWN" /\ ~b.retryable
      [] OTHER -> FALSE

\* validate_query_not_found_response: the server does not know the query, and
\* says nothing of a commit.
ValidNotFound(b, id) ==
    /\ b.id = id
    /\ b.outcome = "not_found" /\ b.committed = Null /\ b.stmts = None

\* The answers to a cancellation, and the HTTP statuses they come with.
CancelAnswers == [accepted |-> 202, pre_cancelled |-> 202, already_cancelling |-> 200,
                  already_finished |-> 200, too_late |-> 409, not_found |-> 404]

\* validate_cancel_metadata: what the answer repeats, it repeats unchanged.
CancelMetadataAgrees(a) == a.top = a.detail

\* mutant: the query of the answer is not looked at
ValidCancelOfAny(a, id) ==
    /\ a.outcome \in DOMAIN CancelAnswers
    /\ a.state = a.outcome
    /\ a.http = CancelAnswers[a.outcome]
    /\ CancelMetadataAgrees(a)

\* validate_cancel_response: the answer is about the query, consistent in
\* itself, and fits its HTTP status.
ValidCancel(a, id) ==
    /\ a.id = id
    /\ a.outcome \in DOMAIN CancelAnswers
    /\ a.state = a.outcome
    /\ a.http = CancelAnswers[a.outcome]
    /\ CancelMetadataAgrees(a)

-----------------------------------------------------------------------------
(* What a caller is told.                                                  *)

IsTerminal(s) == s.state \in TerminalStates
DurableCommitState(s) == IF "yes" \in {s.top.committed, s.outcome.committed} THEN "yes"
                         ELSE IF s.top.committed # Null THEN s.top.committed
                         ELSE s.outcome.committed
IsRecoveryDecisive(s) == IsTerminal(s) \/ DurableCommitState(s) = "yes"

\* An answer that carries the durable outcome of the body s, and one that says
\* nothing of it.  `state' is the server state in the metadata of the error.
Carrying(kind, s) == [kind |-> kind, committed |-> s.top.committed, stmts |-> s.top.stmts,
                      state |-> s.state]
Silent(kind) == [kind |-> kind, committed |-> "unknown", stmts |-> None, state |-> Null]
OutcomeUnknown == Silent("OutcomeUnknown")

NoError == Silent("none")
NoStatus == [kind |-> "no status"]

KindOf(code, committed) ==
    IF code \in CancelCodes THEN "Cancelled"
    ELSE IF code \in DeadlineCodes THEN "DeadlineExceeded"
    ELSE IF code \in SerializationCodes THEN "SerializationFailed"
    ELSE IF code = "RESULT_LIMIT_EXCEEDED" THEN "ResultLimitExceeded"
    ELSE IF committed = "yes" THEN "CommitOutcome" ELSE "QueryFailed"

\* remote_status_error: the error for a decisive status, if it is one.
StatusError(s) ==
    LET committed == DurableCommitState(s)
        quiet == s.state = "completed" /\ s.code = Null /\ committed = "no"
    IN IF ~IsRecoveryDecisive(s) \/ quiet THEN NoError
       ELSE IF s.code = "QUERY_OUTCOME_UNKNOWN" \/ committed = Null THEN OutcomeUnknown
       ELSE IF s.code = "TRANSACTION_ABORTED" THEN Silent("TransactionAborted")
       ELSE Carrying(KindOf(s.code, committed), s)

\* map_txn_error: the error of a batch, or an unknown outcome.
BatchError(b) ==
    IF ~ValidBatchError(b) \/ b.status = "outcome_unknown" THEN OutcomeUnknown
    ELSE IF b.status = "aborted" THEN Silent("Duplicate")
    ELSE [Silent("CommitOutcome") EXCEPT !.committed = "yes"]

\* recover_after_transport_loss_with_status: the error once recovery ended with
\* the status s, or without one.
RecoveryError(s) ==
    IF s = NoStatus THEN OutcomeUnknown
    ELSE IF StatusError(s) # NoError THEN StatusError(s)
    ELSE IF s.state = "completed" /\ IsRecoveryDecisive(s) /\ DurableCommitState(s) # Null
    THEN Carrying("SerializationFailed", s)
    ELSE OutcomeUnknown

\* client_serialization_error_with_status: the same when the response came and
\* could not be read.
SerializationError(s) ==
    IF s = NoStatus THEN OutcomeUnknown
    ELSE IF ~IsRecoveryDecisive(s) THEN OutcomeUnknown
    ELSE IF s.code # Null /\ StatusError(s) # NoError THEN StatusError(s)
    ELSE IF DurableCommitState(s) = Null THEN OutcomeUnknown
    ELSE Carrying("SerializationFailed", s)

\* map_error_body: the error for an accepted envelope.
EnvelopeError(s) ==
    CASE s.code \in CancelCodes -> Carrying("Cancelled", s)
      [] s.code \in DeadlineCodes -> Carrying("DeadlineExceeded", s)
      [] s.code = "COMMIT_OUTCOME" -> Carrying("CommitOutcome", s)
      [] s.code = "RESULT_LIMIT_EXCEEDED" -> Carrying("ResultLimitExceeded", s)
      [] s.code \in SerializationCodes -> Carrying("SerializationFailed", s)
      [] s.code = "QUERY_OUTCOME_UNKNOWN" -> OutcomeUnknown
      [] s.code = "TRANSACTION_ABORTED" -> Silent("TransactionAborted")
      [] s.code = "UNIQUE_VIOLATION" -> Silent("Duplicate")
      [] OTHER -> Silent("RemoteProtocol")
=============================================================================
