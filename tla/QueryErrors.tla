---------------------------- MODULE QueryErrors ----------------------------
(***************************************************************************)
(* The error the embedded kit reports for a SQL query: how an error of the *)
(* engine becomes a KitError, and what it takes from the status of the     *)
(* query (crates/mongreldb-kit/src/error.rs).                              *)
(*                                                                         *)
(* An error of the engine is [kind, core, outcome]; a KitError is          *)
(* [kind, id, outcome].  An outcome is [committed, stmts, epoch, done],    *)
(* with None for what it does not say.  Messages and the metadata that     *)
(* repeats the status are left out.                                        *)
(***************************************************************************)
EXTENDS Integers

None == -1
Unknown == "unknown"                              \* the id of no query
QueryIds == STRING \cup {Unknown}

Outcomes == [committed : BOOLEAN, stmts : Int, epoch : Int, done : Int]
NoOutcome == [committed |-> FALSE, stmts |-> None, epoch |-> None, done |-> None]

\* The KitErrors that say what was committed.
WithOutcome == {"Cancelled", "DeadlineExceeded", "CommitOutcome", "QueryFailed",
                "ResultLimitExceeded", "SerializationFailed"}

\* The category of an error of the storage engine; the two errors of a commit
\* that did not answer are apart.
CoreCategory ==
    [TriggerValidation |-> "TriggerValidation", Conflict |-> "Conflict",
     InvalidArgument |-> "Validation", Schema |-> "Validation",
     ColumnNotFound |-> "Integrity", NotFound |-> "Integrity", Corrupt |-> "Integrity",
     Encryption |-> "Integrity", Io |-> "Storage", Serialization |-> "Storage",
     Full |-> "Storage", Other |-> "Storage", DatabaseLocked |-> "DatabaseLocked",
     AuthRequired |-> "AuthRequired", AuthNotRequired |-> "AuthNotRequired",
     InvalidCredentials |-> "InvalidCredentials", PermissionDenied |-> "PermissionDenied"]

CoreKinds == DOMAIN CoreCategory \cup {"DurableCommit", "CommitOutcomeUnknown"}

\* From<MongrelError> for KitError
FromCore(core, epoch) ==
    CASE core = "DurableCommit" ->
            [kind |-> "CommitOutcome", id |-> Unknown,
             outcome |-> [committed |-> TRUE, stmts |-> None, epoch |-> epoch, done |-> 0]]
      [] core = "CommitOutcomeUnknown" ->
            [kind |-> "OutcomeUnknown", id |-> Unknown, outcome |-> NoOutcome]
      [] OTHER -> [kind |-> CoreCategory[core], id |-> Unknown, outcome |-> NoOutcome]

\* The errors of the query engine that keep their name, and those that only
\* carry a message.
NamedKinds == {"Cancelled", "DeadlineExceeded", "QueryConflict", "QueryRegistryFull",
               "CommitOutcome", "ResultLimitExceeded", "OutcomeUnknown",
               "TransactionAborted"}
PlainKinds == {"Schema", "DataFusion", "InvalidQueryState"}
QueryKinds == NamedKinds \cup PlainKinds \cup {"Core"}

EngineErrors == [kind : QueryKinds, core : CoreKinds, id : QueryIds, outcome : Outcomes]

\* From<MongrelQueryError> for KitError
FromQuery(e) ==
    IF e.kind = "Core" THEN FromCore(e.core, e.outcome.epoch)
    ELSE [kind |-> IF e.kind \in NamedKinds THEN e.kind
                   ELSE IF e.kind = "Schema" THEN "Validation" ELSE "Storage",
          id |-> IF e.kind \in {"QueryRegistryFull", "TransactionAborted"} THEN Unknown ELSE e.id,
          outcome |-> IF e.kind \in WithOutcome THEN e.outcome ELSE NoOutcome]

\* What the status of a query says: its id, its receipt and whether the fate
\* of its last commit is not known.
Statuses == [id : QueryIds, unknown : BOOLEAN, outcome : Outcomes]

Larger(a, b) == IF a < b THEN b ELSE a

\* merge_execution_outcome: the status is newer than the error.
Merge(outcome, now) ==
    [committed |-> outcome.committed \/ now.committed,
     stmts |-> Larger(outcome.stmts, now.stmts),
     epoch |-> IF now.epoch # None THEN now.epoch ELSE outcome.epoch,
     done  |-> now.done]

\* mutant: only the errors that say what was committed look at the status
KeepsPlainErrors(error, status) ==
    LET e == FromQuery(error) IN
    IF status.unknown
    THEN [kind |-> "OutcomeUnknown", id |-> status.id, outcome |-> NoOutcome]
    ELSE IF e.kind \in WithOutcome
    THEN [e EXCEPT !.outcome = Merge(e.outcome, status.outcome)]
    ELSE e

\* query_error_with_status: an error keeps its kind when that kind says what was
\* committed, and after a commit it becomes one that does.
WithStatus(error, status) ==
    LET e == FromQuery(error)
        id == IF e.id = Unknown THEN status.id ELSE e.id
    IN  IF status.unknown
        THEN [kind |-> "OutcomeUnknown", id |-> status.id, outcome |-> NoOutcome]
        ELSE IF e.kind \in WithOutcome
        THEN [kind |-> e.kind, id |-> id, outcome |-> Merge(e.outcome, status.outcome)]
        ELSE IF e.kind \in {"TransactionAborted", "OutcomeUnknown"}
        THEN [e EXCEPT !.id = id]
        ELSE IF status.outcome.committed
        THEN [kind |-> "CommitOutcome", id |-> status.id, outcome |-> status.outcome]
        ELSE e

\* The report says that something was committed, or that it cannot tell.
TellsOfCommit(report) == report.outcome.committed \/ report.kind = "OutcomeUnknown"
=============================================================================
