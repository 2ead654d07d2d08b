--------------------------- MODULE RemoteSqlProofs ---------------------------
(***************************************************************************)
(* What a remote caller is told of a commit is the truth, what it sent     *)
(* takes effect at most once, and what it cancelled in time never does,    *)
(* for any number of calls, statements, restarts and polls: proofs about   *)
(* RemoteSql, and about the statuses of module RemoteStatus that it reads.  *)
(***************************************************************************)
EXTENDS RemoteSql, FiniteSetTheorems, TLAPS

-----------------------------------------------------------------------------
(* What recovery tells a caller is what an accepted status says.           *)

\* The statuses a server may send, right or wrong.
Fields == [committed : {"yes", "no", Null}, stmts : Int, epoch : Int, first : Int,
           last : Int, done : Int, at : Int]
Statuses == [id : Int, state : STRING, status : STRING, terminal : STRING, code : STRING,
             reason : STRING, cancel : STRING, retryable : BOOLEAN,
             top : Fields, outcome : Fields]

\* The two codes that remote_status_error turns into an error without an
\* outcome: a server gives the first only where it knows none, and the second
\* for a transaction it rolled back.
Informative(s) == /\ s.code = "QUERY_OUTCOME_UNKNOWN" => DurableCommitState(s) = Null
                  /\ s.code # "TRANSACTION_ABORTED"

\* What a caller that is told of the status should learn.
Known(s) == IF DurableCommitState(s) = Null THEN "unknown" ELSE DurableCommitState(s)

LEMMA NotNoStatus ==
    ASSUME NEW s \in Statuses
    PROVE  s # NoStatus
<1>1. "id" \in DOMAIN s
  BY DEF Statuses
<1>2. DOMAIN NoStatus = {"kind"}
  BY DEF NoStatus
<1>. QED BY <1>1, <1>2

LEMMA OneDurableState ==
    ASSUME NEW s \in Statuses, NEW own, ValidStatus(s, own)
    PROVE  DurableCommitState(s) = s.top.committed
BY DEF ValidStatus, DurableCommitState, Statuses, Fields, Null

\* A status that is not decisive, or none, never becomes a claim about the
\* commit: recovery ends with an unknown outcome.
THEOREM IndecisiveMeansUnknown ==
    ASSUME NEW s \in Statuses, ~IsRecoveryDecisive(s)
    PROVE  /\ RecoveryError(s) = OutcomeUnknown
           /\ SerializationError(s) = OutcomeUnknown
<1>1. s # NoStatus
  BY NotNoStatus
<1>2. StatusError(s) = NoError
  BY DEF StatusError
<1>. QED BY <1>1, <1>2 DEF RecoveryError, SerializationError, StatusError

LEMMA DecisiveStatusError ==
    ASSUME NEW s \in Statuses, NEW own, ValidStatus(s, own), IsRecoveryDecisive(s),
           Informative(s), StatusError(s) # NoError
    PROVE  StatusError(s).committed = Known(s)
<1>1. DurableCommitState(s) = s.top.committed
  BY OneDurableState
<1>2. \A what : Carrying(what, s).committed = DurableCommitState(s)
  BY <1>1 DEF Carrying
<1>3. CASE DurableCommitState(s) = Null
  BY <1>3 DEF StatusError, Known, OutcomeUnknown, Silent
<1>4. CASE DurableCommitState(s) # Null
  <2>1. StatusError(s) = Carrying(KindOf(s.code, DurableCommitState(s)), s)
    BY <1>4 DEF StatusError, Informative
  <2>. QED BY <2>1, <1>2, <1>4 DEF Known
<1>. QED BY <1>3, <1>4

\* A call whose recovery ends with a decisive status reports exactly what the
\* status says of the commit, whether it recovers from a lost answer or from one
\* it could not read.
THEOREM DecisiveStatusIsReported ==
    ASSUME NEW s \in Statuses, NEW own, ValidStatus(s, own), IsRecoveryDecisive(s), Informative(s)
    PROVE  /\ RecoveryError(s).committed = Known(s)
           /\ SerializationError(s).committed = Known(s)
<1>1. s # NoStatus
  BY NotNoStatus
<1>2. DurableCommitState(s) = s.top.committed
  BY OneDurableState
<1>3. \A what : DurableCommitState(s) # Null => Carrying(what, s).committed = Known(s)
  BY <1>2 DEF Carrying, Known
<1>4. StatusError(s) # NoError => StatusError(s).committed = Known(s)
  BY DecisiveStatusError
<1>5. DurableCommitState(s) = Null => OutcomeUnknown.committed = Known(s)
  BY DEF Known, OutcomeUnknown, Silent
<1>6. StatusError(s) = NoError => s.state = "completed" /\ DurableCommitState(s) # Null
  <2>. DEFINE k == KindOf(s.code, DurableCommitState(s))
  <2>1. k # "none"
    BY DEF KindOf
  <2>2. Carrying(k, s).kind # NoError.kind /\ OutcomeUnknown.kind # NoError.kind
    BY <2>1 DEF Carrying, NoError, OutcomeUnknown, Silent
  <2>3. Carrying(k, s) # NoError /\ OutcomeUnknown # NoError
    BY <2>2
  <2>. QED BY <2>3 DEF StatusError, Informative, Null
<1>7. RecoveryError(s).committed = Known(s)
  BY <1>1, <1>3, <1>4, <1>6 DEF RecoveryError
<1>8. SerializationError(s).committed = Known(s)
  BY <1>1, <1>3, <1>4, <1>5 DEF SerializationError
<1>. QED BY <1>7, <1>8

-----------------------------------------------------------------------------
(* The inductive invariant.                                                *)

Kinds == {"sql", "idempotent", "batch", "ddl"}
Live == {"executing", "commit_critical", "serializing", "cancelling"}
Phases == Live \cup TerminalStates \cup {"forgotten"}
AnyCode == (UNION {Codes[k] : k \in Kinds}) \cup CancelCodes \cup DeadlineCodes
           \cup {Null, "QUERY_OUTCOME_UNKNOWN"}
Whys == {"none", "client_request", "deadline"}
Entries == [phase : Phases, done : Nat, code : AnyCode, why : Whys,
            by : Ids \cup {None}, asked : BOOLEAN]
Intents == [by : Ids \cup {None}, state : {"none", "intended", "receipt"}, body : Entries]
Places == {"idle", "sent", "loss", "recover", "replay", "refresh", "cancel", "poll"}
Reports == [committed : {"nothing", "yes", "no", "unknown"}, stmts : Nat \cup {None},
            state : Phases \cup {Null}, about : Ids \cup {0}]

TypeOK ==
    /\ kind \in [Calls -> Kinds]
    /\ calls \in 0..MaxCalls
    /\ attempt \in {1, 2}
    /\ pc \in Places
    /\ report \in [Calls -> Reports]
    /\ exec \in [Ids -> Entries]
    /\ sent \in SUBSET Ids
    /\ intent \in Intents
    /\ effects \in [Ids -> SUBSET (0..Statements - 1)]
    /\ restarts \in Nat

IsKeyed(q) == kind[CallOf(q)] = "idempotent"

\* The client: only an idempotent write is replayed, only a plain statement has
\* a handle, and the schema is read again after a change that was made.
ClientInv ==
    /\ pc # "idle" => calls >= 1
    /\ attempt = 2 => pc # "idle" /\ Keyed
    /\ pc \in {"loss", "replay"} => Keyed
    /\ handle = "held" => pc # "idle" /\ kind[calls] = "sql"
    /\ pc = "refresh" => effects[id] # {}

\* The ids nothing was sent under yet, or never is.
Unused(q) == \/ q > 2 * calls
             \/ q = 2 * calls /\ pc # "idle" /\ attempt = 1
             \/ \E c \in Calls : q = 2 * c /\ kind[c] # "idempotent"

UnusedInv == \A q \in Ids : Unused(q) => /\ q \notin sent
                                         /\ exec[q] = Forgotten
                                         /\ effects[q] = {}

\* What the server knows of a query fits what the query did.  A request that is
\* under way was never served, so every query runs at most once.
FitsQuery(q) ==
    /\ q \in sent => /\ exec[q].phase \in {"forgotten", "pre_cancelled"}
                     /\ ~exec[q].asked
                     /\ effects[q] = {}
    /\ exec[q].phase = "forgotten" => exec[q] = Forgotten
    /\ exec[q].phase \in Live => /\ exec[q].by = None /\ exec[q].code = Null
                                 /\ \A i \in effects[q] : i < exec[q].done
    /\ exec[q].phase \in {"executing", "commit_critical"} => exec[q].done < Length(q)
    /\ exec[q].phase \in {"serializing", "completed"} /\ kind[CallOf(q)] \in {"batch", "ddl"}
          => effects[q] # {} /\ exec[q].code = Null
    /\ exec[q].by # None => /\ IsKeyed(q)
                            /\ exec[q].phase \notin Live
                            /\ exec[q].by = intent.by /\ intent.state = "receipt"
                            /\ effects[q] = {}
QueryInv == \A q \in Ids : FitsQuery(q)

\* The durable intent belongs to the only idempotent query that may run, and to
\* the only one that ever had an effect.
IntentInv ==
    /\ \A q \in Ids : IsKeyed(q) =>
          /\ exec[q].phase \in Live => intent.state = "intended" /\ intent.by = q
          /\ effects[q] # {} => intent.state # "none" /\ intent.by = q
    /\ intent.state # "none" => intent.by \in Ids /\ IsKeyed(intent.by)
    /\ intent.state = "receipt" => /\ intent.body.by = intent.by
                                   /\ intent.body.phase \in {"completed", "failed", "cancelled"}

\* A server that was never restarted forgets no query of the current call, and
\* what it cancelled before its start did not start.
NoRestartInv ==
    restarts = 0 =>
        /\ \A q \in Ids : exec[q].phase = "pre_cancelled" => effects[q] = {}
        /\ pc # "idle" /\ exec[id] = Forgotten => effects[id] = {}
        /\ answer \in {"already_finished", "pre_cancelled"} =>
              calls >= 1 /\ exec[Id(calls, 1)].phase \in TerminalStates

\* A query that did nothing and never will, and one that will do nothing unless
\* the server restarts.
Quiet(q) == effects[q] = {} /\ exec[q].phase \notin Live /\ q \notin sent
Settled(q) == /\ effects[q] = {} /\ exec[q].phase \notin Live
              /\ q \in sent => exec[q].phase = "pre_cancelled"

\* What makes a report true and keeps it so: the query that committed, which
\* has ended where the report counts its statements to the end; and where no
\* commit is reported, a query that cannot run any more.
YesIsTrue(r) ==
    \E p \in Ids : /\ Owner(p) = Owner(r.about)
                   /\ effects[p] # {}
                   /\ r.stmts \in {None} \cup 1..Cardinality(effects[p])
                   /\ r.stmts # None /\ r.state \in TerminalStates =>
                         exec[p].phase \notin Live /\ r.stmts = Cardinality(effects[p])
NoIsTrue(r) == /\ r.state # "pre_cancelled" => Quiet(r.about)
               /\ restarts = 0 => Settled(r.about)

ReportInv == \A c \in Calls :
    /\ c > calls \/ (c = calls /\ pc # "idle") => report[c] = NotTold
    /\ report[c].committed \in {"yes", "no"} => report[c].about \in Ids
    /\ report[c].committed = "yes" => YesIsTrue(report[c])
    /\ report[c].committed = "no" => ~Unused(report[c].about) /\ NoIsTrue(report[c])

RemoteInv == /\ TypeOK /\ ClientInv /\ UnusedInv /\ QueryInv /\ IntentInv
             /\ NoRestartInv /\ ReportInv

-----------------------------------------------------------------------------
(* The ids.                                                                *)

\* The two attempts of a call have ids of their own.
LEMMA IdFacts ==
    ASSUME NEW c \in Calls
    PROVE  /\ Id(c, 1) = 2 * c - 1 /\ Id(c, 2) = 2 * c
           /\ Id(c, 1) \in Ids /\ Id(c, 2) \in Ids
           /\ CallOf(Id(c, 1)) = c /\ CallOf(Id(c, 2)) = c
BY RemoteAssumption DEF RemoteAssumption, Id, Ids, Calls, CallOf

\* Every id is one of the two of its call.
LEMMA CallOfIds ==
    ASSUME NEW q \in Ids
    PROVE  /\ CallOf(q) \in Calls
           /\ q = 2 * CallOf(q) - 1 \/ q = 2 * CallOf(q)
BY RemoteAssumption DEF RemoteAssumption, Ids, Calls, CallOf

\* The query of the current attempt is one that was sent.
LEMMA CurrentId ==
    ASSUME TypeOK, ClientInv, pc # "idle"
    PROVE  /\ calls \in Calls /\ id \in Ids /\ CallOf(id) = calls
           /\ ~Unused(id)
           /\ attempt = 1 => id = 2 * calls - 1
           /\ attempt = 2 => id = 2 * calls
<1>1. calls \in Calls /\ calls \in Nat
  BY RemoteAssumption DEF RemoteAssumption, TypeOK, ClientInv, Calls
<1>2. id \in Ids /\ CallOf(id) = calls
  BY <1>1, IdFacts DEF id, TypeOK
<1>3. (attempt = 1 => id = 2 * calls - 1) /\ (attempt = 2 => id = 2 * calls)
  BY <1>1, IdFacts DEF id
<1>4. CASE attempt = 1
  <2>1. \A d \in Calls : 2 * calls - 1 # 2 * d
    BY <1>1, RemoteAssumption DEF RemoteAssumption, Calls
  <2>2. id = 2 * calls - 1 /\ id # 2 * calls /\ ~(id > 2 * calls)
    BY <1>1, <1>3, <1>4
  <2>. QED BY <1>1, <1>2, <1>3, <1>4, <2>1, <2>2 DEF Unused
<1>5. CASE attempt = 2
  <2>1. kind[calls] = "idempotent"
    BY <1>5 DEF ClientInv, Keyed
  <2>. QED BY <1>1, <1>2, <1>3, <1>5, <2>1 DEF Unused, Calls
<1>. QED BY <1>1, <1>2, <1>3, <1>4, <1>5 DEF TypeOK

\* The entries the server makes are entries.
LEMMA EntryFacts ==
    /\ Forgotten \in Entries
    /\ Forgotten.phase = "forgotten" /\ Forgotten.by = None /\ ~Forgotten.asked
    /\ Forgotten.done = 0 /\ Forgotten.code = Null
    /\ \A phase \in Phases : /\ Running(phase) \in Entries
                             /\ Running(phase).phase = phase /\ Running(phase).by = None
                             /\ Running(phase).done = 0 /\ Running(phase).code = Null
                             /\ Running(phase).asked <=> phase # "pre_cancelled"
<1>1. Forgotten = [phase |-> "forgotten", done |-> 0, code |-> Null, why |-> "none",
                   by |-> None, asked |-> FALSE]
  BY DEF Forgotten
<1>2. Null \in AnyCode /\ "none" \in Whys /\ "forgotten" \in Phases
  BY DEF AnyCode, Whys, Phases
<1>3. Forgotten \in Entries
  BY <1>1, <1>2 DEF Entries
<1>4. ASSUME NEW phase \in Phases
      PROVE  /\ Running(phase) \in Entries
             /\ Running(phase).phase = phase /\ Running(phase).by = None
             /\ Running(phase).done = 0 /\ Running(phase).code = Null
             /\ Running(phase).asked <=> phase # "pre_cancelled"
  BY <1>1, <1>3 DEF Running, Entries
<1>. QED BY <1>1, <1>3, <1>4

\* A query commits finitely many statements.
LEMMA EffectsAreFinite ==
    ASSUME NEW C \in SUBSET (0..Statements - 1)
    PROVE  /\ IsFiniteSet(C) /\ Cardinality(C) \in Nat
           /\ C # {} => Cardinality(C) >= 1
<1>1. IsFiniteSet(0..Statements - 1)
  BY FS_Interval, RemoteAssumption DEF RemoteAssumption
<1>2. IsFiniteSet(C)
  BY <1>1, FS_Subset
<1>. QED BY <1>2, FS_CardinalityType, FS_EmptySet

-----------------------------------------------------------------------------
(* Initially.                                                              *)

\* The invariant holds before the first call.
THEOREM InvInitially == Init => RemoteInv
<1>. SUFFICES ASSUME Init PROVE RemoteInv
  OBVIOUS
<1>1. TypeOK
  <2>1. kind \in [Calls -> Kinds] /\ calls \in 0..MaxCalls
    BY RemoteAssumption DEF Init, RemoteAssumption, Calls, Kinds
  <2>2. NotTold \in Reports
    BY DEF NotTold, Reports
  <2>3. NoIntent \in Intents
    BY EntryFacts DEF NoIntent, Intents
  <2>. QED BY <2>1, <2>2, <2>3, EntryFacts DEF Init, TypeOK, Places
<1>2. ClientInv
  BY DEF Init, ClientInv
<1>3. UnusedInv
  BY DEF Init, UnusedInv
<1>4. QueryInv
  BY EntryFacts DEF Init, QueryInv, FitsQuery, Live
<1>5. IntentInv
  BY EntryFacts DEF Init, IntentInv, NoIntent, Live
<1>6. NoRestartInv
  BY EntryFacts DEF Init, NoRestartInv
<1>7. ReportInv
  BY DEF Init, ReportInv, NotTold
<1>. QED BY <1>1, <1>2, <1>3, <1>4, <1>5, <1>6, <1>7 DEF RemoteInv

-----------------------------------------------------------------------------
(* What no step undoes.                                                    *)

\* No step takes an effect back, adds one to a query that ended or was never
\* served, or sends a request again.
Calm ==
    /\ kind' = kind
    /\ restarts' = 0 => restarts = 0
    /\ \A p \in Ids :
          /\ effects[p] \subseteq effects'[p]
          /\ exec[p].phase \notin Live => effects'[p] = effects[p]
          /\ effects[p] # {} /\ exec[p].phase \notin Live => exec'[p].phase \notin Live
          /\ Unused(p)' => Unused(p)
          /\ Quiet(p) /\ ~Unused(p) => Quiet(p)'
          /\ restarts' = 0 /\ Settled(p) /\ ~Unused(p) => Settled(p)'

\* A true report stays true.
LEMMA YesStays ==
    ASSUME TypeOK, TypeOK', Calm, NEW r, YesIsTrue(r)
    PROVE  YesIsTrue(r)'
<1>1. PICK p \in Ids : /\ Owner(p) = Owner(r.about)
                       /\ effects[p] # {}
                       /\ r.stmts \in {None} \cup 1..Cardinality(effects[p])
                       /\ r.stmts # None /\ r.state \in TerminalStates =>
                             exec[p].phase \notin Live /\ r.stmts = Cardinality(effects[p])
  BY DEF YesIsTrue
<1>2. Owner(p)' = Owner(r.about)'
  BY <1>1 DEF Owner, Calm
<1>3. effects[p] \subseteq effects'[p] /\ effects'[p] # {}
  BY <1>1 DEF Calm
<1>4. /\ IsFiniteSet(effects'[p]) /\ Cardinality(effects'[p]) \in Nat
      /\ Cardinality(effects[p]) \in Nat
  BY EffectsAreFinite DEF TypeOK
<1>5. Cardinality(effects[p]) <= Cardinality(effects'[p])
  BY <1>3, <1>4, FS_Subset
<1>6. r.stmts \in {None} \cup 1..Cardinality(effects'[p])
  BY <1>1, <1>4, <1>5
<1>7. r.stmts # None /\ r.state \in TerminalStates =>
          exec'[p].phase \notin Live /\ r.stmts = Cardinality(effects'[p])
  BY <1>1 DEF Calm
<1>. QED BY <1>2, <1>3, <1>6, <1>7 DEF YesIsTrue

\* A report of no commit stays true.
LEMMA NoStays ==
    ASSUME Calm, NEW r, r.about \in Ids, ~Unused(r.about), NoIsTrue(r)
    PROVE  ~Unused(r.about)' /\ NoIsTrue(r)'
BY DEF Calm, NoIsTrue

\* The reports of calls that returned stay true in every calm step.
LEMMA ReportsStay ==
    ASSUME TypeOK, TypeOK', ReportInv, Calm, NEW c \in Calls, report'[c] = report[c]
    PROVE  /\ report'[c].committed \in {"yes", "no"} => report'[c].about \in Ids
           /\ report'[c].committed = "yes" => YesIsTrue(report[c])'
           /\ report'[c].committed = "no" => ~Unused(report[c].about)' /\ NoIsTrue(report[c])'
<1>. DEFINE r == report[c]
<1>1. CASE report[c].committed = "yes"
  BY <1>1, YesStays DEF ReportInv
<1>2. CASE report[c].committed = "no"
  BY <1>2, NoStays DEF ReportInv
<1>. QED BY <1>1, <1>2 DEF ReportInv

-----------------------------------------------------------------------------
(* A step of one query.                                                    *)

\* How the entry of q and its effects may change in a step, and what of the
\* client may change with it.
StepOf(q) ==
    /\ kind' = kind /\ calls' = calls /\ attempt' = attempt /\ report' = report
    /\ pc' = pc \/ (pc = "cancel" /\ pc' = "poll")
    /\ handle' = handle \/ handle' = "dropped"
    /\ restarts' = restarts
    /\ exec' \in [Ids -> Entries]
    /\ effects' \in [Ids -> SUBSET (0..Statements - 1)]
    /\ intent' \in Intents
    /\ sent' \in SUBSET sent
    /\ intent.state = "receipt" => intent' = intent
    /\ \A p \in Ids \ {q} : /\ exec'[p] = exec[p] /\ effects'[p] = effects[p]
                            /\ p \in sent' <=> p \in sent
    /\ effects[q] \subseteq effects'[q]
    /\ exec'[q].phase # "forgotten"
    /\ exec[q].phase \in TerminalStates => exec'[q].phase \in TerminalStates
    /\ exec[q].phase \notin Live => effects'[q] = effects[q]
    /\ exec[q].phase \notin Live /\ q \notin sent => exec'[q].phase \notin Live
    /\ exec[q].phase = "pre_cancelled" => exec'[q].phase = "pre_cancelled"

\* A query that runs has not ended, and one that is forgotten does neither.
LEMMA Disjoint ==
    /\ Live \cap TerminalStates = {}
    /\ "forgotten" \notin Live \cup TerminalStates
    /\ "pre_cancelled" \in TerminalStates
BY DEF Live, TerminalStates

\* Such a step keeps all that is not about the entry of q and the intent.
LEMMA QueryStep ==
    ASSUME RemoteInv, NEW q \in Ids, ~Unused(q), StepOf(q), FitsQuery(q)', IntentInv',
           restarts = 0 /\ exec'[q].phase = "pre_cancelled" => effects'[q] = {},
           restarts = 0 /\ answer' \in {"already_finished", "pre_cancelled"} =>
              calls >= 1 /\ exec'[Id(calls, 1)].phase \in TerminalStates
    PROVE  RemoteInv' /\ Calm
<1>. USE DEF RemoteInv
<1>1. TypeOK'
  BY DEF TypeOK, StepOf, Places
<1>2. ClientInv'
  <2>1. pc # "idle" => id \in Ids /\ id' = id
    BY CurrentId DEF StepOf, id
  <2>2. pc' # "idle" <=> pc # "idle"
    BY DEF StepOf
  <2>3. pc' = "refresh" => effects'[id'] # {}
    BY <2>1, <2>2 DEF ClientInv, StepOf
  <2>. QED BY <2>2, <2>3 DEF ClientInv, StepOf, Keyed
<1>3. \A p : Unused(p)' <=> Unused(p)
  <2>1. pc' # "idle" <=> pc # "idle"
    BY DEF StepOf
  <2>. QED BY <2>1 DEF Unused, StepOf
<1>4. UnusedInv'
  BY <1>3 DEF UnusedInv, StepOf
<1>5. QueryInv'
  <2>1. ASSUME NEW p \in Ids, p # q PROVE FitsQuery(p)'
    <3>1. exec'[p] = exec[p] /\ effects'[p] = effects[p] /\ (p \in sent' <=> p \in sent)
      BY <2>1 DEF StepOf
    <3>2. FitsQuery(p)
      BY DEF QueryInv
    <3>3. Length(p)' = Length(p) /\ (IsKeyed(p)' <=> IsKeyed(p)) /\ kind' = kind
      BY DEF StepOf, Length, IsKeyed
    <3>4. intent.state = "receipt" => intent' = intent
      BY DEF StepOf
    <3>. QED BY <3>1, <3>2, <3>3, <3>4 DEF FitsQuery
  <2>. QED BY <2>1 DEF QueryInv
<1>6. Calm
  <2>1. ASSUME NEW p \in Ids, p # q
        PROVE  /\ effects'[p] = effects[p] /\ exec'[p] = exec[p]
               /\ p \in sent' <=> p \in sent
    BY <2>1 DEF StepOf
  <2>2. effects[q] # {} => q \notin sent
    BY DEF QueryInv, FitsQuery
  <2>3. Quiet(q) => Quiet(q)'
    BY DEF Quiet, StepOf
  <2>4. Settled(q) => Settled(q)'
    BY Disjoint DEF Settled, StepOf
  <2>. QED BY <1>3, <2>1, <2>2, <2>3, <2>4 DEF Calm, StepOf, Quiet, Settled
<1>7. NoRestartInv'
  <2>. SUFFICES ASSUME restarts' = 0 PROVE NoRestartInv'
    BY DEF NoRestartInv
  <2>1. restarts = 0
    BY DEF StepOf
  <2>2. \A p \in Ids : exec'[p].phase = "pre_cancelled" => effects'[p] = {}
    BY <2>1 DEF NoRestartInv, StepOf
  <2>3. pc' # "idle" /\ exec'[id'] = Forgotten => effects'[id'] = {}
    <3>1. pc' # "idle" => pc # "idle" /\ id \in Ids /\ id' = id
      BY CurrentId DEF StepOf, id
    <3>2. exec'[q] # Forgotten
      BY EntryFacts DEF StepOf
    <3>3. ASSUME pc' # "idle", exec'[id'] = Forgotten PROVE effects'[id'] = {}
      <4>1. id' = id /\ id # q /\ id \in Ids
        BY <3>1, <3>2, <3>3
      <4>2. exec[id] = Forgotten /\ effects'[id] = effects[id]
        BY <3>3, <4>1 DEF StepOf
      <4>. QED BY <2>1, <3>1, <3>3, <4>1, <4>2 DEF NoRestartInv
    <3>. QED BY <3>3
  <2>4. answer' \in {"already_finished", "pre_cancelled"} =>
           calls' >= 1 /\ exec'[Id(calls, 1)'].phase \in TerminalStates
    BY <2>1 DEF StepOf, Id
  <2>. QED BY <2>2, <2>3, <2>4 DEF NoRestartInv, Id
<1>8. ReportInv'
  <2>1. ASSUME NEW c \in Calls, c > calls' \/ (c = calls' /\ pc' # "idle")
        PROVE  report'[c] = NotTold
    BY <2>1 DEF ReportInv, StepOf
  <2>2. \A c \in Calls : report'[c] = report[c]
    BY DEF StepOf
  <2>. QED BY <1>1, <1>6, <2>1, <2>2, ReportsStay DEF ReportInv
<1>. QED BY <1>1, <1>2, <1>4, <1>5, <1>6, <1>7, <1>8

-----------------------------------------------------------------------------
(* The server keeps the invariant.                                         *)

\* An update of one entry, and of one set of effects.
LEMMA EntryUpdate ==
    ASSUME TypeOK, NEW q \in Ids, NEW e \in Entries
    PROVE  /\ [exec EXCEPT ![q] = e] \in [Ids -> Entries]
           /\ [exec EXCEPT ![q] = e][q] = e
           /\ \A p \in Ids \ {q} : [exec EXCEPT ![q] = e][p] = exec[p]
BY DEF TypeOK

\* An id the server has seen was used.
LEMMA UsedIds ==
    ASSUME RemoteInv, NEW q \in Ids, q \in sent \/ exec[q].phase # "forgotten"
    PROVE  ~Unused(q)
BY EntryFacts DEF RemoteInv, UnusedInv

\* A query has at least one statement.
LEMMA LengthFacts ==
    \A q : Length(q) \in Nat /\ 1 <= Length(q) /\ Length(q) <= Statements
BY RemoteAssumption DEF RemoteAssumption, Length

\* A request arrives: it runs, is answered from the receipt, or finds its query.
LEMMA ArriveKeeps ==
    ASSUME RemoteInv, NEW q \in Ids, Arrive(q)
    PROVE  RemoteInv' /\ Calm
<1>. USE DEF RemoteInv
<1>. DEFINE keyed == kind[CallOf(q)] = "idempotent"
<1>1. /\ q \in sent /\ sent' = sent \ {q} /\ effects' = effects /\ effects[q] = {}
      /\ UNCHANGED <<client, restarts>>
      /\ exec[q].phase \in {"forgotten", "pre_cancelled"} /\ ~exec[q].asked
      /\ exec[q] \in Entries /\ intent \in Intents
  BY DEF Arrive, QueryInv, FitsQuery, TypeOK
<1>2. /\ kind' = kind /\ calls' = calls /\ attempt' = attempt /\ report' = report /\ pc' = pc
      /\ handle' = handle /\ answer' = answer /\ restarts' = restarts
  BY <1>1 DEF client
<1>3. \/ exec[q] # Forgotten /\ exec' = [exec EXCEPT ![q].asked = TRUE] /\ intent' = intent
      \/ /\ exec[q] = Forgotten /\ keyed /\ intent.state = "receipt"
         /\ exec' = [exec EXCEPT ![q] = intent.body] /\ intent' = intent
      \/ /\ exec[q] = Forgotten /\ keyed /\ intent.state = "intended" /\ intent' = intent
         /\ exec' = [exec EXCEPT ![q] =
                        [Running("failed") EXCEPT !.code = "QUERY_OUTCOME_UNKNOWN"]]
      \/ /\ exec[q] = Forgotten /\ keyed /\ intent.state = "none"
         /\ exec' = [exec EXCEPT ![q] = Running("executing")]
         /\ intent' = [NoIntent EXCEPT !.by = q, !.state = "intended"]
      \/ /\ exec[q] = Forgotten /\ ~keyed /\ intent' = intent
         /\ exec' = [exec EXCEPT ![q] = Running("executing")]
  BY DEF Arrive, TypeOK, Intents
<1>. DEFINE e == exec'[q]
<1>4. /\ exec' = [exec EXCEPT ![q] = e] /\ e \in Entries /\ intent' \in Intents
      /\ \/ /\ exec[q].phase = "pre_cancelled" /\ e.phase = "pre_cancelled" /\ e.by = exec[q].by
            /\ intent' = intent
         \/ /\ exec[q] = Forgotten /\ keyed /\ intent.state = "receipt" /\ e = intent.body
            /\ intent' = intent
         \/ /\ exec[q] = Forgotten /\ e.phase = "failed" /\ e.by = None /\ keyed
            /\ intent' = intent
         \/ /\ exec[q] = Forgotten /\ keyed /\ intent.state = "none"
            /\ e.phase = "executing" /\ e.by = None /\ e.done = 0 /\ e.code = Null
            /\ intent'.by = q /\ intent'.state = "intended"
         \/ /\ exec[q] = Forgotten /\ ~keyed /\ intent' = intent
            /\ e.phase = "executing" /\ e.by = None /\ e.done = 0 /\ e.code = Null
  <2>1. CASE exec[q] # Forgotten /\ exec' = [exec EXCEPT ![q].asked = TRUE] /\ intent' = intent
    <3>1. exec[q].phase = "pre_cancelled"
      BY <1>1, <2>1 DEF QueryInv, FitsQuery
    <3>. QED BY <1>1, <2>1, <3>1 DEF Entries, TypeOK
  <2>2. CASE /\ exec[q] = Forgotten /\ keyed /\ intent.state = "receipt"
             /\ exec' = [exec EXCEPT ![q] = intent.body] /\ intent' = intent
    BY <1>1, <2>2 DEF TypeOK, Intents
  <2>3. CASE /\ exec[q] = Forgotten /\ keyed /\ intent.state = "intended" /\ intent' = intent
             /\ exec' = [exec EXCEPT ![q] =
                            [Running("failed") EXCEPT !.code = "QUERY_OUTCOME_UNKNOWN"]]
    <3>1. "failed" \in Phases /\ "QUERY_OUTCOME_UNKNOWN" \in AnyCode
      BY DEF Phases, TerminalStates, AnyCode
    <3>. DEFINE x == [Running("failed") EXCEPT !.code = "QUERY_OUTCOME_UNKNOWN"]
    <3>2. x \in Entries /\ x.phase = "failed" /\ x.by = None
      BY <3>1, EntryFacts DEF Entries
    <3>. HIDE DEF x
    <3>3. exec' = [exec EXCEPT ![q] = x] /\ exec'[q] = x
      BY <2>3 DEF x, TypeOK
    <3>. QED BY <1>1, <2>3, <3>2, <3>3
  <2>4. Running("executing") \in Entries /\ Running("executing").phase = "executing"
        /\ Running("executing").by = None /\ Running("executing").done = 0
        /\ Running("executing").code = Null
    BY EntryFacts DEF Phases, Live
  <2>5. CASE /\ exec[q] = Forgotten /\ keyed /\ intent.state = "none"
             /\ exec' = [exec EXCEPT ![q] = Running("executing")]
             /\ intent' = [NoIntent EXCEPT !.by = q, !.state = "intended"]
    BY <1>1, <2>4, <2>5, EntryFacts DEF TypeOK, NoIntent, Intents
  <2>6. CASE /\ exec[q] = Forgotten /\ ~keyed /\ intent' = intent
             /\ exec' = [exec EXCEPT ![q] = Running("executing")]
    BY <1>1, <2>4, <2>6 DEF TypeOK
  <2>. QED BY <1>3, <2>1, <2>2, <2>3, <2>5, <2>6
<1>. HIDE DEF e
<1>5. /\ \A p \in Ids \ {q} : exec'[p] = exec[p] /\ effects'[p] = effects[p]
      /\ exec'[q] = e /\ effects'[q] = {} /\ q \notin sent'
      /\ exec' \in [Ids -> Entries] /\ effects' \in [Ids -> SUBSET (0..Statements - 1)]
  BY <1>1, <1>4, EntryUpdate DEF e, TypeOK
<1>6. intent.state = "receipt" => /\ intent.body.phase \in {"completed", "failed", "cancelled"}
                                  /\ intent.body.by = intent.by
  BY DEF IntentInv
<1>7. intent.state = "receipt" => intent' = intent
  BY <1>4
<1>8. exec[q].phase = "pre_cancelled" => e.phase = "pre_cancelled"
  BY <1>4, EntryFacts
<1>9. e.phase \in {"pre_cancelled", "completed", "failed", "cancelled", "executing"}
  BY <1>4, <1>6
<1>10. exec[q].phase \in TerminalStates => e.phase \in TerminalStates
  BY <1>1, <1>8, Disjoint
<1>11. StepOf(q)
  BY <1>1, <1>2, <1>4, <1>5, <1>7, <1>8, <1>9, <1>10 DEF StepOf, TypeOK
<1>12. Length(q) \in Nat /\ 1 <= Length(q)
  BY LengthFacts
<1>13. FitsQuery(q)'
  <2>1. Length(q)' = Length(q) /\ (IsKeyed(q)' <=> keyed) /\ kind' = kind
    BY <1>2 DEF Length, IsKeyed
  <2>2. exec[q].by # None => keyed /\ exec[q].by = intent.by /\ intent.state = "receipt"
    BY DEF QueryInv, FitsQuery, IsKeyed
  <2>3. e.by # None => /\ keyed /\ e.phase \notin Live
                       /\ e.by = intent'.by /\ intent'.state = "receipt"
    BY <1>4, <1>6, <1>7, <2>2, EntryFacts DEF Live
  <2>4. e.phase \in {"serializing", "completed"} => keyed
    BY <1>4
  <2>5. e.phase \in Live => /\ e.by = None /\ e.code = Null
                            /\ e.phase = "executing" /\ e.done = 0
    BY <1>4, <1>6 DEF Live
  <2>. QED BY <1>5, <1>9, <1>12, <2>1, <2>3, <2>4, <2>5 DEF FitsQuery, Live
<1>14. IntentInv'
  <2>1. \A p : IsKeyed(p)' <=> IsKeyed(p)
    BY <1>2 DEF IsKeyed
  <2>2. CASE intent' = intent
    <3>1. ASSUME NEW p \in Ids, IsKeyed(p)
          PROVE  /\ exec'[p].phase \in Live => intent.state = "intended" /\ intent.by = p
                 /\ effects'[p] # {} => intent.state # "none" /\ intent.by = p
      <4>1. CASE p = q
        BY <1>4, <1>5, <1>6, <2>2, <3>1, <4>1 DEF IsKeyed, Live
      <4>2. CASE p # q
        BY <1>5, <3>1, <4>2 DEF IntentInv
      <4>. QED BY <4>1, <4>2
    <3>. QED BY <2>1, <2>2, <3>1 DEF IntentInv
  <2>3. CASE intent' # intent
    <3>1. /\ keyed /\ intent.state = "none" /\ intent'.by = q /\ intent'.state = "intended"
      BY <1>4, <2>3
    <3>2. \A p \in Ids : IsKeyed(p) => exec[p].phase \notin Live /\ effects[p] = {}
      BY <3>1 DEF IntentInv
    <3>3. IsKeyed(q)
      BY <3>1 DEF IsKeyed
    <3>. QED BY <1>1, <1>5, <2>1, <3>1, <3>2, <3>3 DEF IntentInv
  <2>. QED BY <2>2, <2>3
<1>15. restarts = 0 /\ answer' \in {"already_finished", "pre_cancelled"} =>
          calls >= 1 /\ exec'[Id(calls, 1)].phase \in TerminalStates
  <2>1. ASSUME restarts = 0, answer' \in {"already_finished", "pre_cancelled"}
        PROVE  calls >= 1 /\ exec'[Id(calls, 1)].phase \in TerminalStates
    <3>1. calls >= 1 /\ exec[Id(calls, 1)].phase \in TerminalStates
      BY <1>2, <2>1 DEF NoRestartInv
    <3>2. Id(calls, 1) \in Ids
      BY <3>1, IdFacts DEF TypeOK, Calls
    <3>. QED BY <1>5, <1>10, <3>1, <3>2
  <2>. QED BY <2>1
<1>. QED BY <1>1, <1>5, <1>11, <1>13, <1>14, <1>15, QueryStep, UsedIds

\* A step of a query that runs and goes on.
LEMMA RunKeeps ==
    ASSUME RemoteInv, NEW q \in Ids, exec[q].phase \in Live,
           UNCHANGED <<client, sent, intent, restarts>>,
           NEW e \in Entries, exec' = [exec EXCEPT ![q] = e],
           e.phase \in Live, e.by = None, e.code = Null,
           effects' \in [Ids -> SUBSET (0..Statements - 1)],
           \A p \in Ids \ {q} : effects'[p] = effects[p],
           effects[q] \subseteq effects'[q],
           \A i \in effects'[q] : i < e.done,
           e.phase \in {"executing", "commit_critical"} => e.done < Length(q),
           e.phase = "serializing" /\ kind[CallOf(q)] \in {"batch", "ddl"} => effects'[q] # {}
    PROVE  RemoteInv' /\ Calm
<1>. USE DEF RemoteInv
<1>1. /\ kind' = kind /\ calls' = calls /\ attempt' = attempt /\ report' = report /\ pc' = pc
      /\ handle' = handle /\ answer' = answer /\ restarts' = restarts
      /\ sent' = sent /\ intent' = intent
  BY DEF client
<1>2. exec' \in [Ids -> Entries] /\ exec'[q] = e /\ \A p \in Ids \ {q} : exec'[p] = exec[p]
  BY EntryUpdate
<1>3. exec[q].phase \notin TerminalStates /\ e.phase \notin TerminalStates \cup {"forgotten"}
      /\ e.phase # "completed" /\ "pre_cancelled" \in TerminalStates
  BY Disjoint DEF TerminalStates
<1>4. q \notin sent
  BY DEF QueryInv, FitsQuery, Live
<1>5. intent' \in Intents
  BY <1>1 DEF TypeOK
<1>6. StepOf(q)
  BY <1>1, <1>2, <1>3, <1>5 DEF StepOf
<1>7. FitsQuery(q)'
  <2>1. Length(q)' = Length(q) /\ kind' = kind
    BY <1>1 DEF Length
  <2>. QED BY <1>1, <1>2, <1>3, <1>4, <2>1 DEF FitsQuery
<1>8. IntentInv'
  <2>1. ASSUME NEW p \in Ids, IsKeyed(p)
        PROVE  /\ exec'[p].phase \in Live => intent.state = "intended" /\ intent.by = p
               /\ effects'[p] # {} => intent.state # "none" /\ intent.by = p
    BY <1>2, <2>1 DEF IntentInv
  <2>. QED BY <1>1, <2>1 DEF IntentInv, IsKeyed
<1>9. restarts = 0 /\ answer' \in {"already_finished", "pre_cancelled"} =>
          calls >= 1 /\ exec'[Id(calls, 1)].phase \in TerminalStates
  <2>1. ASSUME restarts = 0, answer' \in {"already_finished", "pre_cancelled"}
        PROVE  calls >= 1 /\ exec'[Id(calls, 1)].phase \in TerminalStates
    <3>1. calls >= 1 /\ exec[Id(calls, 1)].phase \in TerminalStates
      BY <1>1, <2>1 DEF NoRestartInv
    <3>2. Id(calls, 1) \in Ids
      BY <3>1, IdFacts DEF TypeOK, Calls
    <3>. QED BY <1>2, <1>3, <3>1, <3>2
  <2>. QED BY <2>1
<1>. QED BY <1>2, <1>3, <1>6, <1>7, <1>8, <1>9, QueryStep, UsedIds, Disjoint

\* A statement that wins the commit fence.
LEMMA FenceKeeps ==
    ASSUME RemoteInv, NEW q \in Ids, Fence(q)
    PROVE  RemoteInv' /\ Calm
<1>. DEFINE e == [exec[q] EXCEPT !.phase = "commit_critical"]
<1>1. exec[q] \in Entries /\ FitsQuery(q) /\ effects \in [Ids -> SUBSET (0..Statements - 1)]
  BY DEF RemoteInv, TypeOK, QueryInv
<1>2. /\ exec[q].phase = "executing" /\ exec' = [exec EXCEPT ![q] = e]
      /\ UNCHANGED <<client, sent, intent, restarts>> /\ effects' = effects
  BY <1>1 DEF Fence
<1>3. /\ e \in Entries /\ e.phase = "commit_critical" /\ e.by = exec[q].by
      /\ e.done = exec[q].done /\ e.code = exec[q].code
  BY <1>1 DEF Entries, Phases, Live
<1>. HIDE DEF e
<1>. QED BY <1>1, <1>2, <1>3, RunKeeps DEF FitsQuery, Live

\* An entry whose statement ended.
LEMMA AdvancedFacts ==
    ASSUME RemoteInv, NEW q \in Ids, exec[q].phase \in {"executing", "commit_critical"},
           NEW e, e = Advanced(exec[q], Length(q))
    PROVE  /\ e \in Entries /\ e.phase \in {"serializing", "executing"}
           /\ e.by = None /\ e.code = Null /\ e.done = exec[q].done + 1
           /\ e.phase = "executing" => e.done < Length(q)
           /\ exec[q].done \in 0..Statements - 1 /\ \A i \in effects[q] : i < exec[q].done
<1>1. exec[q] \in Entries /\ FitsQuery(q) /\ exec[q].done \in Nat
  BY DEF RemoteInv, TypeOK, QueryInv, Entries
<1>2. /\ exec[q].by = None /\ exec[q].code = Null /\ exec[q].done < Length(q)
      /\ \A i \in effects[q] : i < exec[q].done
  BY <1>1 DEF FitsQuery, Live
<1>3. exec[q].done \in 0..Statements - 1
  BY <1>1, <1>2, LengthFacts, RemoteAssumption DEF RemoteAssumption
<1>. DEFINE d == exec[q].done + 1
            x == IF d = Length(q) THEN "serializing" ELSE "executing"
<1>4. e = [exec[q] EXCEPT !.done = d, !.phase = x]
  BY <1>1 DEF Advanced, Entries
<1>5. d \in Nat /\ x \in {"serializing", "executing"} /\ x \in Phases
  BY <1>1 DEF Phases, Live
<1>6. x = "executing" => d < Length(q)
  BY <1>1, <1>2, LengthFacts
<1>. HIDE DEF d, x
<1>7. /\ e \in Entries /\ e.phase = x /\ e.by = exec[q].by /\ e.code = exec[q].code
      /\ e.done = d
  BY <1>1, <1>4, <1>5 DEF Entries
<1>. QED BY <1>2, <1>3, <1>5, <1>6, <1>7 DEF d

\* A statement that commits was not committed before.
LEMMA CommitKeeps ==
    ASSUME RemoteInv, NEW q \in Ids, Commit(q)
    PROVE  RemoteInv' /\ Calm
<1>. DEFINE e == Advanced(exec[q], Length(q))
<1>1. exec[q] \in Entries /\ FitsQuery(q) /\ effects \in [Ids -> SUBSET (0..Statements - 1)]
  BY DEF RemoteInv, TypeOK, QueryInv
<1>2. /\ exec[q].phase = "commit_critical" /\ exec' = [exec EXCEPT ![q] = e]
      /\ UNCHANGED <<client, sent, intent, restarts>>
      /\ effects' = [effects EXCEPT ![q] = effects[q] \cup {exec[q].done}]
  BY <1>1 DEF Commit, RemoteInv, TypeOK
<1>. HIDE DEF e
<1>3. /\ e \in Entries /\ e.phase \in {"serializing", "executing"}
      /\ e.by = None /\ e.code = Null /\ e.done = exec[q].done + 1
      /\ e.phase = "executing" => e.done < Length(q)
      /\ exec[q].done \in 0..Statements - 1 /\ \A i \in effects[q] : i < exec[q].done
  BY <1>2, AdvancedFacts DEF e
<1>4. /\ effects' \in [Ids -> SUBSET (0..Statements - 1)]
      /\ \A p \in Ids \ {q} : effects'[p] = effects[p]
      /\ effects'[q] = effects[q] \cup {exec[q].done}
  BY <1>1, <1>2, <1>3
<1>5. \A i \in effects'[q] : i < e.done
  BY <1>1, <1>3, <1>4, RemoteAssumption DEF RemoteAssumption
<1>. QED BY <1>1, <1>2, <1>3, <1>4, <1>5, RunKeeps DEF Live

\* A statement that writes nothing.
LEMMA ReadKeeps ==
    ASSUME RemoteInv, NEW q \in Ids, Read(q)
    PROVE  RemoteInv' /\ Calm
<1>. DEFINE e == Advanced(exec[q], Length(q))
<1>1. exec[q] \in Entries /\ FitsQuery(q) /\ effects \in [Ids -> SUBSET (0..Statements - 1)]
  BY DEF RemoteInv, TypeOK, QueryInv
<1>2. /\ exec[q].phase = "executing" /\ exec' = [exec EXCEPT ![q] = e]
      /\ UNCHANGED <<client, sent, intent, restarts>> /\ effects' = effects
      /\ kind[CallOf(q)] \notin {"batch", "ddl"}
  BY <1>1 DEF Read, RemoteInv, TypeOK
<1>. HIDE DEF e
<1>3. /\ e \in Entries /\ e.phase \in {"serializing", "executing"}
      /\ e.by = None /\ e.code = Null /\ e.done = exec[q].done + 1
      /\ e.phase = "executing" => e.done < Length(q)
      /\ exec[q].done \in 0..Statements - 1 /\ \A i \in effects[q] : i < exec[q].done
  BY <1>2, AdvancedFacts DEF e
<1>4. \A i \in effects'[q] : i < e.done
  BY <1>1, <1>2, <1>3, RemoteAssumption DEF RemoteAssumption
<1>. QED BY <1>1, <1>2, <1>3, <1>4, RunKeeps DEF Live

\* The end of a query that ran.
LEMMA ConcludeKeeps ==
    ASSUME RemoteInv, NEW q \in Ids, exec[q].phase \in Live,
           NEW e \in Entries, Conclude(q, e),
           e.phase \in {"completed", "failed", "cancelled"}, e.by = None,
           e.phase = "completed" /\ kind[CallOf(q)] \in {"batch", "ddl"} =>
              effects[q] # {} /\ e.code = Null
    PROVE  RemoteInv' /\ Calm
<1>. USE DEF RemoteInv
<1>1. /\ kind' = kind /\ calls' = calls /\ attempt' = attempt /\ report' = report /\ pc' = pc
      /\ handle' = handle /\ answer' = answer /\ restarts' = restarts
      /\ sent' = sent /\ effects' = effects
  BY DEF Conclude, client
<1>2. intent' = IF intent.by # q \/ intent.state # "intended" THEN intent
                   ELSE IF e.phase = "completed" \/ effects[q] # {}
                   THEN [by |-> q, state |-> "receipt", body |-> [e EXCEPT !.by = q]]
                   ELSE NoIntent
  BY DEF Conclude
<1>3. exec' \in [Ids -> Entries] /\ exec'[q] = e /\ \A p \in Ids \ {q} : exec'[p] = exec[p]
  BY EntryUpdate DEF Conclude
<1>4. /\ e.phase \in TerminalStates /\ e.phase \notin Live /\ e.phase # "forgotten"
      /\ exec[q].phase \notin TerminalStates /\ e.phase # "pre_cancelled"
  BY Disjoint DEF TerminalStates
<1>5. q \notin sent
  BY DEF QueryInv, FitsQuery, Live
<1>. DEFINE body == [e EXCEPT !.by = q]
<1>6. body \in Entries /\ body.by = q /\ body.phase = e.phase
  BY DEF Entries
<1>. HIDE DEF body
<1>7. \/ intent' = intent /\ (intent.by # q \/ intent.state # "intended")
      \/ /\ intent.by = q /\ intent.state = "intended"
         /\ intent' = [by |-> q, state |-> "receipt", body |-> body]
      \/ /\ intent.by = q /\ intent.state = "intended" /\ effects[q] = {}
         /\ intent' = NoIntent
  BY <1>2 DEF body
<1>8. intent' \in Intents /\ NoIntent.state = "none" /\ NoIntent.by = None
  BY <1>6, <1>7, EntryFacts DEF TypeOK, Intents, NoIntent
<1>9. /\ intent.state = "receipt" => intent' = intent
      /\ effects \in [Ids -> SUBSET (0..Statements - 1)]
  BY <1>7 DEF TypeOK
<1>10. StepOf(q)
  BY <1>1, <1>3, <1>4, <1>8, <1>9, Disjoint DEF StepOf
<1>11. FitsQuery(q)'
  BY <1>1, <1>3, <1>4, <1>5 DEF FitsQuery, Live
<1>12. IntentInv'
  <2>1. \A p : IsKeyed(p)' <=> IsKeyed(p)
    BY <1>1 DEF IsKeyed
  <2>2. \A p \in Ids : exec'[p].phase \in Live => p # q /\ exec[p].phase \in Live
    BY <1>3, <1>4
  <2>3. CASE intent' = intent
    BY <1>1, <2>1, <2>2, <2>3 DEF IntentInv
  <2>4. CASE /\ intent.by = q /\ intent.state = "intended"
             /\ intent' = [by |-> q, state |-> "receipt", body |-> body]
    <3>1. \A p \in Ids : IsKeyed(p) => exec'[p].phase \notin Live /\ (effects[p] # {} => p = q)
      BY <2>2, <2>4 DEF IntentInv
    <3>2. intent'.by = q /\ intent'.state = "receipt" /\ intent'.body = body
      BY <2>4
    <3>3. IsKeyed(q)
      BY <2>4 DEF IntentInv
    <3>. QED BY <1>1, <1>6, <2>1, <3>1, <3>2, <3>3 DEF IntentInv
  <2>5. CASE /\ intent.by = q /\ intent.state = "intended" /\ effects[q] = {}
             /\ intent' = NoIntent
    <3>1. \A p \in Ids : IsKeyed(p) => exec'[p].phase \notin Live /\ effects[p] = {}
      BY <2>2, <2>5 DEF IntentInv
    <3>. QED BY <1>1, <1>8, <2>1, <2>5, <3>1 DEF IntentInv
  <2>. QED BY <1>7, <2>3, <2>4, <2>5
<1>13. restarts = 0 /\ answer' \in {"already_finished", "pre_cancelled"} =>
          calls >= 1 /\ exec'[Id(calls, 1)].phase \in TerminalStates
  <2>1. ASSUME restarts = 0, answer' \in {"already_finished", "pre_cancelled"}
        PROVE  calls >= 1 /\ exec'[Id(calls, 1)].phase \in TerminalStates
    <3>1. calls >= 1 /\ exec[Id(calls, 1)].phase \in TerminalStates
      BY <1>1, <2>1 DEF NoRestartInv
    <3>2. Id(calls, 1) \in Ids
      BY <3>1, IdFacts DEF TypeOK, Calls
    <3>. QED BY <1>3, <1>4, <3>1, <3>2
  <2>. QED BY <2>1
<1>. QED BY <1>3, <1>4, <1>10, <1>11, <1>12, <1>13, QueryStep, UsedIds, Disjoint

\* The ends of a query: complete, failed, cancelled, past its deadline.
LEMMA EndKeeps ==
    ASSUME RemoteInv, NEW q \in Ids, Complete(q) \/ Fail(q) \/ Stop(q) \/ Deadline(q)
    PROVE  RemoteInv' /\ Calm
<1>1. exec[q] \in Entries /\ FitsQuery(q)
  BY DEF RemoteInv, TypeOK, QueryInv
<1>2. /\ {"QUERY_CANCELLED", "QUERY_CANCELLED_AFTER_COMMIT", "DEADLINE_EXCEEDED",
          "DEADLINE_AFTER_COMMIT"} \subseteq AnyCode
      /\ {"completed", "failed", "cancelled"} \subseteq Phases /\ "deadline" \in Whys
  BY DEF AnyCode, CancelCodes, DeadlineCodes, Phases, TerminalStates, Whys
<1>3. exec[q].phase \in Live => exec[q].by = None
  BY <1>1 DEF FitsQuery
<1>4. CASE Complete(q)
  <2>. DEFINE e == [exec[q] EXCEPT !.phase = "completed"]
  <2>1. /\ e \in Entries /\ e.phase = "completed" /\ e.by = exec[q].by
        /\ e.code = exec[q].code
    BY <1>1, <1>2 DEF Entries
  <2>2. exec[q].phase = "serializing" /\ Conclude(q, e)
    BY <1>4 DEF Complete
  <2>3. kind[CallOf(q)] \in {"batch", "ddl"} => effects[q] # {} /\ exec[q].code = Null
    BY <1>1, <2>2 DEF FitsQuery
  <2>. HIDE DEF e
  <2>. QED BY <1>3, <2>1, <2>2, <2>3, ConcludeKeeps DEF Live
<1>5. CASE Fail(q)
  <2>1. PICK code \in Codes[kind[CallOf(q)]] :
            Conclude(q, [exec[q] EXCEPT !.phase = "failed", !.code = code])
    BY <1>5 DEF Fail
  <2>2. kind[CallOf(q)] \in Kinds
    BY CallOfIds DEF RemoteInv, TypeOK
  <2>3. code \in AnyCode
    BY <2>2 DEF AnyCode
  <2>. DEFINE e == [exec[q] EXCEPT !.phase = "failed", !.code = code]
  <2>4. e \in Entries /\ e.phase = "failed" /\ e.by = exec[q].by
    BY <1>1, <1>2, <2>3 DEF Entries
  <2>5. exec[q].phase = "executing" /\ Conclude(q, e)
    BY <1>5, <2>1 DEF Fail
  <2>. HIDE DEF e
  <2>. QED BY <1>3, <2>4, <2>5, ConcludeKeeps DEF Live
<1>6. CASE Stop(q)
  <2>. DEFINE code == IF effects[q] = {} THEN "QUERY_CANCELLED" ELSE "QUERY_CANCELLED_AFTER_COMMIT"
              e == [exec[q] EXCEPT !.phase = "cancelled", !.code = code]
  <2>1. code \in AnyCode
    BY <1>2
  <2>2. exec[q].phase = "cancelling" /\ Conclude(q, e)
    BY <1>6 DEF Stop
  <2>. HIDE DEF code
  <2>3. e \in Entries /\ e.phase = "cancelled" /\ e.by = exec[q].by
    BY <1>1, <1>2, <2>1 DEF Entries
  <2>. HIDE DEF e
  <2>. QED BY <1>3, <2>2, <2>3, ConcludeKeeps DEF Live
<1>7. CASE Deadline(q)
  <2>. DEFINE code == IF effects[q] = {} THEN "DEADLINE_EXCEEDED" ELSE "DEADLINE_AFTER_COMMIT"
              e == [exec[q] EXCEPT !.phase = "cancelled", !.why = "deadline", !.code = code]
  <2>1. code \in AnyCode
    BY <1>2
  <2>2. exec[q].phase = "executing" /\ Conclude(q, e)
    BY <1>7 DEF Deadline
  <2>. HIDE DEF code
  <2>3. e \in Entries /\ e.phase = "cancelled" /\ e.by = exec[q].by
    BY <1>1, <1>2, <2>1 DEF Entries
  <2>. HIDE DEF e
  <2>. QED BY <1>3, <2>2, <2>3, ConcludeKeeps DEF Live
<1>. QED BY <1>4, <1>5, <1>6, <1>7

\* A restart forgets what ran, not what was promised.
LEMMA RestartKeeps ==
    ASSUME RemoteInv, Restart
    PROVE  RemoteInv' /\ Calm
<1>. USE DEF RemoteInv
<1>1. /\ kind' = kind /\ calls' = calls /\ attempt' = attempt /\ report' = report /\ pc' = pc
      /\ handle' = handle /\ answer' = answer /\ sent' = sent /\ intent' = intent
      /\ effects' = effects /\ restarts' = restarts + 1
      /\ exec' = [q \in Ids |-> Forgotten]
  BY DEF Restart, client
<1>2. restarts \in Nat /\ restarts' \in Nat /\ restarts' # 0
  BY <1>1 DEF TypeOK
<1>3. TypeOK'
  BY <1>1, <1>2, EntryFacts DEF TypeOK
<1>4. ClientInv'
  <2>1. id' = id
    BY <1>1 DEF id
  <2>. QED BY <1>1, <2>1 DEF ClientInv, Keyed
<1>5. \A p : (Unused(p)' <=> Unused(p)) /\ (IsKeyed(p)' <=> IsKeyed(p)) /\ Length(p)' = Length(p)
  BY <1>1 DEF Unused, IsKeyed, Length
<1>6. UnusedInv'
  BY <1>1, <1>5 DEF UnusedInv
<1>7. \A p \in Ids : /\ exec'[p] = Forgotten /\ exec'[p].phase = "forgotten"
                     /\ exec'[p].phase \notin Live
  BY <1>1, EntryFacts, Disjoint
<1>8. QueryInv'
  <2>1. ASSUME NEW p \in Ids PROVE FitsQuery(p)'
    BY <1>1, <1>7, EntryFacts DEF FitsQuery, QueryInv, Live
  <2>. QED BY <2>1 DEF QueryInv
<1>9. IntentInv'
  BY <1>1, <1>5, <1>7 DEF IntentInv
<1>10. NoRestartInv'
  BY <1>2 DEF NoRestartInv
<1>11. Calm
  BY <1>1, <1>2, <1>5, <1>7 DEF Calm, Quiet
<1>12. ReportInv'
  <2>1. ASSUME NEW c \in Calls, c > calls' \/ (c = calls' /\ pc' # "idle")
        PROVE  report'[c] = NotTold
    BY <1>1, <2>1 DEF ReportInv
  <2>. QED BY <1>1, <1>3, <1>11, <2>1, ReportsStay DEF ReportInv
<1>. QED BY <1>3, <1>4, <1>6, <1>8, <1>9, <1>10, <1>11, <1>12 DEF RemoteInv

-----------------------------------------------------------------------------
(* The client keeps the invariant.                                         *)

\* The parts of the invariant that hold when the server and the ids do not
\* change.
LEMMA ServerStays ==
    ASSUME RemoteInv, UNCHANGED server, kind' = kind,
           \A p \in Ids : Unused(p)' => Unused(p)
    PROVE  UnusedInv' /\ QueryInv' /\ IntentInv' /\ Calm
<1>. USE DEF RemoteInv
<1>1. exec' = exec /\ sent' = sent /\ intent' = intent /\ effects' = effects /\ restarts' = restarts
  BY DEF server
<1>2. \A p : (IsKeyed(p)' <=> IsKeyed(p)) /\ Length(p)' = Length(p)
  BY DEF IsKeyed, Length
<1>3. UnusedInv'
  BY <1>1 DEF UnusedInv
<1>4. QueryInv'
  <2>1. ASSUME NEW p \in Ids PROVE FitsQuery(p)'
    BY <1>1, <1>2 DEF QueryInv, FitsQuery
  <2>. QED BY <2>1 DEF QueryInv
<1>5. IntentInv'
  BY <1>1, <1>2 DEF IntentInv
<1>6. Calm
  BY <1>1 DEF Calm, Quiet, Settled
<1>. QED BY <1>3, <1>4, <1>5, <1>6

\* The call goes on, at another place or after one more poll.
LEMMA GoingOnKeeps ==
    ASSUME RemoteInv, UNCHANGED server, pc # "idle",
           UNCHANGED <<kind, calls, attempt, answer, report>>,
           handle' = handle \/ handle' = "dropped",
           pc' \in Places \ {"idle"},
           pc' \in {"loss", "replay"} => Keyed,
           pc' = "refresh" => effects[id] # {}
    PROVE  RemoteInv' /\ Calm
<1>. USE DEF RemoteInv
<1>1. exec' = exec /\ sent' = sent /\ intent' = intent /\ effects' = effects /\ restarts' = restarts
  BY DEF server
<1>2. TypeOK'
  BY <1>1 DEF TypeOK
<1>3. \A p : Unused(p)' <=> Unused(p)
  BY DEF Unused
<1>4. id' = id /\ (Keyed' <=> Keyed)
  BY DEF id, Keyed
<1>5. ClientInv'
  BY <1>1, <1>4 DEF ClientInv
<1>6. UnusedInv' /\ QueryInv' /\ IntentInv' /\ Calm
  BY <1>3, ServerStays
<1>7. NoRestartInv'
  BY <1>1, <1>4 DEF NoRestartInv, Id
<1>8. ReportInv'
  <2>1. ASSUME NEW c \in Calls, c > calls' \/ (c = calls' /\ pc' # "idle")
        PROVE  report'[c] = NotTold
    BY <2>1 DEF ReportInv
  <2>. QED BY <1>2, <1>6, <2>1, ReportsStay DEF ReportInv
<1>. QED BY <1>2, <1>5, <1>6, <1>7, <1>8

\* An answer the caller may be given of the current query.
Truthful(r) == LET told == [committed |-> r.committed, stmts |-> r.stmts,
                            state |-> r.state, about |-> id] IN
    /\ r.committed \in {"yes", "no", "unknown"}
    /\ r.stmts \in Nat \cup {None}
    /\ r.state \in Phases \cup {Null}
    /\ r.committed = "yes" => YesIsTrue(told)
    /\ r.committed = "no" => NoIsTrue(told)

\* A call that returns with a true answer keeps the invariant.
LEMMA TellKeeps ==
    ASSUME RemoteInv, UNCHANGED server, pc # "idle", NEW r, Truthful(r), Tell(r)
    PROVE  RemoteInv' /\ Calm
<1>. USE DEF RemoteInv
<1>1. PICK told : told = [committed |-> r.committed, stmts |-> r.stmts,
                          state |-> r.state, about |-> id]
  OBVIOUS
<1>2. exec' = exec /\ sent' = sent /\ intent' = intent /\ effects' = effects /\ restarts' = restarts
  BY DEF server
<1>3. /\ kind' = kind /\ calls' = calls /\ answer' = answer
      /\ pc' = "idle" /\ attempt' = 1 /\ handle' = "none"
      /\ report' = [report EXCEPT ![calls] = told]
  BY <1>1 DEF Tell
<1>4. calls \in Calls /\ id \in Ids /\ ~Unused(id)
  BY CurrentId
<1>5. told.committed = r.committed /\ told.about = id /\ told \in Reports
  BY <1>1, <1>4 DEF Truthful, Reports
<1>6. /\ told.committed \in {"yes", "no", "unknown"}
      /\ told.committed = "yes" => YesIsTrue(told)
      /\ told.committed = "no" => NoIsTrue(told)
  BY <1>1 DEF Truthful
<1>7. TypeOK'
  BY <1>2, <1>3, <1>5 DEF TypeOK, Places
<1>8. ClientInv'
  BY <1>3 DEF ClientInv
<1>9. \A p \in Ids : Unused(p)' => Unused(p)
  BY <1>3 DEF Unused
<1>10. UnusedInv' /\ QueryInv' /\ IntentInv' /\ Calm
  BY <1>3, <1>9, ServerStays
<1>11. NoRestartInv'
  BY <1>2, <1>3 DEF NoRestartInv, Id
<1>12. ReportInv'
  <2>1. ASSUME NEW c \in Calls, c > calls' \/ (c = calls' /\ pc' # "idle")
        PROVE  report'[c] = NotTold
    <3>1. c > calls /\ c # calls
      BY <1>3, <1>4, <2>1 DEF Calls
    <3>. QED BY <1>3, <3>1 DEF ReportInv, TypeOK
  <2>2. ASSUME NEW c \in Calls
        PROVE  /\ report'[c].committed \in {"yes", "no"} => report'[c].about \in Ids
               /\ report'[c].committed = "yes" => YesIsTrue(report[c])'
               /\ report'[c].committed = "no" => ~Unused(report[c].about)' /\ NoIsTrue(report[c])'
    <3>1. CASE c = calls
      <4>1. report'[c] = told
        BY <1>3, <1>4, <3>1 DEF TypeOK
      <4>2. YesIsTrue(told) => YesIsTrue(told)'
        BY <1>7, <1>10, YesStays
      <4>3. NoIsTrue(told) => ~Unused(told.about)' /\ NoIsTrue(told)'
        BY <1>4, <1>5, <1>10, NoStays
      <4>. QED BY <1>4, <1>5, <1>6, <4>1, <4>2, <4>3
    <3>2. CASE c # calls
      <4>1. report'[c] = report[c]
        BY <1>3, <3>2 DEF TypeOK
      <4>. QED BY <1>7, <1>10, <4>1, ReportsStay
    <3>. QED BY <3>1, <3>2
  <2>. QED BY <2>1, <2>2 DEF ReportInv
<1>. QED BY <1>7, <1>8, <1>10, <1>11, <1>12

\* A cancel makes no query run, and ends none that has not begun to commit.
LEMMA CancelledFacts ==
    ASSUME NEW e \in Entries, e.phase = "forgotten" => e = Forgotten,
           NEW c, c = Cancelled(e)
    PROVE  /\ c \in Entries /\ c.by = e.by /\ c.done = e.done /\ (c.asked <=> e.asked)
           /\ \/ e.phase = "forgotten" /\ c.phase = "pre_cancelled"
              \/ /\ e.phase \in {"executing", "serializing"}
                 /\ c.phase = "cancelling" /\ c.code = e.code
              \/ e.phase \notin {"forgotten", "executing", "serializing"} /\ c = e
<1>1. {"pre_cancelled", "cancelling"} \subseteq Phases /\ "client_request" \in Whys
      /\ "QUERY_CANCELLED" \in AnyCode
  BY DEF Phases, Live, TerminalStates, Whys, AnyCode, CancelCodes
<1>2. CASE e = Forgotten
  <2>. DEFINE p == Running("pre_cancelled")
  <2>1. /\ p \in Entries /\ p.phase = "pre_cancelled" /\ p.by = None /\ p.done = 0 /\ ~p.asked
    BY <1>1, EntryFacts
  <2>2. c = [p EXCEPT !.code = "QUERY_CANCELLED", !.why = "client_request"]
    BY <1>2, EntryFacts DEF Cancelled
  <2>. HIDE DEF p
  <2>3. /\ c \in Entries /\ c.phase = "pre_cancelled" /\ c.by = p.by /\ c.done = p.done
        /\ c.asked <=> p.asked
    BY <1>1, <2>1, <2>2 DEF Entries
  <2>. QED BY <1>2, <2>1, <2>3, EntryFacts
<1>3. CASE e # Forgotten /\ e.phase \in {"executing", "serializing"}
  <2>1. c = [e EXCEPT !.phase = "cancelling", !.why = "client_request"]
    BY <1>3 DEF Cancelled
  <2>. QED BY <1>1, <1>3, <2>1 DEF Entries
<1>4. CASE e # Forgotten /\ e.phase \notin {"executing", "serializing"}
  BY <1>4 DEF Cancelled
<1>. QED BY <1>2, <1>3, <1>4

\* A cancel of the current query keeps the invariant.
LEMMA CancelKeeps ==
    ASSUME RemoteInv, pc # "idle", exec' = [exec EXCEPT ![id] = Cancelled(@)],
           UNCHANGED <<kind, calls, attempt, report, sent, intent, effects, restarts>>,
           pc' = pc \/ (pc = "cancel" /\ pc' = "poll"),
           handle' = handle \/ handle' = "dropped",
           answer' = answer \/
              (answer' \in {"already_finished", "pre_cancelled"} =>
                  calls >= 1 /\ exec'[Id(calls, 1)].phase \in TerminalStates)
    PROVE  RemoteInv' /\ Calm
<1>. USE DEF RemoteInv
<1>1. id \in Ids /\ calls \in Calls /\ ~Unused(id)
  BY CurrentId
<1>2. PICK q \in Ids : q = id
  BY <1>1
<1>3. exec[q] \in Entries /\ FitsQuery(q) /\ (exec[q].phase = "forgotten" => exec[q] = Forgotten)
  BY DEF TypeOK, QueryInv, FitsQuery
<1>4. PICK e : e = Cancelled(exec[q])
  OBVIOUS
<1>5. /\ e \in Entries /\ e.by = exec[q].by /\ e.done = exec[q].done /\ (e.asked <=> exec[q].asked)
      /\ \/ exec[q].phase = "forgotten" /\ e.phase = "pre_cancelled"
         \/ /\ exec[q].phase \in {"executing", "serializing"}
            /\ e.phase = "cancelling" /\ e.code = exec[q].code
         \/ exec[q].phase \notin {"forgotten", "executing", "serializing"} /\ e = exec[q]
  BY <1>3, <1>4, CancelledFacts
<1>6. exec' = [exec EXCEPT ![q] = e]
  BY <1>2, <1>4 DEF TypeOK
<1>7. exec' \in [Ids -> Entries] /\ exec'[q] = e /\ \A p \in Ids \ {q} : exec'[p] = exec[p]
  BY <1>2, <1>5, <1>6, EntryUpdate
<1>8. /\ e.phase # "forgotten"
      /\ e.phase \in Live <=> exec[q].phase \in Live
      /\ exec[q].phase \in TerminalStates => e = exec[q]
  BY <1>5 DEF Live, TerminalStates
<1>9. StepOf(q)
  BY <1>7, <1>8, Disjoint DEF StepOf, TypeOK
<1>10. FitsQuery(q)'
  <2>1. Length(q)' = Length(q) /\ (IsKeyed(q)' <=> IsKeyed(q))
    BY DEF Length, IsKeyed
  <2>2. e.phase \in {"pre_cancelled", "cancelling"} \/ e = exec[q]
    BY <1>5
  <2>3. e.phase \in Live => e.code = Null
    BY <1>3, <1>5, <1>8, Disjoint DEF FitsQuery
  <2>4. q \in sent => e.phase \in {"forgotten", "pre_cancelled"} /\ ~e.asked
    BY <1>3, <1>5 DEF FitsQuery
  <2>. QED BY <1>3, <1>5, <1>7, <1>8, <2>1, <2>2, <2>3, <2>4 DEF FitsQuery
<1>11. IntentInv'
  <2>1. \A p \in Ids : exec'[p].phase \in Live => exec[p].phase \in Live
    BY <1>7, <1>8
  <2>. QED BY <2>1 DEF IntentInv, IsKeyed
<1>12. restarts = 0 /\ exec'[q].phase = "pre_cancelled" => effects'[q] = {}
  BY <1>2, <1>3, <1>5, <1>7 DEF NoRestartInv
<1>13. restarts = 0 /\ answer' \in {"already_finished", "pre_cancelled"} =>
          calls >= 1 /\ exec'[Id(calls, 1)].phase \in TerminalStates
  BY <1>1, <1>7, <1>8, IdFacts DEF NoRestartInv
<1>. QED BY <1>1, <1>2, <1>9, <1>10, <1>11, <1>12, <1>13, QueryStep

\* Recovery cancels the statement, whether the request arrives or not.
LEMMA CancelForRecoveryKeeps ==
    ASSUME RemoteInv, CancelForRecovery
    PROVE  RemoteInv' /\ Calm
<1>1. /\ pc = "cancel" /\ pc' = "poll" /\ pc # "idle" /\ "poll" \in Places
      /\ UNCHANGED <<kind, calls, attempt, handle, answer, report, sent, intent, effects, restarts>>
  BY DEF CancelForRecovery, GoTo, Places
<1>2. CASE exec' = exec
  BY <1>1, <1>2, GoingOnKeeps DEF server
<1>3. CASE exec' = [exec EXCEPT ![id] = Cancelled(@)]
  BY <1>1, <1>3, CancelKeeps
<1>. QED BY <1>2, <1>3 DEF CancelForRecovery

\* The caller drops the handle.
LEMMA DropHandleKeeps ==
    ASSUME RemoteInv, DropHandle
    PROVE  RemoteInv' /\ Calm
<1>1. /\ pc # "idle" /\ pc' = pc /\ handle' = "dropped"
      /\ UNCHANGED <<kind, calls, attempt, answer, report, sent, intent, effects, restarts>>
  BY DEF DropHandle
<1>2. CASE exec' = exec
  BY <1>1, <1>2, GoingOnKeeps DEF server, RemoteInv, ClientInv, TypeOK
<1>3. CASE exec' = [exec EXCEPT ![id] = Cancelled(@)]
  BY <1>1, <1>3, CancelKeeps
<1>. QED BY <1>2, <1>3 DEF DropHandle

\* The answer that a query has finished, or will not start, is accepted only
\* where it is the true one.
LEMMA AcceptedAnswer ==
    ASSUME NEW q, NEW a \in CancelBodies(q), ValidCancel(a, q), q # 0
    PROVE  a.outcome = AnswerTo(exec[q])
<1>1. AnswerTo(exec[q]) \in DOMAIN CancelAnswers
  BY DEF AnswerTo, CancelAnswers
<1>2. "yes" # Null
  BY DEF Null
<1>. QED BY <1>1, <1>2 DEF CancelBodies, ValidCancel, CancelMetadataAgrees

\* The caller cancels through the handle, and reads what it is answered.
LEMMA CancelByHandleKeeps ==
    ASSUME RemoteInv, CancelByHandle
    PROVE  RemoteInv' /\ Calm
<1>. USE DEF RemoteInv
<1>1. /\ pc # "idle" /\ pc' = pc /\ handle' = handle /\ handle = "held"
      /\ UNCHANGED <<kind, calls, attempt, report, sent, intent, effects, restarts>>
      /\ exec' = [exec EXCEPT ![id] = Cancelled(@)]
  BY DEF CancelByHandle
<1>2. id \in Ids /\ calls \in Calls /\ calls >= 1
  BY <1>1, CurrentId DEF ClientInv
<1>3. id = Id(calls, 1)
  BY <1>1 DEF ClientInv, Keyed, id, TypeOK
<1>4. ASSUME answer' \in {"already_finished", "pre_cancelled"}
      PROVE  exec'[id].phase \in TerminalStates
  <2>1. PICK a \in CancelBodies(id) :
            answer' = IF ValidCancel(a, id) THEN a.outcome ELSE "invalid"
    BY DEF CancelByHandle
  <2>2. AnswerTo(exec[id]) \in {"already_finished", "pre_cancelled"}
    BY <1>2, <1>4, <2>1, AcceptedAnswer DEF Ids
  <2>3. exec[id] \in Entries /\ (exec[id].phase = "forgotten" => exec[id] = Forgotten)
    BY <1>2 DEF TypeOK, QueryInv, FitsQuery
  <2>4. exec[id].phase \in TerminalStates \cup {"forgotten"}
    BY <2>2, <2>3, EntryFacts DEF AnswerTo, Entries, Phases, Live
  <2>5. PICK e : e = Cancelled(exec[id])
    OBVIOUS
  <2>6. e.phase \in TerminalStates
    <3>1. \/ exec[id].phase = "forgotten" /\ e.phase = "pre_cancelled"
          \/ exec[id].phase \in {"executing", "serializing"} /\ e.phase = "cancelling"
          \/ exec[id].phase \notin {"forgotten", "executing", "serializing"} /\ e = exec[id]
      BY <2>3, <2>5, CancelledFacts
    <3>. QED BY <2>4, <3>1 DEF TerminalStates
  <2>. QED BY <1>1, <1>2, <2>5, <2>6 DEF TypeOK
<1>. QED BY <1>1, <1>2, <1>3, <1>4, CancelKeeps

\* A call is begun under an id that was not used.
LEMMA BeginKeeps ==
    ASSUME RemoteInv, Begin
    PROVE  RemoteInv' /\ Calm
<1>. USE DEF RemoteInv
<1>. DEFINE new == Id(calls + 1, 1)
<1>1. /\ pc = "idle" /\ calls < MaxCalls /\ calls' = calls + 1 /\ pc' = "sent"
      /\ handle' = IF kind[calls + 1] = "sql" THEN "held" ELSE "none"
      /\ sent' = sent \cup {new}
      /\ exec' = [q \in Ids |-> IF Ended(q) /\ q \notin sent THEN Forgotten ELSE exec[q]]
      /\ answer' = "none"
      /\ kind' = kind /\ attempt' = attempt /\ report' = report /\ intent' = intent
      /\ effects' = effects /\ restarts' = restarts
  BY DEF Begin
<1>2. calls \in Nat /\ calls + 1 \in Calls /\ attempt = 1
  BY <1>1, RemoteAssumption DEF RemoteAssumption, TypeOK, ClientInv, Calls
<1>3. new \in Ids /\ new = 2 * calls + 1 /\ id' = new
  BY <1>1, <1>2, IdFacts DEF id
<1>4. Unused(new)
  BY <1>2, <1>3 DEF Unused
<1>5. new \notin sent /\ exec[new] = Forgotten /\ effects[new] = {}
  BY <1>3, <1>4 DEF UnusedInv
<1>. HIDE DEF new
<1>6. \A p \in Ids : exec'[p] = exec[p] \/ (Ended(p) /\ p \notin sent /\ exec'[p] = Forgotten)
  BY <1>1
<1>7. \A p \in Ids : p \in sent' <=> p \in sent \/ p = new
  BY <1>1
<1>8. TypeOK'
  <2>1. calls' \in 0..MaxCalls
    BY <1>1, <1>2 DEF Calls
  <2>2. exec' \in [Ids -> Entries]
    BY <1>1, EntryFacts DEF TypeOK
  <2>. QED BY <1>1, <1>2, <1>3, <2>1, <2>2 DEF TypeOK, Places
<1>9. ClientInv'
  BY <1>1, <1>2 DEF ClientInv, TypeOK
<1>10. \A p \in Ids : Unused(p)' => Unused(p) /\ p # new
  <2>1. \A p \in Ids : (p > 2 * calls' \/ p = 2 * calls') => p > 2 * calls /\ p # new
    BY <1>1, <1>2, <1>3 DEF Ids
  <2>2. \A c \in Calls : 2 * c # new
    BY <1>2, <1>3 DEF Calls
  <2>. QED BY <1>1, <2>1, <2>2 DEF Unused
<1>11. UnusedInv'
  BY <1>1, <1>6, <1>7, <1>10 DEF UnusedInv
<1>12. \A p \in Ids : /\ exec'[p].phase \in Live => exec'[p] = exec[p]
                      /\ exec[p].phase \in Live => exec'[p] = exec[p]
                      /\ p \in sent => exec'[p] = exec[p]
  BY <1>6, EntryFacts, Disjoint DEF Ended
<1>13. QueryInv'
  <2>1. ASSUME NEW p \in Ids PROVE FitsQuery(p)'
    <3>1. Length(p)' = Length(p) /\ (IsKeyed(p)' <=> IsKeyed(p))
      BY <1>1 DEF Length, IsKeyed
    <3>2. FitsQuery(p)
      BY DEF QueryInv
    <3>3. CASE exec'[p] = exec[p]
      BY <1>1, <1>5, <1>7, <3>1, <3>2, <3>3, EntryFacts DEF FitsQuery
    <3>4. CASE Ended(p) /\ p \notin sent /\ exec'[p] = Forgotten
      <4>1. p # new
        BY <1>5, <3>4, EntryFacts, Disjoint DEF Ended
      <4>. QED BY <1>7, <3>4, <4>1, EntryFacts, Disjoint DEF FitsQuery, Live
    <3>. QED BY <1>6, <3>3, <3>4
  <2>. QED BY <2>1 DEF QueryInv
<1>14. IntentInv'
  BY <1>1, <1>12 DEF IntentInv, IsKeyed
<1>15. NoRestartInv'
  <2>1. \A p \in Ids : exec'[p].phase = "pre_cancelled" => exec'[p] = exec[p]
    BY <1>6, EntryFacts
  <2>. QED BY <1>1, <1>3, <1>5, <2>1 DEF NoRestartInv
<1>16. Calm
  <2>1. ASSUME NEW p \in Ids, ~Unused(p)
        PROVE  (Quiet(p) => Quiet(p)') /\ (Settled(p) => Settled(p)')
    <3>1. p \in sent' <=> p \in sent
      BY <1>4, <1>7, <2>1
    <3>. QED BY <1>1, <1>12, <3>1 DEF Quiet, Settled
  <2>. QED BY <1>1, <1>10, <1>12, <2>1 DEF Calm
<1>17. ReportInv'
  <2>1. ASSUME NEW c \in Calls, c > calls' \/ (c = calls' /\ pc' # "idle")
        PROVE  report'[c] = NotTold
    BY <1>1, <1>2, <2>1 DEF ReportInv, Calls
  <2>. QED BY <1>1, <1>8, <1>16, <2>1, ReportsStay DEF ReportInv
<1>. QED BY <1>8, <1>9, <1>11, <1>13, <1>14, <1>15, <1>16, <1>17

\* The write is sent again under an id that was not used.
LEMMA ResendKeeps ==
    ASSUME RemoteInv, Resend, pc = "replay", UNCHANGED <<exec, intent, effects, restarts>>
    PROVE  RemoteInv' /\ Calm
<1>. USE DEF RemoteInv
<1>. DEFINE new == Id(calls, 2)
<1>1. /\ attempt = 1 /\ attempt' = 2 /\ pc' = "sent" /\ sent' = sent \cup {new}
      /\ kind' = kind /\ calls' = calls /\ handle' = handle /\ answer' = answer
      /\ report' = report
  BY DEF Resend
<1>2. calls \in Calls /\ calls \in Nat /\ Keyed /\ pc # "idle"
  BY CurrentId DEF ClientInv, TypeOK
<1>3. new \in Ids /\ new = 2 * calls /\ id' = new
  BY <1>1, <1>2, IdFacts DEF id
<1>4. Unused(new)
  BY <1>1, <1>2, <1>3 DEF Unused
<1>5. new \notin sent /\ exec[new] = Forgotten /\ effects[new] = {}
  BY <1>3, <1>4 DEF UnusedInv
<1>. HIDE DEF new
<1>6. \A p \in Ids : p \in sent' <=> p \in sent \/ p = new
  BY <1>1
<1>7. TypeOK'
  BY <1>1, <1>3 DEF TypeOK, Places
<1>8. ClientInv'
  BY <1>1, <1>2 DEF ClientInv, Keyed
<1>9. \A p \in Ids : Unused(p)' => Unused(p) /\ p # new
  <2>1. \A c \in Calls : 2 * c = new => kind[c] = "idempotent"
    BY <1>2, <1>3 DEF Calls, Keyed
  <2>. QED BY <1>1, <1>2, <1>3, <2>1 DEF Unused
<1>10. UnusedInv'
  BY <1>6, <1>9 DEF UnusedInv
<1>11. QueryInv'
  <2>1. ASSUME NEW p \in Ids PROVE FitsQuery(p)'
    <3>1. Length(p)' = Length(p) /\ (IsKeyed(p)' <=> IsKeyed(p))
      BY <1>1 DEF Length, IsKeyed
    <3>. QED BY <1>1, <1>5, <1>6, <3>1, EntryFacts DEF FitsQuery, QueryInv
  <2>. QED BY <2>1 DEF QueryInv
<1>12. IntentInv'
  BY <1>1 DEF IntentInv, IsKeyed
<1>13. NoRestartInv'
  BY <1>1, <1>3, <1>5 DEF NoRestartInv, Id
<1>14. Calm
  <2>1. ASSUME NEW p \in Ids, ~Unused(p)
        PROVE  (Quiet(p) => Quiet(p)') /\ (Settled(p) => Settled(p)')
    BY <1>4, <1>6, <2>1 DEF Quiet, Settled
  <2>. QED BY <1>1, <1>9, <2>1 DEF Calm
<1>15. ReportInv'
  <2>1. ASSUME NEW c \in Calls, c > calls' \/ (c = calls' /\ pc' # "idle")
        PROVE  report'[c] = NotTold
    BY <1>1, <1>2, <2>1 DEF ReportInv
  <2>. QED BY <1>1, <1>7, <1>14, <2>1, ReportsStay DEF ReportInv
<1>. QED BY <1>7, <1>8, <1>10, <1>11, <1>12, <1>13, <1>14, <1>15

-----------------------------------------------------------------------------
(* What the client is told is the truth.                                   *)

\* A durable outcome says that something committed exactly where it did.
LEMMA DurableFacts ==
    ASSUME NEW e, NEW C, NEW length, NEW d, d = DurableOf(e, C, length)
    PROVE  /\ e.code = "QUERY_OUTCOME_UNKNOWN" => d.committed = Null /\ d.stmts = None
           /\ e.code # "QUERY_OUTCOME_UNKNOWN" =>
                 /\ d.committed = IF C = {} THEN "no" ELSE "yes"
                 /\ d.stmts = Cardinality(C)
BY DEF DurableOf

\* A body is about what the server knows of the query; its two copies of the
\* outcome may be old, but then they report no commit.
SaysOf(d, C) == /\ d.committed \in {"yes", "no", Null}
                /\ d.committed = "yes" => C # {} /\ d.stmts = Cardinality(C)
                /\ d.committed = "no" => d.stmts \in Nat
                /\ d.committed = Null => d.stmts = None

\* What any body the client is handed says of the current query.
LEMMA BodyFacts ==
    ASSUME RemoteInv, pc # "idle", NEW b \in Bodies(id)
    PROVE  /\ b.state = exec[id].phase /\ b.code = exec[id].code
           /\ b.status = StatusName(exec[id], effects[Origin(id)])
           /\ SaysOf(b.top, effects[Origin(id)]) /\ SaysOf(b.outcome, effects[Origin(id)])
           /\ Origin(id) \in Ids
<1>. USE DEF RemoteInv
<1>. DEFINE C == effects[Origin(id)]
            e == exec[id]
            now == DurableOf(e, C, Length(id))
            old == DurableOf(Running("executing"), {}, Length(id))
<1>1. id \in Ids
  BY CurrentId
<1>2. Origin(id) \in Ids
  BY <1>1 DEF Origin, TypeOK, Entries
<1>3. IsFiniteSet(C) /\ Cardinality(C) \in Nat
  BY <1>2, EffectsAreFinite DEF TypeOK
<1>4. SaysOf(now, C)
  <2>1. Null # "yes" /\ Null # "no"
    BY DEF Null
  <2>. QED BY <1>3, <2>1, DurableFacts DEF SaysOf
<1>5. SaysOf(old, C)
  <2>1. /\ Running("executing").code = Null
        /\ Null # "QUERY_OUTCOME_UNKNOWN" /\ Null # "yes" /\ Null # "no"
    BY EntryFacts DEF Phases, Live, Null
  <2>2. Cardinality({}) \in Nat
    BY FS_EmptySet
  <2>. QED BY <2>1, <2>2, DurableFacts DEF SaysOf
<1>6. PICK full : full = Body(id, e, C)
  OBVIOUS
<1>7. PICK early : early = Earlier(id)
  OBVIOUS
<1>8. /\ full.state = e.phase /\ full.code = e.code /\ full.status = StatusName(e, C)
      /\ full.top = now /\ full.outcome = now
      /\ DOMAIN full = {"id", "state", "status", "terminal", "code", "reason", "cancel",
                        "retryable", "top", "outcome"}
      /\ full = [x \in DOMAIN full |-> full[x]]
  BY <1>6 DEF Body
<1>9. early.top = old /\ early.outcome = old
  BY <1>7 DEF Earlier, Body
<1>10. \/ b = full \/ b = [full EXCEPT !.outcome = old] \/ b = [full EXCEPT !.top = old]
       \/ b = [full EXCEPT !.top = old, !.outcome = old] \/ b = [full EXCEPT !.id = 0]
  BY <1>6, <1>7, <1>9 DEF Bodies
<1>. HIDE DEF now, old, C, e
<1>11. /\ b.state = e.phase /\ b.code = e.code /\ b.status = StatusName(e, C)
       /\ b.top \in {now, old} /\ b.outcome \in {now, old}
  BY <1>8, <1>10
<1>12. SaysOf(b.top, C) /\ SaysOf(b.outcome, C)
  BY <1>4, <1>5, <1>11
<1>. QED BY <1>2, <1>11, <1>12 DEF C, e

\* The status of a query that ended and committed something says so.
LEMMA EndedStatus ==
    ASSUME NEW e, NEW C, C # {}, e.phase \in TerminalStates, e.phase # "pre_cancelled"
    PROVE  StatusName(e, C) \in CommittedStatuses \cup {"outcome_unknown"}
BY DEF StatusName, TerminalStates, CommittedStatuses

\* A commit may be reported of the current query where its origin committed.
LEMMA YesHolds ==
    ASSUME RemoteInv, pc # "idle", effects[Origin(id)] # {},
           NEW told, told.about = id,
           told.stmts \in {None, Cardinality(effects[Origin(id)])},
           told.state \in {Null, exec[id].phase}
    PROVE  YesIsTrue(told)
<1>. USE DEF RemoteInv
<1>1. id \in Ids /\ FitsQuery(id) /\ exec[id] \in Entries
  BY CurrentId DEF QueryInv, TypeOK
<1>2. PICK p : p = Origin(id)
  OBVIOUS
<1>3. p \in Ids /\ effects[p] # {}
  BY <1>1, <1>2 DEF Origin, Entries
<1>4. IsFiniteSet(effects[p]) /\ Cardinality(effects[p]) \in Nat /\ Cardinality(effects[p]) >= 1
  BY <1>3, EffectsAreFinite DEF TypeOK
<1>5. told.stmts \in {None} \cup 1..Cardinality(effects[p])
  BY <1>2, <1>4
<1>6. told.stmts # None => told.stmts = Cardinality(effects[p])
  BY <1>2
<1>7. CASE exec[id].by = None
  <2>1. p = id
    BY <1>2, <1>7 DEF Origin
  <2>2. told.state \in TerminalStates => exec[p].phase \notin Live
    BY <2>1, Disjoint DEF TerminalStates, Null
  <2>. QED BY <1>3, <1>5, <1>6, <2>1, <2>2 DEF YesIsTrue
<1>8. CASE exec[id].by # None
  <2>1. p = intent.by /\ intent.state = "receipt" /\ IsKeyed(id)
    BY <1>1, <1>2, <1>8 DEF FitsQuery, Origin
  <2>2. IsKeyed(p) /\ exec[p].phase \notin Live
    BY <1>3, <2>1 DEF IntentInv
  <2>3. Owner(p) = Owner(told.about)
    BY <2>1, <2>2 DEF Owner, IsKeyed
  <2>. QED BY <1>3, <1>5, <1>6, <2>2, <2>3 DEF YesIsTrue
<1>. QED BY <1>7, <1>8

\* No commit may be reported of the current query once it ended without one.
LEMMA NoHolds ==
    ASSUME RemoteInv, pc # "idle", exec[id].phase \in TerminalStates,
           exec[id].phase # "pre_cancelled" => effects[Origin(id)] = {},
           NEW told, told.about = id, told.state = exec[id].phase
    PROVE  NoIsTrue(told)
<1>1. id \in Ids /\ FitsQuery(id)
  BY CurrentId DEF RemoteInv, QueryInv
<1>2. exec[id].phase \notin Live
  BY Disjoint
<1>3. exec[id].phase # "pre_cancelled" => effects[id] = {}
  BY <1>1 DEF Origin, FitsQuery
<1>4. exec[id].phase # "pre_cancelled" => id \notin sent
  BY <1>1, Disjoint DEF FitsQuery
<1>5. restarts = 0 => effects[id] = {}
  BY <1>1, <1>3 DEF RemoteInv, NoRestartInv
<1>. QED BY <1>2, <1>3, <1>4, <1>5 DEF NoIsTrue, Quiet, Settled

\* An answer that says nothing of a commit, or what the body b says of it.
FromBody(r, b) ==
    \/ r.committed = "unknown" /\ r.stmts = None /\ r.state = Null
    \/ /\ r.committed = b.top.committed /\ r.committed \in {"yes", "no"}
       /\ r.stmts \in {None, b.top.stmts} /\ r.state = b.state

\* An answer that says nothing of a commit is true.
LEMMA SilenceIsTruthful ==
    ASSUME NEW r, r.committed = "unknown", r.stmts = None, r.state = Null
    PROVE  Truthful(r)
BY DEF Truthful

\* What the silent answers say.
LEMMA SilentFacts ==
    ASSUME NEW k
    PROVE  /\ Silent(k).committed = "unknown" /\ Silent(k).stmts = None
           /\ Silent(k).state = Null
           /\ OutcomeUnknown.committed = "unknown" /\ OutcomeUnknown.stmts = None
           /\ OutcomeUnknown.state = Null
BY DEF Silent, OutcomeUnknown

\* An answer from a body is true where the body reports no commit only of a
\* query that ended without one.
LEMMA BodyIsTruthful ==
    ASSUME RemoteInv, pc # "idle", NEW b \in Bodies(id), NEW r, FromBody(r, b),
           b.top.committed = "no" =>
              /\ exec[id].phase \in TerminalStates
              /\ exec[id].phase # "pre_cancelled" => effects[Origin(id)] = {}
    PROVE  Truthful(r)
<1>1. CASE r.committed = "unknown" /\ r.stmts = None /\ r.state = Null
  BY <1>1, SilenceIsTruthful
<1>2. CASE /\ r.committed = b.top.committed /\ r.committed \in {"yes", "no"}
           /\ r.stmts \in {None, b.top.stmts} /\ r.state = b.state
  <2>1. /\ b.state = exec[id].phase /\ SaysOf(b.top, effects[Origin(id)])
        /\ Origin(id) \in Ids /\ id \in Ids
    BY BodyFacts, CurrentId DEF RemoteInv
  <2>2. Cardinality(effects[Origin(id)]) \in Nat
    BY <2>1, EffectsAreFinite DEF RemoteInv, TypeOK
  <2>3. r.state \in Phases
    BY <1>2, <2>1 DEF RemoteInv, TypeOK, Entries
  <2>4. r.stmts \in Nat \cup {None}
    BY <1>2, <2>1, <2>2 DEF SaysOf
  <2>5. PICK told : told = [committed |-> r.committed, stmts |-> r.stmts,
                            state |-> r.state, about |-> id]
    OBVIOUS
  <2>6. told.about = id /\ told.stmts = r.stmts /\ told.state = exec[id].phase
    BY <1>2, <2>1, <2>5
  <2>7. r.committed = "yes" => YesIsTrue(told)
    <3>1. r.committed = "yes" => effects[Origin(id)] # {}
                                 /\ told.stmts \in {None, Cardinality(effects[Origin(id)])}
      BY <1>2, <2>1, <2>6 DEF SaysOf
    <3>. QED BY <2>6, <3>1, YesHolds
  <2>8. r.committed = "no" => NoIsTrue(told)
    BY <1>2, <2>6, NoHolds
  <2>. QED BY <1>2, <2>3, <2>4, <2>5, <2>7, <2>8 DEF Truthful
<1>. QED BY <1>1, <1>2 DEF FromBody

\* What an answer that carries a body says.
LEMMA CarryingFacts ==
    ASSUME NEW k, NEW b
    PROVE  /\ Carrying(k, b).committed = b.top.committed
           /\ Carrying(k, b).stmts = b.top.stmts /\ Carrying(k, b).state = b.state
BY DEF Carrying

\* What recovery tells of a status comes from it, if its two copies of the
\* outcome agree.
LEMMA RecoveryAnswers ==
    ASSUME NEW b, b.top = b.outcome, b.top.committed \in {"yes", "no", Null}
    PROVE  FromBody(RecoveryError(b), b) /\ FromBody(SerializationError(b), b)
<1>1. DurableCommitState(b) = b.top.committed
  BY DEF DurableCommitState, Null
<1>2. \A k : FromBody(Silent(k), b) /\ FromBody(OutcomeUnknown, b)
  BY SilentFacts DEF FromBody
<1>3. \A k : b.top.committed # Null => FromBody(Carrying(k, b), b)
  BY CarryingFacts DEF FromBody
<1>4. StatusError(b) # NoError => FromBody(StatusError(b), b)
  BY <1>1, <1>2, <1>3 DEF StatusError
<1>. QED BY <1>1, <1>2, <1>3, <1>4 DEF RecoveryError, SerializationError

\* What an accepted envelope tells comes from it.
LEMMA EnvelopeAnswers ==
    ASSUME NEW b, ValidEnvelope(b, id), b.top.committed \in {"yes", "no", Null}
    PROVE  FromBody(EnvelopeError(b), b)
<1>1. \A k : FromBody(Silent(k), b) /\ FromBody(OutcomeUnknown, b)
  BY SilentFacts DEF FromBody
<1>2. \A k : b.top.committed # Null => FromBody(Carrying(k, b), b)
  BY CarryingFacts DEF FromBody
<1>3. b.top.committed = Null => b.code = "QUERY_OUTCOME_UNKNOWN"
  BY DEF ValidEnvelope
<1>4. "QUERY_OUTCOME_UNKNOWN" \notin CancelCodes \cup DeadlineCodes \cup SerializationCodes
  BY DEF CancelCodes, DeadlineCodes, SerializationCodes
<1>. QED BY <1>1, <1>2, <1>3, <1>4 DEF EnvelopeError

\* A status recovery accepts and an envelope that is accepted report no commit
\* only of a query that ended without one.
LEMMA StatusSaysNo ==
    ASSUME RemoteInv, pc # "idle", NEW b \in Bodies(id), ValidStatus(b, id),
           IsRecoveryDecisive(b), b.top.committed = "no"
    PROVE  /\ exec[id].phase \in TerminalStates
           /\ exec[id].phase # "pre_cancelled" => effects[Origin(id)] = {}
<1>1. /\ b.state = exec[id].phase /\ b.status = StatusName(exec[id], effects[Origin(id)])
  BY BodyFacts
<1>2. b.top = b.outcome /\ b.status \notin CommittedStatuses \cup {"outcome_unknown", "finished"}
  BY DEF ValidStatus, DurableFieldsAgree
<1>3. b.state \in TerminalStates
  BY <1>2 DEF IsRecoveryDecisive, IsTerminal, DurableCommitState
<1>. QED BY <1>1, <1>2, <1>3, EndedStatus

\* An accepted envelope reports no commit only of a query that ended without one.
LEMMA EnvelopeSaysNo ==
    ASSUME RemoteInv, pc # "idle", NEW b \in Bodies(id), ValidEnvelope(b, id),
           Ended(id), b.top.committed = "no"
    PROVE  /\ exec[id].phase \in TerminalStates
           /\ exec[id].phase # "pre_cancelled" => effects[Origin(id)] = {}
<1>1. /\ b.state = exec[id].phase /\ b.status = StatusName(exec[id], effects[Origin(id)])
  BY BodyFacts
<1>2. b.status \notin CommittedStatuses \cup {"outcome_unknown"}
  BY DEF ValidEnvelope, DurableFieldsAgree
<1>. QED BY <1>1, <1>2, EndedStatus DEF Ended

\* A receipt that reports no commit is of a query that completed without one.
LEMMA ReceiptSaysNo ==
    ASSUME RemoteInv, pc # "idle", NEW r, r.body \in Bodies(id), NEW expected,
           ValidReceipt(r, id, expected), Ended(id), r.body.top.committed = "no"
    PROVE  /\ exec[id].phase \in TerminalStates
           /\ exec[id].phase # "pre_cancelled" => effects[Origin(id)] = {}
<1>1. r.body.status = StatusName(exec[id], effects[Origin(id)])
  BY BodyFacts
<1>2. r.body.status = "completed"
  BY DEF ValidReceipt
<1>3. "completed" \notin CommittedStatuses \cup {"outcome_unknown"}
  BY DEF CommittedStatuses
<1>. QED BY <1>1, <1>2, <1>3, EndedStatus DEF Ended

\* The three ways a step of the call may go: it returns with the truth, it goes
\* on without the server, or it sends or cancels something.
Returns == UNCHANGED server /\ \E r : Truthful(r) /\ Tell(r)
GoesOn == /\ UNCHANGED server
          /\ UNCHANGED <<kind, calls, attempt, handle, answer, report>>
          /\ pc' \in Places \ {"idle"}
          /\ pc' \in {"loss", "replay"} => Keyed
          /\ pc' = "refresh" => effects[id] # {}
Proceeds == Returns \/ GoesOn \/ CancelForRecovery
            \/ (pc = "replay" /\ Resend /\ UNCHANGED <<exec, intent, effects, restarts>>)

\* A call that goes to another place goes on.
LEMMA GoToGoesOn ==
    ASSUME UNCHANGED server, NEW p \in Places \ {"idle", "refresh"}, NEW why, GoTo(p, why),
           p \in {"loss", "replay"} => Keyed
    PROVE  Proceeds
BY DEF GoTo, Proceeds, GoesOn

\* A call that tells a truth returns.
LEMMA TellReturns ==
    ASSUME UNCHANGED server, NEW r, Truthful(r), Tell(r)
    PROVE  Proceeds
BY DEF Proceeds, Returns

\* A call may always return without a word of the commit.
LEMMA SilentReturns ==
    ASSUME UNCHANGED server, NEW k, Tell(Silent(k)) \/ Tell(OutcomeUnknown)
    PROVE  Proceeds
<1>1. Truthful(Silent(k)) /\ Truthful(OutcomeUnknown)
  BY SilentFacts, SilenceIsTruthful
<1>. QED BY <1>1 DEF Proceeds, Returns

\* The answers of the server.
LEMMA AnswersProceed ==
    ASSUME RemoteInv, TransportLoss \/ ReceiveRows \/ ReceiveReceipt \/ ReceiveError
    PROVE  Proceeds
<1>1. {"loss", "recover"} \subseteq Places \ {"idle", "refresh"}
  BY DEF Places
<1>2. CASE TransportLoss
  <2>1. UNCHANGED server
    BY <1>2 DEF TransportLoss
  <2>2. \/ Tell(Silent("Storage")) \/ Tell(OutcomeUnknown)
        \/ (Keyed /\ GoTo("loss", "transport")) \/ GoTo("recover", "transport")
    BY <1>2 DEF TransportLoss
  <2>. QED BY <1>1, <2>1, <2>2, SilentReturns, GoToGoesOn
<1>3. CASE ReceiveRows
  <2>1. UNCHANGED server /\ (Tell(Silent("rows")) \/ \E why : GoTo("recover", why))
    BY <1>3 DEF ReceiveRows
  <2>. QED BY <1>1, <2>1, SilentReturns, GoToGoesOn
<1>4. CASE ReceiveReceipt
  <2>1. UNCHANGED server /\ pc # "idle" /\ Ended(id) /\ Keyed
    BY <1>4 DEF ReceiveReceipt, Answered
  <2>2. PICK r \in Receipts, header \in BOOLEAN :
            CASE ValidReceipt(r, id, Expected) /\ header -> Tell(Carrying("receipt", r.body))
              [] ValidReceipt(r, id, Expected) /\ ~header /\ r.body.top.committed = "yes" ->
                    Tell(Carrying("CommitOutcome", r.body))
              [] OTHER -> GoTo("loss", "reading")
    BY <1>4 DEF ReceiveReceipt
  <2>3. \/ /\ ValidReceipt(r, id, Expected)
           /\ \E k : Tell(Carrying(k, r.body))
        \/ GoTo("loss", "reading")
    BY <2>2
  <2>4. ASSUME ValidReceipt(r, id, Expected), NEW k, Tell(Carrying(k, r.body))
        PROVE  Proceeds
    <3>1. r.body \in Bodies(id)
      BY DEF Receipts
    <3>2. r.body.top.committed \in {"yes", "no"}
      BY <2>4 DEF ValidReceipt
    <3>3. PICK x : x = Carrying(k, r.body)
      OBVIOUS
    <3>4. FromBody(x, r.body)
      BY <3>2, <3>3, CarryingFacts DEF FromBody
    <3>5. Truthful(x)
      BY <2>1, <2>4, <3>1, <3>4, BodyIsTruthful, ReceiptSaysNo
    <3>. QED BY <2>1, <2>4, <3>3, <3>5, TellReturns
  <2>. QED BY <1>1, <2>1, <2>3, <2>4, GoToGoesOn
<1>5. CASE ReceiveError
  <2>1. UNCHANGED server /\ pc # "idle" /\ Ended(id)
    BY <1>5 DEF ReceiveError, Answered
  <2>2. PICK b \in Bodies(id) : IF ValidEnvelope(b, id) THEN Tell(EnvelopeError(b))
                               ELSE GoTo("recover", "transport")
    BY <1>5 DEF ReceiveError
  <2>3. CASE ValidEnvelope(b, id) /\ Tell(EnvelopeError(b))
    <3>1. b.top.committed \in {"yes", "no", Null}
      BY <2>1, BodyFacts DEF SaysOf
    <3>2. PICK x : x = EnvelopeError(b)
      OBVIOUS
    <3>3. FromBody(x, b)
      BY <2>3, <3>1, <3>2, EnvelopeAnswers
    <3>4. Truthful(x)
      BY <2>1, <2>3, <3>3, BodyIsTruthful, EnvelopeSaysNo
    <3>. QED BY <2>1, <2>3, <3>2, <3>4, TellReturns
  <2>. QED BY <1>1, <2>1, <2>2, <2>3, GoToGoesOn
<1>. QED BY <1>2, <1>3, <1>4, <1>5

\* The answers to a batch and to a change of the schema.
LEMMA WritesProceed ==
    ASSUME RemoteInv, ReceiveBatch \/ ReceiveDdl \/ Refresh
    PROVE  Proceeds
<1>1. ASSUME pc # "idle", effects[id] # {}, NEW r, r.committed = "yes", r.stmts = None,
             r.state = Null
      PROVE  Truthful(r)
  <2>1. id \in Ids /\ FitsQuery(id)
    BY <1>1, CurrentId DEF RemoteInv, QueryInv
  <2>2. Origin(id) = id
    BY <1>1, <2>1 DEF FitsQuery, Origin
  <2>. QED BY <1>1, <2>2, YesHolds DEF Truthful
<1>2. ASSUME pc # "idle", kind[calls] \in {"batch", "ddl"}, Succeeded
      PROVE  /\ effects[id] # {} /\ exec[id].code = Null /\ Origin(id) = id
             /\ exec[id].phase = "completed"
  <2>1. id \in Ids /\ FitsQuery(id) /\ CallOf(id) = calls
    BY <1>2, CurrentId DEF RemoteInv, QueryInv
  <2>2. exec[id].phase = "completed"
    BY <1>2 DEF Succeeded, Keyed
  <2>. QED BY <1>2, <2>1, <2>2 DEF FitsQuery, Origin
<1>3. CASE ReceiveBatch
  <2>1. UNCHANGED server /\ pc # "idle" /\ kind[calls] \in {"batch", "ddl"} /\ Ended(id)
    BY <1>3 DEF ReceiveBatch, Answered
  <2>2. PICK b : b = Body(id, exec[id], effects[id])
    OBVIOUS
  <2>3. \/ Succeeded /\ Tell(Carrying("batch", b))
        \/ Succeeded /\ Tell([Carrying("CommitOutcome", b) EXCEPT !.stmts = None])
        \/ Tell(OutcomeUnknown)
        \/ \E x \in BatchErrors : Tell(BatchError(x))
    BY <1>3, <2>2 DEF ReceiveBatch
  <2>4. ASSUME Succeeded
        PROVE  /\ Truthful(Carrying("batch", b))
               /\ Truthful([Carrying("CommitOutcome", b) EXCEPT !.stmts = None])
    <3>1. effects[id] # {} /\ exec[id].code = Null /\ Origin(id) = id
      BY <1>2, <2>1, <2>4
    <3>2. b \in Bodies(id)
      BY <2>2, <3>1 DEF Bodies
    <3>3. b.top.committed = "yes"
      <4>1. b.top = DurableOf(exec[id], effects[id], Length(id))
        BY <2>2 DEF Body
      <4>2. Null # "QUERY_OUTCOME_UNKNOWN"
        BY DEF Null
      <4>. QED BY <3>1, <4>1, <4>2, DurableFacts
    <3>4. FromBody(Carrying("batch", b), b)
      BY <3>3, CarryingFacts DEF FromBody
    <3>5. FromBody([Carrying("CommitOutcome", b) EXCEPT !.stmts = None], b)
      BY <3>3 DEF FromBody, Carrying
    <3>6. b.top.committed # "no"
      BY <3>3
    <3>. QED BY <2>1, <3>2, <3>4, <3>5, <3>6, BodyIsTruthful
  <2>5. ASSUME NEW x \in BatchErrors PROVE Truthful(BatchError(x))
    <3>1. CASE ~ValidBatchError(x) \/ x.status = "outcome_unknown"
      BY <3>1, SilentFacts, SilenceIsTruthful DEF BatchError
    <3>2. CASE ValidBatchError(x) /\ x.status = "aborted"
      BY <3>2, SilentFacts, SilenceIsTruthful DEF BatchError
    <3>3. CASE ValidBatchError(x) /\ x.status \notin {"outcome_unknown", "aborted"}
      <4>1. x.status = "committed"
        BY <3>3 DEF ValidBatchError
      <4>2. Succeeded
        BY <4>1 DEF BatchErrors
      <4>3. PICK r : r = BatchError(x)
        OBVIOUS
      <4>4. r.committed = "yes" /\ r.stmts = None /\ r.state = Null
        BY <3>3, <4>3 DEF BatchError, Silent
      <4>. QED BY <1>1, <1>2, <2>1, <4>2, <4>3, <4>4
    <3>. QED BY <3>1, <3>2, <3>3
  <2>. QED BY <2>1, <2>3, <2>4, <2>5, SilentReturns, TellReturns
<1>4. CASE ReceiveDdl
  <2>1. UNCHANGED server /\ pc # "idle" /\ kind[calls] \in {"batch", "ddl"}
    BY <1>4 DEF ReceiveDdl, Answered
  <2>2. \/ Tell(OutcomeUnknown) \/ Tell(Silent("Storage"))
        \/ Succeeded /\ GoTo("refresh", "none")
    BY <1>4 DEF ReceiveDdl
  <2>3. ASSUME Succeeded, GoTo("refresh", "none") PROVE Proceeds
    BY <1>2, <2>1, <2>3 DEF GoTo, Proceeds, GoesOn, Places
  <2>. QED BY <2>1, <2>2, <2>3, SilentReturns
<1>5. CASE Refresh
  <2>1. UNCHANGED server /\ pc # "idle" /\ effects[id] # {}
    BY <1>5 DEF Refresh, RemoteInv, ClientInv
  <2>2. PICK r : r = [Silent("CommitOutcome") EXCEPT !.committed = "yes"]
    OBVIOUS
  <2>3. r.committed = "yes" /\ r.stmts = None /\ r.state = Null
    BY <2>2 DEF Silent
  <2>4. Tell(Silent("ddl")) \/ Tell(r)
    BY <1>5, <2>2 DEF Refresh
  <2>. QED BY <1>1, <2>1, <2>3, <2>4, SilentReturns, TellReturns
<1>. QED BY <1>3, <1>4, <1>5

\* Recovery decides by a status that is decisive, and otherwise goes on.
LEMMA DecideReturns ==
    ASSUME RemoteInv, pc # "idle", UNCHANGED server, NEW b \in Bodies(id),
           ValidStatus(b, id), IsRecoveryDecisive(b), Decide(b)
    PROVE  Proceeds
<1>1. b.top = b.outcome /\ b.top.committed \in {"yes", "no", Null}
  BY BodyFacts DEF ValidStatus, SaysOf
<1>2. \A r : FromBody(r, b) => Truthful(r)
  BY BodyIsTruthful, StatusSaysNo
<1>3. Truthful(RecoveryError(b)) /\ Truthful(SerializationError(b))
  BY <1>1, <1>2, RecoveryAnswers
<1>. QED BY <1>3, TellReturns DEF Decide

\* The first status of a recovery decides it, or leads to the cancel.
LEMMA FollowProceeds ==
    ASSUME RemoteInv, pc # "idle", UNCHANGED server, NEW s \in Found \cup
              {b \in Bodies(id) : ValidStatus(b, id)}, Follow(s)
    PROVE  Proceeds
<1>1. CASE Decisive(s)
  <2>1. s \in Bodies(id) /\ ValidStatus(s, id) /\ IsRecoveryDecisive(s)
    BY <1>1 DEF Decisive, Found
  <2>. QED BY <1>1, <2>1, DecideReturns DEF Follow
<1>2. CASE ~Decisive(s)
  BY <1>2, GoToGoesOn DEF Follow, Places
<1>. QED BY <1>1, <1>2

\* The steps of recovery and of the replay.
LEMMA RecoveryProceeds ==
    ASSUME RemoteInv, StatusAfterLoss \/ Replay \/ Recover \/ CancelForRecovery \/ Poll \/ Expire
    PROVE  Proceeds
<1>1. {"recover", "replay"} \subseteq Places \ {"idle", "refresh"}
  BY DEF Places
<1>2. CASE StatusAfterLoss
  <2>1. UNCHANGED server /\ pc # "idle" /\ Keyed
    BY <1>2 DEF StatusAfterLoss, RemoteInv, ClientInv
  <2>2. \/ GoTo("recover", failure) \/ GoTo("replay", failure) \/ Tell(OutcomeUnknown)
        \/ \E b \in Bodies(id) : ValidStatus(b, id) /\ Follow(b)
    BY <1>2 DEF StatusAfterLoss
  <2>. QED BY <1>1, <2>1, <2>2, SilentReturns, GoToGoesOn, FollowProceeds
<1>3. CASE Replay
  <2>1. pc = "replay" /\ UNCHANGED <<exec, intent, effects, restarts>>
    BY <1>3 DEF Replay
  <2>2. \/ Resend
        \/ UNCHANGED server /\ (Tell(Silent("CapabilityUnsupported")) \/ Tell(OutcomeUnknown))
    BY <1>3 DEF Replay, server
  <2>3. CASE Resend
    BY <2>1, <2>3 DEF Proceeds
  <2>. QED BY <2>2, <2>3, SilentReturns
<1>4. CASE Recover
  <2>1. UNCHANGED server /\ pc # "idle" /\ \E s \in Found : Follow(s)
    BY <1>4 DEF Recover
  <2>. QED BY <2>1, FollowProceeds
<1>5. CASE CancelForRecovery
  BY <1>5 DEF Proceeds
<1>6. CASE Poll
  <2>1. UNCHANGED server /\ pc = "poll"
    BY <1>6 DEF Poll
  <2>2. PICK s \in Found : IF Decisive(s) THEN Decide(s)
                          ELSE /\ polls' = polls + 1
                               /\ UNCHANGED <<kind, calls, attempt, pc, failure, handle,
                                               answer, report>>
    BY <1>6 DEF Poll
  <2>3. CASE Decisive(s)
    <3>1. s \in Bodies(id) /\ ValidStatus(s, id) /\ IsRecoveryDecisive(s)
      BY <2>3 DEF Decisive, Found
    <3>. QED BY <2>1, <2>2, <2>3, <3>1, DecideReturns
  <2>4. CASE ~Decisive(s)
    BY <2>1, <2>2, <2>4 DEF Proceeds, GoesOn, Places
  <2>. QED BY <2>3, <2>4
<1>7. CASE Expire
  <2>1. RecoveryError(NoStatus) = OutcomeUnknown /\ SerializationError(NoStatus) = OutcomeUnknown
    BY DEF RecoveryError, SerializationError
  <2>. QED BY <1>7, <2>1, SilentReturns DEF Expire, Decide
<1>. QED BY <1>2, <1>3, <1>4, <1>5, <1>6, <1>7

\* Every step of the call is of one of these kinds.
LEMMA CallStepProceeds ==
    ASSUME RemoteInv, CallStep
    PROVE  Proceeds
BY AnswersProceed, WritesProceed, RecoveryProceeds DEF CallStep

-----------------------------------------------------------------------------
(* The theorems.                                                           *)

\* Every step of the server keeps the invariant.
LEMMA ServerStepKeeps ==
    ASSUME RemoteInv, ServerStep
    PROVE  RemoteInv' /\ Calm
BY ArriveKeeps, FenceKeeps, CommitKeeps, ReadKeeps, EndKeeps, RestartKeeps DEF ServerStep

\* Every step of the call keeps the invariant.
LEMMA CallStepKeeps ==
    ASSUME RemoteInv, CallStep
    PROVE  RemoteInv' /\ Calm
<1>1. Proceeds
  BY CallStepProceeds
<1>2. pc # "idle"
  BY DEF CallStep, TransportLoss, ReceiveRows, ReceiveReceipt, ReceiveError, ReceiveBatch,
         ReceiveDdl, Refresh, StatusAfterLoss, Replay, Recover, CancelForRecovery, Poll,
         Expire, Answered
<1>3. CASE Returns
  BY <1>2, <1>3, TellKeeps DEF Returns
<1>4. CASE GoesOn
  BY <1>2, <1>4, GoingOnKeeps DEF GoesOn
<1>5. CASE pc = "replay" /\ Resend /\ UNCHANGED <<exec, intent, effects, restarts>>
  BY <1>5, ResendKeeps
<1>. QED BY <1>1, <1>3, <1>4, <1>5, CancelForRecoveryKeeps DEF Proceeds

\* A step that changes nothing keeps the invariant.
LEMMA StutterKeeps ==
    ASSUME RemoteInv, UNCHANGED vars
    PROVE  RemoteInv' /\ Calm
<1>. USE DEF RemoteInv
<1>1. /\ UNCHANGED server /\ kind' = kind /\ calls' = calls /\ attempt' = attempt /\ pc' = pc
      /\ handle' = handle /\ answer' = answer /\ report' = report
      /\ exec' = exec /\ sent' = sent /\ intent' = intent /\ effects' = effects
      /\ restarts' = restarts
  BY DEF vars, client, server
<1>2. id' = id /\ (Keyed' <=> Keyed) /\ \A p : Unused(p)' <=> Unused(p)
  BY <1>1 DEF id, Keyed, Unused
<1>3. TypeOK' /\ ClientInv' /\ NoRestartInv'
  BY <1>1, <1>2 DEF TypeOK, ClientInv, NoRestartInv, Id
<1>4. UnusedInv' /\ QueryInv' /\ IntentInv' /\ Calm
  BY <1>1, <1>2, ServerStays
<1>5. ReportInv'
  <2>1. ASSUME NEW c \in Calls, c > calls' \/ (c = calls' /\ pc' # "idle")
        PROVE  report'[c] = NotTold
    BY <1>1, <2>1 DEF ReportInv
  <2>. QED BY <1>1, <1>3, <1>4, <2>1, ReportsStay DEF ReportInv
<1>. QED BY <1>3, <1>4, <1>5

\* Every step of client and server keeps the invariant, and is calm.
THEOREM InvIsKept == RemoteInv /\ [Next]_vars => RemoteInv' /\ Calm
<1>. SUFFICES ASSUME RemoteInv, [Next]_vars PROVE RemoteInv' /\ Calm
  OBVIOUS
<1>1. CASE Begin
  BY <1>1, BeginKeeps
<1>2. CASE CallStep
  BY <1>2, CallStepKeeps
<1>3. CASE CancelByHandle
  BY <1>3, CancelByHandleKeeps
<1>4. CASE DropHandle
  BY <1>4, DropHandleKeeps
<1>5. CASE ServerStep
  BY <1>5, ServerStepKeeps
<1>6. CASE UNCHANGED vars
  BY <1>6, StutterKeeps
<1>. QED BY <1>1, <1>2, <1>3, <1>4, <1>5, <1>6 DEF Next

\* The invariant holds in every state that can be reached.
THEOREM RemoteIsInvariant == Spec => []RemoteInv
<1>1. RemoteInv /\ [Next]_vars => RemoteInv'
  BY InvIsKept
<1>. QED BY InvInitially, <1>1, PTL DEF Spec

\* Of the queries one call or one key stands for, only one ever runs.
LEMMA OneRuns ==
    ASSUME RemoteInv, NEW p \in Ids, NEW q \in Ids, Owner(p) = Owner(q),
           effects[p] # {} \/ exec[p].phase \in Live,
           effects[q] # {} \/ exec[q].phase \in Live
    PROVE  p = q
<1>. USE DEF RemoteInv
<1>1. ~Unused(p) /\ ~Unused(q)
  BY EntryFacts, Disjoint DEF UnusedInv
<1>2. CallOf(p) \in Calls /\ CallOf(q) \in Calls /\ Key \notin Calls
  BY CallOfIds DEF Calls, Key
<1>3. CASE IsKeyed(p)
  <2>1. IsKeyed(q)
    BY <1>2, <1>3 DEF Owner, IsKeyed
  <2>. QED BY <1>3, <2>1 DEF IntentInv
<1>4. CASE ~IsKeyed(p)
  <2>1. ~IsKeyed(q) /\ CallOf(p) = CallOf(q)
    BY <1>2, <1>4 DEF Owner, IsKeyed
  <2>2. p # 2 * CallOf(p) /\ q # 2 * CallOf(q)
    BY <1>1, <1>2, <1>4, <2>1 DEF Unused, IsKeyed
  <2>. QED BY <2>1, <2>2, CallOfIds
<1>. QED BY <1>3, <1>4

\* What committed for a call or a key is what one query committed.
LEMMA CommittedByOne ==
    ASSUME RemoteInv, NEW p \in Ids, NEW about, Owner(p) = Owner(about), effects[p] # {}
    PROVE  Committed(about) = effects[p]
<1>1. \A q \in Ids : Owner(q) = Owner(about) /\ effects[q] # {} => q = p
  BY OneRuns
<1>. QED BY <1>1 DEF Committed

-----------------------------------------------------------------------------
(* Which request a report is about.                                        *)

\* A call that reports no commit was replayed, and reports its second request; or
\* it was not, and its second request was never sent and never will be.
Unsent(c) == \/ kind[c] # "idempotent"
             \/ ~Unused(Id(c, 2)) /\ Quiet(Id(c, 2))
AboutInv == \A c \in Calls : report[c].committed = "no" =>
    \/ report[c].about = Id(c, 2)
    \/ report[c].about = Id(c, 1) /\ Unsent(c)

\* A request that was not sent is not sent later.
LEMMA UnsentStays ==
    ASSUME Calm, NEW c \in Calls, Unsent(c)
    PROVE  Unsent(c)'
<1>1. Id(c, 2) \in Ids /\ Id(c, 2)' = Id(c, 2)
  BY IdFacts DEF Id
<1>. QED BY <1>1 DEF Unsent, Calm

\* A call that returns after its first request did not send another.
LEMMA TellIsAbout ==
    ASSUME RemoteInv, RemoteInv', AboutInv, Calm, pc # "idle", UNCHANGED server, NEW r, Tell(r)
    PROVE  AboutInv'
<1>. USE DEF RemoteInv
<1>1. calls \in Calls /\ calls \in Nat /\ id \in Ids
  BY CurrentId, RemoteAssumption DEF RemoteAssumption, Calls
<1>2. /\ kind' = kind /\ calls' = calls /\ pc' = "idle"
      /\ exec' = exec /\ sent' = sent /\ effects' = effects
      /\ report' = [report EXCEPT ![calls] = [committed |-> r.committed, stmts |-> r.stmts,
                                              state |-> r.state, about |-> id]]
  BY DEF Tell, server
<1>3. report'[calls].about = id
  BY <1>1, <1>2 DEF TypeOK
<1>4. ASSUME NEW c \in Calls, c = calls, attempt = 1
      PROVE  id = Id(c, 1) /\ Unsent(c)'
  <2>1. id = Id(c, 1) /\ Id(c, 2) = 2 * c /\ Id(c, 2)' = 2 * c /\ 2 * c \in Ids
    BY <1>4, IdFacts DEF id, Id
  <2>2. ASSUME kind[c] = "idempotent"
        PROVE  ~Unused(2 * c)' /\ Quiet(2 * c)'
    <3>1. Unused(2 * c)
      BY <1>4 DEF Unused
    <3>2. Quiet(2 * c)'
      BY <1>2, <2>1, <3>1, EntryFacts, Disjoint DEF UnusedInv, Quiet
    <3>3. \A d \in Calls : 2 * c = 2 * d => d = c
      BY <1>1, RemoteAssumption DEF RemoteAssumption, Calls
    <3>4. ~Unused(2 * c)'
      BY <1>1, <1>2, <1>4, <2>2, <3>3 DEF Unused
    <3>. QED BY <3>2, <3>4
  <2>. QED BY <1>2, <2>1, <2>2 DEF Unsent
<1>5. attempt # 1 => id = Id(calls, 2)
  BY DEF TypeOK, id
<1>6. ASSUME NEW c \in Calls, report'[c].committed = "no"
      PROVE  \/ report'[c].about = Id(c, 2)
             \/ report'[c].about = Id(c, 1) /\ Unsent(c)'
  <2>1. CASE c = calls
    BY <1>2, <1>3, <1>4, <1>5, <2>1
  <2>2. CASE c # calls
    BY <1>2, <1>6, <2>2, UnsentStays DEF AboutInv, TypeOK
  <2>. QED BY <2>1, <2>2
<1>. QED BY <1>6 DEF AboutInv, Id

\* Only an answer to a call makes a report.
LEMMA AboutKept ==
    ASSUME RemoteInv, AboutInv, [Next]_vars
    PROVE  AboutInv'
<1>1. RemoteInv' /\ Calm
  BY InvIsKept
<1>2. ASSUME report' = report
      PROVE  AboutInv'
  BY <1>1, <1>2, UnsentStays DEF AboutInv, Id
<1>3. CASE CallStep
  <2>1. Proceeds
    BY <1>3, CallStepProceeds
  <2>2. CASE Returns
    <3>1. pc # "idle"
      BY <1>3 DEF CallStep, TransportLoss, ReceiveRows, ReceiveReceipt, ReceiveError,
                  ReceiveBatch, ReceiveDdl, Refresh, StatusAfterLoss, Replay, Recover,
                  CancelForRecovery, Poll, Expire, Answered
    <3>. QED BY <1>1, <2>2, <3>1, TellIsAbout DEF Returns
  <2>3. CASE ~Returns
    BY <1>2, <2>1, <2>3 DEF Proceeds, GoesOn, Resend, CancelForRecovery, GoTo
  <2>. QED BY <2>2, <2>3
<1>4. CASE Begin \/ CancelByHandle \/ DropHandle \/ UNCHANGED vars
  BY <1>2, <1>4 DEF Begin, CancelByHandle, DropHandle, vars, client
<1>5. CASE ServerStep
  BY <1>2, <1>5 DEF ServerStep, Arrive, Fence, Commit, Read, Complete, Fail, Stop, Deadline,
                    Restart, Conclude, client
<1>. QED BY <1>3, <1>4, <1>5 DEF Next

LEMMA AboutIsInvariant == Spec => []AboutInv
<1>1. Init => AboutInv
  BY DEF Init, AboutInv, NotTold
<1>. QED BY <1>1, AboutKept, RemoteIsInvariant, PTL DEF Spec

\* ReportsAreTrue: whatever a caller was told of a commit is the truth, at once
\* and through everything the server, late requests and later calls do; and where
\* none is reported, no request of the call ever commits, unless the server was
\* restarted and answered that the query never started, or the report is about the
\* replay of an idempotent write and its first request was late.
THEOREM CallersAreToldTheTruth == Spec => []ReportsAreTrue
<1>1. RemoteInv /\ AboutInv => ReportsAreTrue
  <2>. SUFFICES ASSUME RemoteInv, AboutInv, NEW c \in Calls
                PROVE  LET r == report[c] IN
                       /\ r.committed = "yes" =>
                             /\ Committed(r.about) # {}
                             /\ r.stmts \in {None} \cup 1..Cardinality(Committed(r.about))
                             /\ r.stmts # None /\ r.state \in TerminalStates =>
                                   r.stmts = Cardinality(Committed(r.about))
                       /\ r.committed = "no" =>
                             \/ effects[Id(c, 1)] = {} /\ effects[Id(c, 2)] = {}
                             \/ restarts > 0 /\ r.state = "pre_cancelled"
                             \/ r.about = Id(c, 2) /\ effects[Id(c, 2)] = {}
    BY DEF ReportsAreTrue
  <2>1. PICK r : r = report[c]
    OBVIOUS
  <2>2. ASSUME r.committed = "yes"
        PROVE  /\ Committed(r.about) # {}
               /\ r.stmts \in {None} \cup 1..Cardinality(Committed(r.about))
               /\ r.stmts # None /\ r.state \in TerminalStates =>
                     r.stmts = Cardinality(Committed(r.about))
    <3>1. YesIsTrue(r)
      BY <2>1, <2>2 DEF RemoteInv, ReportInv
    <3>2. PICK p \in Ids : /\ Owner(p) = Owner(r.about)
                           /\ effects[p] # {}
                           /\ r.stmts \in {None} \cup 1..Cardinality(effects[p])
                           /\ r.stmts # None /\ r.state \in TerminalStates =>
                                 exec[p].phase \notin Live /\ r.stmts = Cardinality(effects[p])
      BY <3>1 DEF YesIsTrue
    <3>3. Committed(r.about) = effects[p]
      BY <3>2, CommittedByOne
    <3>. QED BY <3>2, <3>3
  <2>3. ASSUME r.committed = "no"
        PROVE  \/ effects[Id(c, 1)] = {} /\ effects[Id(c, 2)] = {}
               \/ restarts > 0 /\ r.state = "pre_cancelled"
               \/ r.about = Id(c, 2) /\ effects[Id(c, 2)] = {}
    <3>1. NoIsTrue(r) /\ restarts \in Nat
      BY <2>1, <2>3 DEF RemoteInv, ReportInv, TypeOK
    <3>2. effects[r.about] = {} \/ (restarts > 0 /\ r.state = "pre_cancelled")
      BY <3>1 DEF NoIsTrue, Quiet, Settled
    <3>3. r.about = Id(c, 2) \/ (r.about = Id(c, 1) /\ Unsent(c))
      BY <2>1, <2>3 DEF AboutInv
    <3>4. Unsent(c) => effects[Id(c, 2)] = {}
      <4>1. Id(c, 2) = 2 * c /\ Id(c, 2) \in Ids
        BY IdFacts
      <4>2. kind[c] # "idempotent" => Unused(Id(c, 2))
        BY <4>1 DEF Unused
      <4>. QED BY <4>1, <4>2 DEF Unsent, Quiet, RemoteInv, UnusedInv
    <3>. QED BY <3>2, <3>3, <3>4
  <2>. QED BY <2>1, <2>2, <2>3
<1>. QED BY <1>1, RemoteIsInvariant, AboutIsInvariant, PTL

\* CancelledStaysCancelled: a caller whose cancellation was answered that the
\* statement has finished or will not start sees no effect of it afterwards,
\* until the server restarts.
THEOREM CancelledNeverCommits == Spec => CancelledStaysCancelled
<1>1. RemoteInv /\ [Next]_vars =>
          \A c \in Calls : (/\ answer \in {"already_finished", "pre_cancelled"}
                            /\ c = calls /\ restarts = 0)
                           => effects'[Id(c, 1)] = effects[Id(c, 1)]
  <2>. SUFFICES ASSUME RemoteInv, [Next]_vars, NEW c \in Calls, c = calls, restarts = 0,
                       answer \in {"already_finished", "pre_cancelled"}
                PROVE  effects'[Id(c, 1)] = effects[Id(c, 1)]
    OBVIOUS
  <2>1. Id(c, 1) \in Ids
    BY IdFacts
  <2>2. exec[Id(c, 1)].phase \notin Live
    BY Disjoint DEF RemoteInv, NoRestartInv
  <2>. QED BY <2>1, <2>2, InvIsKept DEF Calm
<1>. QED BY <1>1, RemoteIsInvariant, PTL DEF Spec, CancelledStaysCancelled

-----------------------------------------------------------------------------
(* The refinement.                                                         *)

Doers(w) == {q \in Ids : Owner(q) = w[1] /\ w[2] \in effects[q]}

\* A piece of work was done by one query or by none.
LEMMA DoneOnce ==
    ASSUME RemoteInv, NEW w \in Work
    PROVE  /\ Effects[w] \in {0, 1}
           /\ Effects[w] = 0 <=> Doers(w) = {}
<1>1. Effects[w] = Cardinality(Doers(w))
  BY DEF Effects, Doers
<1>2. CASE Doers(w) = {}
  BY <1>1, <1>2, FS_EmptySet
<1>3. CASE Doers(w) # {}
  <2>1. PICK q : q \in Doers(w)
    BY <1>3
  <2>2. \A p \in Doers(w) : p = q
    BY <2>1, OneRuns DEF Doers
  <2>3. Doers(w) = {q}
    BY <2>1, <2>2
  <2>4. Cardinality({q}) = 1
    BY FS_Singleton
  <2>. QED BY <1>1, <1>3, <2>3, <2>4
<1>. QED BY <1>2, <1>3

\* At first nothing took effect and nobody was told of anything.
LEMMA PromiseInitially == Init => Promise!Init
<1>. SUFFICES ASSUME Init PROVE Promise!Init
  OBVIOUS
<1>1. ASSUME NEW w \in Work PROVE Effects[w] = 0
  <2>1. Effects[w] = Cardinality(Doers(w)) /\ Doers(w) = {}
    BY DEF Effects, Doers, Init
  <2>. QED BY <2>1, FS_EmptySet
<1>2. Effects = [w \in Work |-> 0]
  BY <1>1 DEF Effects
<1>3. Told = [c \in Calls |-> "nothing"]
  BY DEF Told, Init, NotTold
<1>. QED BY <1>2, <1>3 DEF Promise!Init

\* The commit of a statement is the one time that its work takes effect.
LEMMA CommitTakesEffect ==
    ASSUME RemoteInv, RemoteInv', NEW q \in Ids, Commit(q)
    PROVE  \E w \in Work : Promise!TakeEffect(w)
<1>. USE DEF RemoteInv
<1>1. PICK i : i = exec[q].done
  OBVIOUS
<1>2. PICK w : w = <<Owner(q), i>>
  OBVIOUS
<1>3. /\ exec[q].phase = "commit_critical" /\ kind' = kind /\ report' = report
      /\ effects' = [effects EXCEPT ![q] = @ \cup {i}]
  BY <1>1 DEF Commit, client
<1>4. i \in 0..Statements - 1 /\ \A j \in effects[q] : j < i
  <2>1. PICK e : e = Advanced(exec[q], Length(q))
    OBVIOUS
  <2>. QED BY <1>3, <1>1, <2>1, AdvancedFacts
<1>5. Owner(q) \in Calls \cup {Key}
  BY CallOfIds DEF Owner
<1>6. w \in Work /\ w[1] = Owner(q) /\ w[2] = i
  BY <1>4, <1>5, <1>2 DEF Work
<1>7. i \notin effects[q]
  BY <1>4, RemoteAssumption DEF RemoteAssumption
<1>8. /\ effects'[q] = effects[q] \cup {i}
      /\ \A p \in Ids \ {q} : effects'[p] = effects[p]
  BY <1>3 DEF TypeOK
<1>9. \A p : Owner(p)' = Owner(p)
  BY <1>3 DEF Owner
<1>10. Doers(w) = {}
  <2>1. ASSUME NEW p \in Doers(w) PROVE FALSE
    <3>1. p \in Ids /\ Owner(p) = Owner(q) /\ i \in effects[p]
      BY <1>6 DEF Doers
    <3>2. p = q
      BY <1>3, <3>1, OneRuns DEF Live
    <3>. QED BY <1>7, <3>1, <3>2
  <2>. QED BY <2>1
<1>11. Effects[w] = 0
  BY <1>6, <1>10, DoneOnce
<1>12. Effects'[w] = 1
  <2>1. Doers(w)' = {q}
    <3>1. \A p \in Ids : p \in Doers(w)' <=> Owner(p) = Owner(q) /\ i \in effects'[p]
      BY <1>6, <1>9 DEF Doers
    <3>2. \A p \in Ids \ {q} : ~(Owner(p) = Owner(q) /\ i \in effects[p])
      BY <1>6, <1>10 DEF Doers
    <3>. QED BY <1>8, <3>1, <3>2 DEF Doers
  <2>2. Effects'[w] = Cardinality(Doers(w)')
    BY <1>6 DEF Effects, Doers
  <2>. QED BY <2>1, <2>2, FS_Singleton
<1>13. ASSUME NEW x \in Work, x # w PROVE Effects'[x] = Effects[x]
  <2>1. ~(x[1] = Owner(q) /\ x[2] = i)
    BY <1>6, <1>13, <1>2 DEF Work
  <2>2. \A p \in Ids : x[2] \in effects'[p] /\ Owner(p) = x[1]
                        <=> x[2] \in effects[p] /\ Owner(p) = x[1]
    BY <1>8, <2>1
  <2>3. Doers(x)' = Doers(x)
    BY <1>9, <2>2 DEF Doers
  <2>. QED BY <2>3 DEF Effects, Doers
<1>14. Effects' = [Effects EXCEPT ![w] = 1]
  <2>1. Effects = [x \in Work |-> Effects[x]] /\ Effects' = [x \in Work |-> Effects'[x]]
    BY DEF Effects
  <2>. QED BY <1>6, <1>12, <1>13, <2>1
<1>15. Told' = Told
  BY <1>3 DEF Told
<1>. QED BY <1>6, <1>11, <1>14, <1>15 DEF Promise!TakeEffect

\* A call that returns tells its caller once, and of no commit that was not.
LEMMA TellTells ==
    ASSUME RemoteInv, pc # "idle", UNCHANGED server, NEW r, Truthful(r), Tell(r)
    PROVE  \E c \in Calls, x \in {"yes", "no", "unknown"} : Promise!Tell(c, x)
<1>. USE DEF RemoteInv
<1>1. calls \in Calls /\ id \in Ids /\ CallOf(id) = calls
  BY CurrentId
<1>2. /\ effects' = effects /\ kind' = kind
      /\ report' = [report EXCEPT ![calls] = [committed |-> r.committed, stmts |-> r.stmts,
                                              state |-> r.state, about |-> id]]
  BY DEF server, Tell
<1>3. r.committed \in {"yes", "no", "unknown"}
  BY DEF Truthful
<1>4. Told[calls] = "nothing"
  BY <1>1 DEF ReportInv, Told, NotTold
<1>5. Told' = [Told EXCEPT ![calls] = r.committed]
  <2>1. \A c \in Calls : report'[c].committed =
                            IF c = calls THEN r.committed ELSE report[c].committed
    BY <1>1, <1>2 DEF TypeOK
  <2>. QED BY <1>1, <2>1 DEF Told
<1>6. Effects' = Effects
  BY <1>2 DEF Effects, Owner
<1>7. ASSUME r.committed = "yes"
      PROVE  \E w \in {w \in Work : w[1] \in {calls, Key}} : Effects[w] = 1
  <2>1. PICK told : told = [committed |-> r.committed, stmts |-> r.stmts,
                            state |-> r.state, about |-> id]
    OBVIOUS
  <2>2. YesIsTrue(told) /\ told.about = id
    BY <1>7, <2>1 DEF Truthful
  <2>3. PICK p \in Ids : Owner(p) = Owner(id) /\ effects[p] # {}
    BY <2>2 DEF YesIsTrue
  <2>4. PICK i : i \in effects[p]
    BY <2>3
  <2>5. Owner(p) \in {calls, Key} /\ i \in 0..Statements - 1
    BY <1>1, <2>3, <2>4 DEF Owner, TypeOK
  <2>6. PICK w : w = <<Owner(p), i>>
    OBVIOUS
  <2>7. w \in Work /\ w[1] = Owner(p) /\ w[2] = i
    BY <1>1, <2>5, <2>6 DEF Work
  <2>8. p \in Doers(w)
    BY <2>4, <2>7 DEF Doers
  <2>. QED BY <2>5, <2>7, <2>8, DoneOnce
<1>. QED BY <1>1, <1>3, <1>4, <1>5, <1>6, <1>7 DEF Promise!Tell

\* A step that neither commits nor tells is none for the promise.
LEMMA SilentStep ==
    ASSUME effects' = effects, kind' = kind, report' = report
    PROVE  UNCHANGED <<Effects, Told>>
BY DEF Effects, Told, Owner

\* Every step is one of the promise, or none.
LEMMA StepKeepsPromise ==
    ASSUME RemoteInv, [Next]_vars
    PROVE  [Promise!Next]_<<Effects, Told>>
<1>1. RemoteInv'
  BY InvIsKept
<1>2. CASE Begin
  BY <1>2, SilentStep DEF Begin
<1>3. CASE CallStep
  <2>1. Proceeds
    BY <1>3, CallStepProceeds
  <2>2. CASE Returns
    <3>1. pc # "idle"
      BY <1>3 DEF CallStep, TransportLoss, ReceiveRows, ReceiveReceipt, ReceiveError,
                  ReceiveBatch, ReceiveDdl, Refresh, StatusAfterLoss, Replay, Recover,
                  CancelForRecovery, Poll, Expire, Answered
    <3>. QED BY <2>2, <3>1, TellTells DEF Returns, Promise!Next
  <2>3. CASE ~Returns
    <3>1. effects' = effects /\ kind' = kind /\ report' = report
      BY <2>1, <2>3 DEF Proceeds, GoesOn, Resend, CancelForRecovery, GoTo, server
    <3>. QED BY <3>1, SilentStep
  <2>. QED BY <2>2, <2>3
<1>4. CASE CancelByHandle \/ DropHandle
  BY <1>4, SilentStep DEF CancelByHandle, DropHandle
<1>5. CASE ServerStep
  <2>1. CASE \E q \in Ids : Commit(q)
    BY <1>1, <2>1, CommitTakesEffect DEF Promise!Next
  <2>2. CASE ~\E q \in Ids : Commit(q)
    <3>1. effects' = effects /\ kind' = kind /\ report' = report
      BY <1>5, <2>2 DEF ServerStep, Arrive, Fence, Read, Complete, Fail, Stop, Deadline, Restart,
                        Conclude, client
    <3>. QED BY <3>1, SilentStep
  <2>. QED BY <2>1, <2>2
<1>6. CASE UNCHANGED vars
  BY <1>6, SilentStep DEF vars, client, server
<1>. QED BY <1>2, <1>3, <1>4, <1>5, <1>6 DEF Next

\* ImplementsAtMostOnce: through lost and repeated requests, replays, cancels,
\* restarts and calls that share a key, every statement takes effect at most
\* once, and no caller is told of a commit before there was one.
THEOREM StatementsRunAtMostOnce == Spec => ImplementsAtMostOnce
<1>1. RemoteInv /\ [Next]_vars => [Promise!Next]_<<Effects, Told>>
  BY StepKeepsPromise
<1>. QED BY PromiseInitially, <1>1, RemoteIsInvariant, PTL
     DEF Spec, ImplementsAtMostOnce, Promise!Spec
=============================================================================
