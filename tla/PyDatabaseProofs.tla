--------------------------- MODULE PyDatabaseProofs ---------------------------
(***************************************************************************)
(* The lock of a database is held exactly while something uses it, open      *)
(* databases are whole, undamaged ones can be opened again, and nobody is     *)
(* told that a database is locked before the timeout is over: for any         *)
(* clients, schemas, timeouts and directories and any number of crashes and   *)
(* failures.                                                                 *)
(***************************************************************************)
EXTENDS PyDatabase, TLAPS

Working   == {"load", "ensure", "store", "stored", "tables"}
Migrating == {"migrating", "recorded", "persisting"}
Making    == {"core", "store", "stored", "tables"}
Waiting   == {"attempt", "denied", "asleep", "load"}
Stages    == {"idle", "failed", "ensure"} \cup Making \cup Waiting \cup Migrating

Functions == {"none"} \cup DOMAIN Openers \cup DOMAIN Creators
Errors == {"none", "NotFound", "Encryption", "AuthRequired", "AuthNotRequired",
           "DatabaseLocked", "Exists", "Migration", "Storage"}

Records ==
  [fn : Functions, stage : Stages, target : Schemas \cup {Missing},
   left : Int, sleep : Int, next : Int, error : Errors]

Typed ==
  /\ disk \in Directories
  /\ call \in [Clients -> Records]
  /\ refs \in [Clients -> SUBSET {"database", "txn", "query"}]
  /\ schema \in [Clients -> Schemas \cup {Missing}]

Uses(c) == refs[c] # {} \/ c \in worker

\* Who has the lock, and who may use an open database.
Held(c) ==
  /\ "txn" \in refs[c] <=> c \in live
  /\ lock = c <=> Uses(c) \/ call[c].stage \in Working
  /\ Uses(c) => call[c].stage \in {"idle"} \cup Migrating
  /\ call[c].stage \in Migrating => "database" \in refs[c]

\* What a call is about at each stage.
Doing(c) ==
  /\ call[c].stage \in {"idle"} \cup Migrating => call[c].fn = "none"
  /\ call[c].stage \in Making \cup Migrating => call[c].target \in Schemas
  /\ call[c].stage \in Making => call[c].fn \in DOMAIN Creators
  /\ call[c].stage \in Waiting => call[c].fn \in DOMAIN Openers
  /\ call[c].stage = "ensure" =>
       \/ call[c].fn \in DOMAIN Openers /\ schema[c] \in Schemas
       \/ call[c].fn \in DOMAIN Creators /\ call[c].target \in Schemas

\* What a client that has the lock knows of the directory.
Finds(c) ==
  /\ lock = c => disk.core
  /\ refs[c] # {} => /\ CheckPasses /\ schema[c] \in Schemas
  /\ call[c].stage = "ensure" /\ call[c].fn \in DOMAIN Openers => disk.file # Missing
  /\ call[c].stage \in {"store", "stored", "tables"} => Reserved \subseteq disk.tables
  /\ call[c].stage = "tables" => disk.file = call[c].target
  /\ call[c].stage \in {"recorded", "persisting"} =>
       TablesOf[call[c].target] \subseteq disk.tables
  /\ call[c].stage = "persisting" => disk.file = Torn

\* A client that is at the files of the database: it creates it, writes the schema
\* file, or migrates it while the file may still be read.
Busy(c) ==
  /\ lock = c
  /\ \/ call[c].fn \in DOMAIN Creators \/ call[c].stage = "persisting"
     \/ call[c].stage \in {"migrating", "recorded"} /\ disk.file \in Schemas

\* A database is whole, or damaged, or somebody is at it.
Whole ==
  disk.core =>
    \/ disk.file \in Schemas /\ TablesOf[disk.file] \subseteq disk.tables
    \/ damage \in {"half made", "half migrated"}
    \/ damage = "torn file" /\ disk.file = Torn
    \/ \E c \in Clients : Busy(c)

OpenInv ==
  /\ Typed
  /\ \A c \in Clients : Held(c) /\ Doing(c) /\ Finds(c)
  /\ Whole
-----------------------------------------------------------------------------
\* What the functions are called.
LEMMA Names ==
  /\ DOMAIN Openers \cap DOMAIN Creators = {}
  /\ "none" \notin DOMAIN Openers /\ "none" \notin DOMAIN Creators
  <1>1. DOMAIN Openers =
          {"open", "open_with_options", "open_encrypted", "open_encrypted_with_options",
           "open_with_credentials", "open_with_credentials_and_options",
           "open_encrypted_with_credentials",
           "open_encrypted_with_credentials_and_options"}
    BY DEF Openers
  <1>2. DOMAIN Creators =
          {"create", "create_encrypted", "create_with_credentials",
           "create_encrypted_with_credentials"}
    BY DEF Creators
  <1> QED BY <1>1, <1>2

\* The record of a call is a record of its parts.
LEMMA CallRecord ==
  ASSUME NEW fn \in Functions, NEW stage \in Stages, NEW target \in Schemas \cup {Missing},
         NEW left \in Int, NEW next \in Int, NEW error \in Errors
  PROVE  /\ Call(fn, stage, target, left, next, error) \in Records
         /\ Call(fn, stage, target, left, next, error).fn = fn
         /\ Call(fn, stage, target, left, next, error).stage = stage
         /\ Call(fn, stage, target, left, next, error).target = target
  BY DEF Call, Records

\* The call of a create function, with the schema it is given.
LEMMA CreateRecord ==
  ASSUME NEW fn \in Functions, NEW s \in Schemas
  PROVE  /\ Call(fn, "core", s, 0, 0, "none") \in Records
         /\ Call(fn, "core", s, 0, 0, "none").fn = fn
         /\ Call(fn, "core", s, 0, 0, "none").stage = "core"
         /\ Call(fn, "core", s, 0, 0, "none").target = s
  <1>1. "core" \in Stages /\ "none" \in Errors /\ s \in Schemas \cup {Missing} /\ 0 \in Int
    BY DEF Stages, Making, Errors
  <1> QED BY <1>1 DEF Call, Records

\* A client with nothing to do calls nothing.
LEMMA IdleRecord ==
  /\ Idle \in Records
  /\ Idle.fn = "none" /\ Idle.stage = "idle"
  BY CallRecord DEF Idle, Stages, Functions, Errors

\* A call that goes to another stage, one that returns an error.
LEMMA Goes ==
  ASSUME Typed, NEW c \in Clients, NEW stage \in Stages, Goto(c, stage)
  PROVE  /\ call' \in [Clients -> Records]
         /\ call'[c].stage = stage /\ call'[c].fn = call[c].fn /\ call'[c].target = call[c].target
         /\ \A d \in Clients \ {c} : call'[d] = call[d]
  BY DEF Typed, Records, Goto

\* A call that returned an error is about nothing any more.
LEMMA Returns ==
  ASSUME Typed, NEW c \in Clients, NEW error \in Errors, Return(c, error)
  PROVE  /\ call' \in [Clients -> Records]
         /\ call'[c].stage = "failed" /\ call'[c].fn = "none"
         /\ \A d \in Clients \ {c} : call'[d] = call[d]
         /\ lock' = IF lock = c THEN NoClient ELSE lock
  <1> DEFINE r == Call("none", "failed", Missing, 0, 0, error)
  <1>1. r \in Records /\ r.stage = "failed" /\ r.fn = "none"
    BY CallRecord DEF Stages, Functions
  <1>2. call' = [call EXCEPT ![c] = r] /\ lock' = IF lock = c THEN NoClient ELSE lock
    BY DEF Return
  <1> HIDE DEF r
  <1> QED BY <1>1, <1>2 DEF Typed

\* What a step of c does not touch of another client.
Untouched(d) ==
  /\ call'[d] = call[d] /\ refs'[d] = refs[d] /\ schema'[d] = schema[d]
  /\ d \in live' <=> d \in live
  /\ d \in worker' <=> d \in worker
  /\ lock' = d <=> lock = d

\* What a step of c may do to the directory.
Grows(c) ==
  /\ disk' \in Directories
  /\ disk.core => disk'.core
  /\ disk.tables \cap Reserved \subseteq disk'.tables
  /\ disk.tables \subseteq disk'.tables \/ lock = c
  /\ disk'.file # disk.file => lock = c /\ disk'.file # Missing

\* What a step of c leaves untouched of another client, and what it adds to the
\* directory, leaves that client as it was.
LEMMA Others ==
  ASSUME OpenInv, NEW c \in Clients, NEW d \in Clients, c # d, Untouched(d), Grows(c)
  PROVE  Held(d)' /\ Doing(d)' /\ Finds(d)'
  <1>1. Held(d) /\ Doing(d) /\ Finds(d)
    BY DEF OpenInv
  <1>2. Held(d)'
    BY <1>1 DEF Held, Uses, Untouched
  <1>3. Doing(d)'
    BY <1>1 DEF Doing, Untouched
  <1>4. lock = d => disk'.file = disk.file
    BY DEF Grows
  <1>5. disk'.file = Missing => disk.file = Missing
    BY DEF Grows
  <1>6. refs'[d] # {} => CheckPasses' /\ schema'[d] \in Schemas
    BY <1>1, <1>5 DEF Finds, CheckPasses, Untouched, Grows
  <1>7. /\ lock' = d => disk'.core
        /\ call'[d].stage = "ensure" /\ call'[d].fn \in DOMAIN Openers => disk'.file # Missing
        /\ call'[d].stage \in {"store", "stored", "tables"} => Reserved \subseteq disk'.tables
    BY <1>1, <1>5 DEF Finds, Untouched, Grows
  <1>8. call[d].stage \in {"tables", "recorded", "persisting"} => lock = d
    BY <1>1 DEF Held, Working, Migrating, Uses
  <1>10. call'[d].stage \in {"recorded", "persisting"} =>
           TablesOf[call'[d].target] \subseteq disk'.tables
    BY <1>1, <1>8 DEF Finds, Untouched, Grows
  <1>9. /\ call'[d].stage = "tables" => disk'.file = call'[d].target
        /\ call'[d].stage = "persisting" => disk'.file = Torn
    BY <1>1, <1>4, <1>8 DEF Finds, Untouched
  <1> QED BY <1>2, <1>3, <1>6, <1>7, <1>9, <1>10 DEF Finds

\* What is left to show of a step of c.
LEMMA StepKeeps ==
  ASSUME OpenInv, NEW c \in Clients, Typed', Grows(c),
         \A d \in Clients \ {c} : Untouched(d),
         Held(c)', Doing(c)', Finds(c)', Whole'
  PROVE  OpenInv'
  <1>1. ASSUME NEW d \in Clients PROVE Held(d)' /\ Doing(d)' /\ Finds(d)'
    BY Others
  <1> QED BY <1>1 DEF OpenInv

\* A step that leaves the schema file and the damage alone, and c as busy as it was,
\* leaves a database whole.
LEMMA StaysWhole ==
  ASSUME OpenInv, NEW c \in Clients,
         disk'.core = disk.core, disk'.file = disk.file, disk.tables \subseteq disk'.tables,
         damage' = damage, \A d \in Clients \ {c} : Untouched(d),
         Busy(c) => Busy(c)'
  PROVE  Whole'
  <1>1. Whole
    BY DEF OpenInv
  <1>2. ASSUME NEW d \in Clients, Busy(d) PROVE Busy(d)'
    BY <1>2 DEF Busy, Untouched
  <1> QED BY <1>1, <1>2 DEF Whole, Busy

\* Nobody holds the lock of an empty directory or of a completed database.
LEMMA InitInv == PyInit => OpenInv
  <1> SUFFICES ASSUME PyInit PROVE OpenInv
    OBVIOUS
  <1>1. /\ disk \in Directories
        /\ disk.core => disk.file \in Schemas /\ TablesOf[disk.file] \subseteq disk.tables
    BY ExistingAssumption DEF PyInit, Init
  <1>2. Idle \in Records
    BY IdleRecord
  <1>3. Typed
    BY <1>1, <1>2 DEF PyInit, Init, Typed
  <1>4. ASSUME NEW c \in Clients PROVE Held(c) /\ Doing(c) /\ Finds(c)
    BY IdleRecord, DatabaseOpenAssumption
    DEF PyInit, Init, Held, Doing, Finds, Uses, Working, Migrating, Making, Waiting
  <1> QED BY <1>1, <1>3, <1>4 DEF OpenInv, Whole

\* A call of an open function: it has nothing of the database yet.
LEMMA CallOpenKeeps ==
  ASSUME OpenInv, NEW c \in Clients, CallOpen(c), Kept, c \notin worker
  PROVE  OpenInv'
  <1>0. Typed /\ Held(c) /\ Doing(c) /\ Finds(c) /\ Whole
    BY DEF OpenInv
  <1>1. /\ call' \in [Clients -> Records]
        /\ call'[c].stage = "attempt" /\ call'[c].fn \in DOMAIN Openers /\ call'[c].target = Missing
        /\ \A d \in Clients \ {c} : call'[d] = call[d]
    <2>1. PICK fn \in Wanted[c] \cap DOMAIN Openers, timeout \in Timeouts \cup {0} :
            call' = [call EXCEPT ![c] = Call(fn, "attempt", Missing, timeout, FirstSleep, "none")]
      BY DEF CallOpen
    <2> DEFINE r == Call(fn, "attempt", Missing, timeout, FirstSleep, "none")
    <2>2. /\ fn \in Functions /\ "attempt" \in Stages /\ "none" \in Errors
          /\ timeout \in Int /\ FirstSleep \in Int
      BY DatabaseOpenAssumption DEF Stages, Making, Waiting, Functions, Errors, FirstSleep
    <2>3. r \in Records /\ r.fn = fn /\ r.stage = "attempt" /\ r.target = Missing
      BY <2>2, CallRecord
    <2> HIDE DEF r
    <2> QED BY <1>0, <2>1, <2>3 DEF Typed, r
  <1>2. Typed'
    BY <1>0, <1>1 DEF Typed, CallOpen
  <1>3. Grows(c) /\ \A d \in Clients \ {c} : Untouched(d)
    BY <1>0 DEF Typed, Grows, Untouched, CallOpen, Kept
  <1>4. Held(c)'
    BY <1>0, <1>1 DEF Held, Uses, Working, Migrating, CallOpen, Kept
  <1>5. Doing(c)'
    BY <1>1 DEF Doing, Making, Migrating
  <1>6. Finds(c)'
    BY <1>0, <1>1 DEF Finds, CallOpen
  <1>7. Whole'
    BY <1>0, <1>3, Names, StaysWhole DEF Busy, Doing, CallOpen
  <1> QED BY <1>2, <1>3, <1>4, <1>5, <1>6, <1>7, StepKeeps

\* The end of a sleep between two attempts at the lock.
LEMMA WakeKeeps ==
  ASSUME OpenInv, NEW c \in Clients, Wake(c), Kept
  PROVE  OpenInv'
  <1>0. Typed /\ Held(c) /\ Doing(c) /\ Finds(c) /\ Whole
    BY DEF OpenInv
  <1>1. /\ call' \in [Clients -> Records]
        /\ call'[c].stage = "attempt" /\ call'[c].fn = call[c].fn
        /\ call'[c].target = call[c].target
        /\ \A d \in Clients \ {c} : call'[d] = call[d]
    BY <1>0, Goes DEF Stages, Waiting, Wake
  <1>2. Typed'
    BY <1>0, <1>1 DEF Typed, Wake
  <1>3. Grows(c) /\ \A d \in Clients \ {c} : Untouched(d)
    BY <1>0, <1>1 DEF Typed, Grows, Untouched, Wake, Kept
  <1>4. Held(c)'
    BY <1>0, <1>1 DEF Held, Uses, Working, Migrating, Wake, Kept
  <1>5. Doing(c)'
    BY <1>0, <1>1 DEF Doing, Making, Waiting, Migrating, Wake
  <1>6. Finds(c)'
    BY <1>0, <1>1 DEF Finds, CheckPasses, Wake
  <1>7. Whole'
    BY <1>1, <1>3, StaysWhole DEF Busy, Wake
  <1> QED BY <1>2, <1>3, <1>4, <1>5, <1>6, <1>7, StepKeeps

\* A reserved table that was missing is created under the lock.
LEMMA EnsureTableKeeps ==
  ASSUME OpenInv, NEW c \in Clients, EnsureTable(c), Kept
  PROVE  OpenInv'
  <1>0. Typed /\ Held(c) /\ Doing(c) /\ Finds(c) /\ Whole
    BY DEF OpenInv
  <1>1. call' = call
    BY DEF EnsureTable
  <1>2. Typed'
    BY <1>0 DEF Typed, Directories, EnsureTable, CreateTable, Reserved
  <1>3. Grows(c) /\ \A d \in Clients \ {c} : Untouched(d)
    BY <1>2 DEF Typed, Grows, Untouched, EnsureTable, CreateTable, Kept
  <1>4. Held(c)'
    BY <1>0 DEF Held, Uses, EnsureTable, Kept
  <1>5. Doing(c)'
    BY <1>0 DEF Doing, EnsureTable
  <1>6. Finds(c)'
    BY <1>0 DEF Finds, CheckPasses, EnsureTable, CreateTable
  <1>7. Whole'
    BY <1>3, StaysWhole DEF Busy, EnsureTable, CreateTable
  <1> QED BY <1>2, <1>3, <1>4, <1>5, <1>6, <1>7, StepKeeps

\* A call of a create function, with the schema it is given.
LEMMA CallCreateKeeps ==
  ASSUME OpenInv, NEW c \in Clients, CallCreate(c), Kept, c \notin worker
  PROVE  OpenInv'
  <1>0. Typed /\ Held(c) /\ Doing(c) /\ Finds(c) /\ Whole
    BY DEF OpenInv
  <1>1. /\ call' \in [Clients -> Records]
        /\ call'[c].stage = "core" /\ call'[c].fn \in DOMAIN Creators /\ call'[c].target \in Schemas
        /\ \A d \in Clients \ {c} : call'[d] = call[d]
    <2>1. PICK fn \in Wanted[c] \cap DOMAIN Creators, s \in Schemas :
            call' = [call EXCEPT ![c] = Call(fn, "core", s, 0, 0, "none")]
      BY DEF CallCreate
    <2> DEFINE r == Call(fn, "core", s, 0, 0, "none")
    <2>2. fn \in Functions
      BY DEF Functions
    <2>3. r \in Records /\ r.fn = fn /\ r.stage = "core" /\ r.target = s
      BY <2>2, CreateRecord
    <2> HIDE DEF r
    <2> QED BY <1>0, <2>1, <2>3 DEF Typed, r
  <1>2. Typed'
    BY <1>0, <1>1 DEF Typed, CallCreate
  <1>3. Grows(c) /\ \A d \in Clients \ {c} : Untouched(d)
    BY <1>0 DEF Typed, Grows, Untouched, CallCreate, Kept
  <1>4. Held(c)'
    BY <1>0, <1>1 DEF Held, Uses, Working, Migrating, CallCreate, Kept
  <1>5. Doing(c)'
    BY <1>1 DEF Doing, Waiting, Migrating
  <1>6. Finds(c)'
    BY <1>0, <1>1 DEF Finds, CallCreate
  <1>7. Whole'
    BY <1>1, <1>3, StaysWhole DEF Busy, CallCreate
  <1> QED BY <1>2, <1>3, <1>4, <1>5, <1>6, <1>7, StepKeeps

\* The schema file is truncated: only a creator, who has the lock, may see it torn.
LEMMA StoreSchemaKeeps ==
  ASSUME OpenInv, NEW c \in Clients, StoreSchema(c), Kept
  PROVE  OpenInv'
  <1>0. Typed /\ Held(c) /\ Doing(c) /\ Finds(c) /\ Whole
    BY DEF OpenInv
  <1>1. /\ call' \in [Clients -> Records]
        /\ call'[c].stage = "stored" /\ call'[c].fn = call[c].fn /\ call'[c].target = call[c].target
        /\ \A d \in Clients \ {c} : call'[d] = call[d]
    BY <1>0, Goes DEF Stages, Making, StoreSchema
  <1>2. Typed'
    BY <1>0, <1>1 DEF Typed, Directories, StoreSchema
  <1>3. Grows(c) /\ \A d \in Clients \ {c} : Untouched(d)
    <2>1. lock = c
      BY <1>0 DEF Held, Working, StoreSchema
    <2>2. disk'.file # Missing
      BY DEF Torn, Missing, StoreSchema
    <2> QED BY <1>0, <1>1, <1>2, <2>1, <2>2
      DEF Typed, Directories, Grows, Untouched, StoreSchema, Goto, Kept
  <1>4. Held(c)'
    BY <1>0, <1>1 DEF Held, Uses, Working, Migrating, StoreSchema, Kept
  <1>5. Doing(c)'
    BY <1>0, <1>1 DEF Doing, Making, Waiting, Migrating, StoreSchema
  <1>6. Finds(c)'
    BY <1>0, <1>1 DEF Finds, Held, Uses, Migrating, StoreSchema
  <1>7. Whole'
    <2>1. Busy(c)'
      BY <1>0, <1>1 DEF Busy, Doing, Held, Working, Making, StoreSchema
    <2> QED BY <2>1 DEF Whole, Busy
  <1> QED BY <1>2, <1>3, <1>4, <1>5, <1>6, <1>7, StepKeeps

\* The schema file is written.
LEMMA StoreEndsKeeps ==
  ASSUME OpenInv, NEW c \in Clients, StoreEnds(c), Kept
  PROVE  OpenInv'
  <1>0. Typed /\ Held(c) /\ Doing(c) /\ Finds(c) /\ Whole
    BY DEF OpenInv
  <1>1. /\ call' \in [Clients -> Records]
        /\ call'[c].stage = "tables" /\ call'[c].fn = call[c].fn /\ call'[c].target = call[c].target
        /\ \A d \in Clients \ {c} : call'[d] = call[d]
    BY <1>0, Goes DEF Stages, Making, StoreEnds
  <1>2. Typed'
    BY <1>0, <1>1 DEF Typed, Directories, Doing, Making, StoreEnds
  <1>3. Grows(c) /\ \A d \in Clients \ {c} : Untouched(d)
    <2>1. lock = c
      BY <1>0 DEF Held, Working, StoreEnds
    <2>2. disk'.file # Missing
      BY <1>0, DatabaseOpenAssumption DEF Doing, Making, StoreEnds
    <2> QED BY <1>0, <1>1, <1>2, <2>1, <2>2
      DEF Typed, Directories, Grows, Untouched, StoreEnds, Goto, Kept
  <1>4. Held(c)'
    BY <1>0, <1>1 DEF Held, Uses, Working, Migrating, StoreEnds, Kept
  <1>5. Doing(c)'
    BY <1>0, <1>1 DEF Doing, Making, Waiting, Migrating, StoreEnds
  <1>6. Finds(c)'
    BY <1>0, <1>1 DEF Finds, Held, Uses, Migrating, StoreEnds
  <1>7. Whole'
    <2>1. Busy(c)'
      BY <1>0, <1>1 DEF Busy, Doing, Held, Working, Making, StoreEnds
    <2> QED BY <2>1 DEF Whole, Busy
  <1> QED BY <1>2, <1>3, <1>4, <1>5, <1>6, <1>7, StepKeeps

\* A table of the schema is created under the lock.
LEMMA CreateUserTableKeeps ==
  ASSUME OpenInv, NEW c \in Clients, CreateUserTable(c), Kept
  PROVE  OpenInv'
  <1>0. Typed /\ Held(c) /\ Doing(c) /\ Finds(c) /\ Whole
    BY DEF OpenInv
  <1>1. call' = call
    BY DEF CreateUserTable
  <1>2. Typed'
    BY <1>0 DEF Typed, Directories, Doing, Making, CreateUserTable, CreateTable
  <1>3. Grows(c) /\ \A d \in Clients \ {c} : Untouched(d)
    BY <1>2 DEF Typed, Grows, Untouched, CreateUserTable, CreateTable, Kept
  <1>4. Held(c)'
    BY <1>0 DEF Held, Uses, CreateUserTable, Kept
  <1>5. Doing(c)'
    BY <1>0 DEF Doing, CreateUserTable
  <1>6. Finds(c)'
    BY <1>0 DEF Finds, CheckPasses, CreateUserTable, CreateTable
  <1>7. Whole'
    BY <1>3, StaysWhole DEF Busy, CreateUserTable, CreateTable
  <1> QED BY <1>2, <1>3, <1>4, <1>5, <1>6, <1>7, StepKeeps

\* A creator whose tables are all there becomes a user of the database.
LEMMA CreatedKeeps ==
  ASSUME OpenInv, NEW c \in Clients, Created(c), Kept
  PROVE  OpenInv'
  <1>0. Typed /\ Held(c) /\ Doing(c) /\ Finds(c) /\ Whole
    BY DEF OpenInv
  <1>1. /\ call' \in [Clients -> Records] /\ call'[c] = Idle
        /\ \A d \in Clients \ {c} : call'[d] = call[d]
    BY <1>0, IdleRecord DEF Typed, Created
  <1>2. Typed'
    BY <1>0, <1>1 DEF Typed, Doing, Making, Created
  <1>3. Grows(c) /\ \A d \in Clients \ {c} : Untouched(d)
    BY <1>0 DEF Typed, Grows, Untouched, Created, Kept
  <1>4. Held(c)'
    BY <1>0, IdleRecord DEF Typed, Held, Uses, Working, Migrating, Created, Kept
  <1>5. Doing(c)'
    BY <1>1, IdleRecord DEF Doing, Making, Waiting, Migrating
  <1>6. Finds(c)'
    BY <1>0, IdleRecord, DatabaseOpenAssumption
    DEF Typed, Finds, CheckPasses, Doing, Making, Created
  <1>7. Whole'
    BY <1>0, <1>1, IdleRecord
    DEF Typed, Directories, Whole, Finds, Doing, Making, Migrating, Created, Kept
  <1> QED BY <1>2, <1>3, <1>4, <1>5, <1>6, <1>7, StepKeeps

\* A change of the credentials of an open database.
LEMMA SetAuthKeeps ==
  ASSUME OpenInv, NEW c \in Clients, SetAuth(c), Kept
  PROVE  OpenInv'
  <1>0. Typed /\ Held(c) /\ Doing(c) /\ Finds(c) /\ Whole
    BY DEF OpenInv
  <1>1. call' = call
    BY DEF SetAuth
  <1>2. Typed'
    BY <1>0, <1>1 DEF Typed, Directories, SetAuth, Kept
  <1>3. Grows(c) /\ \A d \in Clients \ {c} : Untouched(d)
    BY <1>2 DEF Typed, Grows, Untouched, SetAuth, Kept
  <1>4. Held(c)'
    BY <1>0 DEF Held, Uses, SetAuth, Kept
  <1>5. Doing(c)'
    BY <1>0 DEF Doing, SetAuth
  <1>6. Finds(c)'
    BY <1>0 DEF Finds, CheckPasses, SetAuth
  <1>7. Whole'
    BY <1>3, StaysWhole DEF Busy, SetAuth
  <1> QED BY <1>2, <1>3, <1>4, <1>5, <1>6, <1>7, StepKeeps

\* The error of a call is taken by its caller.
LEMMA ForgetKeeps ==
  ASSUME OpenInv, NEW c \in Clients, Forget(c), Kept
  PROVE  OpenInv'
  <1>0. Typed /\ Held(c) /\ Doing(c) /\ Finds(c) /\ Whole
    BY DEF OpenInv
  <1>1. /\ call' \in [Clients -> Records] /\ call'[c] = Idle
        /\ \A d \in Clients \ {c} : call'[d] = call[d]
    BY <1>0, IdleRecord DEF Typed, Forget
  <1>2. Typed'
    BY <1>0, <1>1 DEF Typed, Forget
  <1>3. Grows(c) /\ \A d \in Clients \ {c} : Untouched(d)
    BY <1>0 DEF Typed, Grows, Untouched, Forget, Kept
  <1>4. Held(c)'
    BY <1>0, IdleRecord DEF Held, Uses, Working, Migrating, Forget, Kept
  <1>5. Doing(c)'
    BY <1>1, IdleRecord DEF Doing, Making, Waiting, Migrating
  <1>6. Finds(c)'
    BY <1>0, IdleRecord DEF Finds, Held, Uses, Migrating, Forget
  <1>7. Whole'
    BY <1>0, IdleRecord, <1>3, StaysWhole DEF Busy, Doing, Held, Working, Forget
  <1> QED BY <1>2, <1>3, <1>4, <1>5, <1>6, <1>7, StepKeeps

\* A transaction keeps the core of the database it began on.
LEMMA BeginKeeps ==
  ASSUME OpenInv, NEW c \in Clients, Begin(c)
  PROVE  OpenInv'
  <1>0. Typed /\ Held(c) /\ Doing(c) /\ Finds(c) /\ Whole
    BY DEF OpenInv
  <1>1. call' = call
    BY DEF Begin
  <1>2. Typed'
    BY <1>0 DEF Typed, Begin
  <1>3. Grows(c) /\ \A d \in Clients \ {c} : Untouched(d)
    BY <1>0 DEF Typed, Grows, Untouched, Begin
  <1>4. Held(c)'
    BY <1>0 DEF Typed, Held, Uses, Begin, Free
  <1>5. Doing(c)'
    BY <1>0 DEF Doing, Begin
  <1>6. Finds(c)'
    BY <1>0 DEF Finds, CheckPasses, Begin, Free
  <1>7. Whole'
    BY <1>3, StaysWhole DEF Busy, Begin
  <1> QED BY <1>2, <1>3, <1>4, <1>5, <1>6, <1>7, StepKeeps

\* The last of the objects to go lets the lock go.
LEMMA EndTxnKeeps ==
  ASSUME OpenInv, NEW c \in Clients, EndTxn(c)
  PROVE  OpenInv'
  <1>0. Typed /\ Held(c) /\ Doing(c) /\ Finds(c) /\ Whole
    BY DEF OpenInv
  <1>1. call' = call
    BY DEF EndTxn
  <1>2. Typed'
    BY <1>0 DEF Typed, EndTxn
  <1>3. Grows(c) /\ \A d \in Clients \ {c} : Untouched(d)
    BY <1>0, DatabaseOpenAssumption DEF Typed, Grows, Untouched, EndTxn, Unlock
  <1>4. Held(c)'
    BY <1>0, DatabaseOpenAssumption DEF Typed, Held, Uses, Working, EndTxn, Unlock
  <1>5. Doing(c)'
    BY <1>0 DEF Doing, EndTxn
  <1>6. Finds(c)'
    BY <1>0 DEF Finds, CheckPasses, Held, Uses, EndTxn
  <1>7. Whole'
    BY <1>0, <1>3, <1>4, Names, StaysWhole DEF Busy, Doing, Held, EndTxn, Unlock
  <1> QED BY <1>2, <1>3, <1>4, <1>5, <1>6, <1>7, StepKeeps

\* A SQL query keeps the core, in its handle and in its worker.
LEMMA StartSqlKeeps ==
  ASSUME OpenInv, NEW c \in Clients, StartSql(c)
  PROVE  OpenInv'
  <1>0. Typed /\ Held(c) /\ Doing(c) /\ Finds(c) /\ Whole
    BY DEF OpenInv
  <1>1. call' = call
    BY DEF StartSql
  <1>2. Typed'
    BY <1>0 DEF Typed, StartSql
  <1>3. Grows(c) /\ \A d \in Clients \ {c} : Untouched(d)
    BY <1>0 DEF Typed, Grows, Untouched, StartSql
  <1>4. Held(c)'
    BY <1>0 DEF Held, Uses, StartSql, Free
  <1>5. Doing(c)'
    BY <1>0 DEF Doing, StartSql
  <1>6. Finds(c)'
    BY <1>0 DEF Finds, CheckPasses, StartSql, Free
  <1>7. Whole'
    BY <1>3, StaysWhole DEF Busy, StartSql
  <1> QED BY <1>2, <1>3, <1>4, <1>5, <1>6, <1>7, StepKeeps

\* A worker that ends lets the lock go only when no object is left.
LEMMA WorkerEndsKeeps ==
  ASSUME OpenInv, NEW c \in Clients, WorkerEnds(c)
  PROVE  OpenInv'
  <1>0. Typed /\ Held(c) /\ Doing(c) /\ Finds(c) /\ Whole
    BY DEF OpenInv
  <1>1. call' = call
    BY DEF WorkerEnds
  <1>2. Typed'
    BY <1>0 DEF Typed, WorkerEnds
  <1>3. Grows(c) /\ \A d \in Clients \ {c} : Untouched(d)
    BY <1>0, DatabaseOpenAssumption DEF Typed, Grows, Untouched, WorkerEnds, Unlock
  <1>4. Held(c)'
    BY <1>0, DatabaseOpenAssumption DEF Held, Uses, Working, WorkerEnds, Unlock
  <1>5. Doing(c)'
    BY <1>0 DEF Doing, WorkerEnds
  <1>6. Finds(c)'
    BY <1>0 DEF Finds, CheckPasses, Held, Uses, WorkerEnds
  <1>7. Whole'
    BY <1>0, <1>3, <1>4, Names, StaysWhole DEF Busy, Doing, Held, WorkerEnds, Unlock
  <1> QED BY <1>2, <1>3, <1>4, <1>5, <1>6, <1>7, StepKeeps

\* A dropped handle does not take the core from its worker.
LEMMA DropQueryKeeps ==
  ASSUME OpenInv, NEW c \in Clients, DropQuery(c)
  PROVE  OpenInv'
  <1>0. Typed /\ Held(c) /\ Doing(c) /\ Finds(c) /\ Whole
    BY DEF OpenInv
  <1>1. call' = call
    BY DEF DropQuery
  <1>2. Typed'
    BY <1>0 DEF Typed, DropQuery
  <1>3. Grows(c) /\ \A d \in Clients \ {c} : Untouched(d)
    BY <1>0, DatabaseOpenAssumption DEF Typed, Grows, Untouched, DropQuery, Unlock
  <1>4. Held(c)'
    BY <1>0, DatabaseOpenAssumption DEF Held, Uses, Working, DropQuery, Unlock
  <1>5. Doing(c)'
    BY <1>0 DEF Doing, DropQuery
  <1>6. Finds(c)'
    BY <1>0 DEF Finds, CheckPasses, Held, Uses, DropQuery
  <1>7. Whole'
    BY <1>0, <1>3, <1>4, Names, StaysWhole DEF Busy, Doing, Held, DropQuery, Unlock
  <1> QED BY <1>2, <1>3, <1>4, <1>5, <1>6, <1>7, StepKeeps

\* close() drops one reference of several.
LEMMA CloseDatabaseKeeps ==
  ASSUME OpenInv, NEW c \in Clients, CloseDatabase(c)
  PROVE  OpenInv'
  <1>0. Typed /\ Held(c) /\ Doing(c) /\ Finds(c) /\ Whole
    BY DEF OpenInv
  <1>1. call' = call
    BY DEF CloseDatabase
  <1>2. Typed'
    BY <1>0 DEF Typed, CloseDatabase
  <1>3. Grows(c) /\ \A d \in Clients \ {c} : Untouched(d)
    BY <1>0, DatabaseOpenAssumption DEF Typed, Grows, Untouched, CloseDatabase, Unlock
  <1>4. Held(c)'
    BY <1>0, DatabaseOpenAssumption
    DEF Held, Uses, Working, Migrating, CloseDatabase, Free, Unlock
  <1>5. Doing(c)'
    BY <1>0 DEF Doing, CloseDatabase
  <1>6. Finds(c)'
    BY <1>0 DEF Finds, CheckPasses, CloseDatabase, Unlock
  <1>7. Whole'
    BY <1>0, <1>3, Names, StaysWhole DEF Busy, Doing, CloseDatabase, Free
  <1> QED BY <1>2, <1>3, <1>4, <1>5, <1>6, <1>7, StepKeeps

\* A handle is given another schema while nothing else uses the database.
LEMMA SetSchemaKeeps ==
  ASSUME OpenInv, NEW c \in Clients, SetSchema(c)
  PROVE  OpenInv'
  <1>0. Typed /\ Held(c) /\ Doing(c) /\ Finds(c) /\ Whole
    BY DEF OpenInv
  <1>1. call' = call
    BY DEF SetSchema
  <1>2. Typed'
    BY <1>0 DEF Typed, SetSchema
  <1>3. Grows(c) /\ \A d \in Clients \ {c} : Untouched(d)
    BY <1>0 DEF Typed, Grows, Untouched, SetSchema
  <1>4. Held(c)'
    BY <1>0 DEF Held, Uses, SetSchema
  <1>5. Doing(c)'
    BY <1>0 DEF Doing, SetSchema
  <1>6. Finds(c)'
    BY <1>0 DEF Finds, CheckPasses, SetSchema
  <1>7. Whole'
    BY <1>3, StaysWhole DEF Busy, SetSchema
  <1> QED BY <1>2, <1>3, <1>4, <1>5, <1>6, <1>7, StepKeeps

\* A migration creates a table of the schema it goes to.
LEMMA MigrateTableKeeps ==
  ASSUME OpenInv, NEW c \in Clients, MigrateTable(c)
  PROVE  OpenInv'
  <1>0. Typed /\ Held(c) /\ Doing(c) /\ Finds(c) /\ Whole
    BY DEF OpenInv
  <1>1. call' = call
    BY DEF MigrateTable
  <1>2. Typed'
    BY <1>0 DEF Typed, Directories, Doing, Migrating, MigrateTable, CreateTable
  <1>3. Grows(c) /\ \A d \in Clients \ {c} : Untouched(d)
    BY <1>2 DEF Typed, Grows, Untouched, MigrateTable, CreateTable
  <1>4. Held(c)'
    BY <1>0 DEF Held, Uses, MigrateTable
  <1>5. Doing(c)'
    BY <1>0 DEF Doing, MigrateTable
  <1>6. Finds(c)'
    BY <1>0 DEF Finds, CheckPasses, MigrateTable, CreateTable
  <1>7. Whole'
    BY <1>3, StaysWhole DEF Busy, MigrateTable, CreateTable
  <1> QED BY <1>2, <1>3, <1>4, <1>5, <1>6, <1>7, StepKeeps

\* A migration that drops a table has the lock, and leaves the reserved tables.
LEMMA MigrateDropKeeps ==
  ASSUME OpenInv, NEW c \in Clients, MigrateDrop(c)
  PROVE  OpenInv'
  <1>0. Typed /\ Held(c) /\ Doing(c) /\ Finds(c) /\ Whole
    BY DEF OpenInv
  <1>1. call' = call /\ lock = c /\ lock' = lock /\ damage' = damage
    BY <1>0 DEF Held, Uses, Migrating, MigrateDrop
  <1>2. PICK t \in disk.tables \ Reserved : disk' = [disk EXCEPT !.tables = @ \ {t}]
    BY DEF MigrateDrop
  <1>3. /\ disk' \in Directories /\ disk'.core = disk.core /\ disk'.file = disk.file
        /\ disk.tables \cap Reserved \subseteq disk'.tables
    BY <1>0, <1>2 DEF Typed, Directories
  <1>4. Typed'
    BY <1>0, <1>3 DEF Typed, MigrateDrop
  <1>5. Grows(c) /\ \A d \in Clients \ {c} : Untouched(d)
    BY <1>1, <1>3 DEF Grows, Untouched, MigrateDrop
  <1>6. Held(c)'
    BY <1>0 DEF Held, Uses, MigrateDrop
  <1>7. Doing(c)'
    BY <1>0 DEF Doing, MigrateDrop
  <1>8. Finds(c)'
    BY <1>0, <1>1, <1>3 DEF Finds, CheckPasses, MigrateDrop
  <1>9. Whole'
    <2>1. disk.file \in Schemas => Busy(c)'
      BY <1>1, <1>3 DEF Busy, MigrateDrop
    <2>2. ASSUME NEW d \in Clients, Busy(d) PROVE Busy(d)'
      BY <1>1, <1>3, <2>2 DEF Busy
    <2> QED BY <1>0, <1>1, <1>3, <2>1, <2>2 DEF Whole
  <1> QED BY <1>4, <1>5, <1>6, <1>7, <1>8, <1>9, StepKeeps

\* The migration is recorded once all its tables are there.
LEMMA RecordKeeps ==
  ASSUME OpenInv, NEW c \in Clients, Record(c)
  PROVE  OpenInv'
  <1>0. Typed /\ Held(c) /\ Doing(c) /\ Finds(c) /\ Whole
    BY DEF OpenInv
  <1>1. /\ call' \in [Clients -> Records]
        /\ call'[c].stage = "recorded" /\ call'[c].fn = call[c].fn
        /\ call'[c].target = call[c].target
        /\ \A d \in Clients \ {c} : call'[d] = call[d]
    BY <1>0, Goes DEF Stages, Migrating, Record
  <1>2. Typed'
    BY <1>0, <1>1 DEF Typed, Directories, Doing, Migrating, Record
  <1>3. Grows(c) /\ \A d \in Clients \ {c} : Untouched(d)
    BY <1>1, <1>2 DEF Typed, Grows, Untouched, Record
  <1>4. Held(c)'
    BY <1>0, <1>1 DEF Held, Uses, Migrating, Record
  <1>5. Doing(c)'
    BY <1>0, <1>1 DEF Doing, Making, Waiting, Migrating, Record
  <1>6. Finds(c)'
    BY <1>0, <1>1 DEF Finds, CheckPasses, Record
  <1>7. Whole'
    BY <1>1, <1>3, StaysWhole DEF Busy, Record
  <1> QED BY <1>2, <1>3, <1>4, <1>5, <1>6, <1>7, StepKeeps

\* The schema file is truncated by a migration that has the lock.
LEMMA PersistKeeps ==
  ASSUME OpenInv, NEW c \in Clients, Persist(c)
  PROVE  OpenInv'
  <1>0. Typed /\ Held(c) /\ Doing(c) /\ Finds(c) /\ Whole
    BY DEF OpenInv
  <1>1. /\ call' \in [Clients -> Records]
        /\ call'[c].stage = "persisting" /\ call'[c].fn = call[c].fn
        /\ call'[c].target = call[c].target
        /\ \A d \in Clients \ {c} : call'[d] = call[d]
    BY <1>0, Goes DEF Stages, Migrating, Persist
  <1>2. Typed'
    BY <1>0, <1>1 DEF Typed, Directories, Persist
  <1>3. Grows(c) /\ \A d \in Clients \ {c} : Untouched(d)
    <2>1. lock = c
      BY <1>0 DEF Held, Uses, Migrating, Persist
    <2>2. disk'.file # Missing
      BY DEF Torn, Missing, Persist
    <2> QED BY <1>0, <1>1, <1>2, <2>1, <2>2 DEF Typed, Directories, Grows, Untouched, Persist, Goto
  <1>4. Held(c)'
    BY <1>0, <1>1 DEF Held, Uses, Migrating, Persist
  <1>5. Doing(c)'
    BY <1>0, <1>1 DEF Doing, Making, Waiting, Migrating, Persist
  <1>6. Finds(c)'
    BY <1>0, <1>1 DEF Finds, CheckPasses, Torn, Missing, Persist
  <1>7. Whole'
    <2>1. Busy(c)'
      BY <1>1, <1>4 DEF Busy, Held, Uses, Migrating
    <2> QED BY <2>1 DEF Whole, Busy
  <1> QED BY <1>2, <1>3, <1>4, <1>5, <1>6, <1>7, StepKeeps

\* The migrated schema is in the file, and its tables were there before.
LEMMA PersistedKeeps ==
  ASSUME OpenInv, NEW c \in Clients, Persisted(c)
  PROVE  OpenInv'
  <1>0. Typed /\ Held(c) /\ Doing(c) /\ Finds(c) /\ Whole
    BY DEF OpenInv
  <1>1. /\ call' \in [Clients -> Records] /\ call'[c] = Idle
        /\ \A d \in Clients \ {c} : call'[d] = call[d]
    BY <1>0, IdleRecord DEF Typed, Persisted
  <1>2. Typed'
    BY <1>0, <1>1 DEF Typed, Directories, Doing, Migrating, Persisted
  <1>3. Grows(c) /\ \A d \in Clients \ {c} : Untouched(d)
    <2>1. lock = c
      BY <1>0 DEF Held, Uses, Migrating, Persisted
    <2>2. disk'.file # Missing
      BY <1>0, DatabaseOpenAssumption DEF Doing, Migrating, Persisted
    <2> QED BY <1>0, <1>1, IdleRecord, <1>2, <2>1, <2>2
      DEF Typed, Directories, Grows, Untouched, Persisted
  <1>4. Held(c)'
    BY <1>0, IdleRecord DEF Held, Uses, Migrating, Persisted
  <1>5. Doing(c)'
    BY <1>1, IdleRecord DEF Doing, Making, Waiting, Migrating
  <1>6. Finds(c)'
    BY <1>0, <1>1, IdleRecord, DatabaseOpenAssumption
    DEF Finds, CheckPasses, Doing, Migrating, Persisted
  <1>7. Whole'
    BY <1>0, <1>1, IdleRecord
    DEF Typed, Directories, Whole, Finds, Doing, Making, Migrating, Persisted
  <1> QED BY <1>2, <1>3, <1>4, <1>5, <1>6, <1>7, StepKeeps

\* A migration that fails leaves the file torn, or tables gone that the file
\* declares, and the damage is known.
LEMMA MigrateFailsKeeps ==
  ASSUME OpenInv, NEW c \in Clients, MigrateFails(c)
  PROVE  OpenInv'
  <1>0. Typed /\ Held(c) /\ Doing(c) /\ Finds(c) /\ Whole
    BY DEF OpenInv
  <1>1. /\ call' \in [Clients -> Records] /\ call'[c] = Idle
        /\ \A d \in Clients \ {c} : call'[d] = call[d]
    BY <1>0, IdleRecord DEF Typed, MigrateFails
  <1>2. Typed'
    BY <1>0, <1>1 DEF Typed, Directories, MigrateFails
  <1>3. Grows(c) /\ \A d \in Clients \ {c} : Untouched(d)
    BY <1>0, <1>1, DatabaseOpenAssumption DEF Typed, Grows, Untouched, MigrateFails
  <1>4. Held(c)'
    BY <1>0, <1>1, IdleRecord, DatabaseOpenAssumption
    DEF Held, Uses, Working, Migrating, MigrateFails
  <1>5. Doing(c)'
    BY <1>1, IdleRecord DEF Doing, Making, Waiting, Migrating
  <1>6. Finds(c)'
    BY <1>0, <1>1, IdleRecord, <1>2, Names
    DEF Typed, Finds, CheckPasses, Held, Uses, MigrateFails
  <1>7. Whole'
    <2>1. call[c].fn \notin DOMAIN Creators /\ call[c].stage \in Migrating /\ lock = c
      BY <1>0, Names DEF Doing, Held, Uses, Migrating, MigrateFails
    <2>2. CASE call[c].stage = "persisting"
      BY <1>0, <2>1, <2>2 DEF Whole, Finds, MigrateFails, Damage
    <2>3. CASE call[c].stage # "persisting" /\ ~Complete
      BY <2>1, <2>3 DEF Whole, Migrating, MigrateFails, Damage
    <2>4. CASE call[c].stage # "persisting" /\ Complete
      <3>1. damage' = damage /\ disk' = disk
        BY <2>1, <2>4 DEF MigrateFails, Damage
      <3> QED BY <1>0, <2>1, <2>4, <3>1 DEF Whole, Busy, Complete
    <2> QED BY <2>2, <2>3, <2>4
  <1> QED BY <1>2, <1>3, <1>4, <1>5, <1>6, <1>7, StepKeeps

\* A crash lets the lock go and leaves of the directory what is durable.
LEMMA CrashAllKeeps ==
  ASSUME OpenInv, NEW c \in Clients, CrashAll(c)
  PROVE  OpenInv'
  <1>0. Typed /\ Held(c) /\ Doing(c) /\ Finds(c) /\ Whole
    BY DEF OpenInv
  <1>1. /\ call' \in [Clients -> Records] /\ call'[c] = Idle
        /\ \A d \in Clients \ {c} : call'[d] = call[d]
    BY <1>0, IdleRecord DEF Typed, CrashAll, Crash
  <1>2. Typed'
    BY <1>0, <1>1 DEF Typed, Directories, CrashAll, Crash
  <1>3. Grows(c) /\ \A d \in Clients \ {c} : Untouched(d)
    BY <1>0, <1>1, DatabaseOpenAssumption DEF Typed, Grows, Untouched, CrashAll, Crash
  <1>4. Held(c)'
    BY <1>0, <1>1, IdleRecord, DatabaseOpenAssumption
    DEF Typed, Held, Uses, Working, Migrating, CrashAll, Crash
  <1>5. Doing(c)'
    BY <1>1, IdleRecord DEF Doing, Making, Waiting, Migrating
  <1>6. Finds(c)'
    BY <1>0, <1>1, IdleRecord, <1>2, Names
    DEF Typed, Finds, CheckPasses, Held, Uses, CrashAll, Crash
  <1>7. Whole'
    <2>1. call[c].stage \in Migrating => call[c].fn \notin DOMAIN Creators
      BY <1>0, Names DEF Doing
    <2>2. lock = c /\ disk' = disk /\ damage' = Damage(c)
      BY DEF CrashAll, Crash
    <2>3. CASE call[c].stage = "persisting"
      BY <1>0, <2>1, <2>2, <2>3 DEF Whole, Finds, Damage, Migrating
    <2>4. CASE call[c].stage # "persisting" /\ call[c].fn \in DOMAIN Creators
      BY <2>2, <2>4 DEF Whole, Damage
    <2>5. CASE call[c].stage \in {"migrating", "recorded"} /\ ~Complete
      BY <2>1, <2>2, <2>5 DEF Whole, Damage, Migrating
    <2>6. CASE call[c].stage \in {"migrating", "recorded"} /\ Complete
      <3>1. damage' = damage
        BY <2>1, <2>2, <2>6 DEF Damage, Migrating
      <3> QED BY <1>0, <2>1, <2>2, <2>6, <3>1 DEF Whole, Busy, Complete, Migrating
    <2>7. CASE call[c].stage \notin Migrating /\ call[c].fn \notin DOMAIN Creators
      <3>1. damage' = damage
        BY <2>2, <2>7 DEF Damage, Migrating
      <3> QED BY <1>0, <2>2, <2>7, <3>1 DEF Whole, Busy, Migrating
    <2> QED BY <2>3, <2>4, <2>5, <2>6, <2>7 DEF Migrating
  <1> QED BY <1>2, <1>3, <1>4, <1>5, <1>6, <1>7, StepKeeps

\* A migration begins when its caller is alone on the handle.
LEMMA MigrateKeeps ==
  ASSUME OpenInv, NEW c \in Clients, Migrate(c)
  PROVE  OpenInv'
  <1>0. Typed /\ Held(c) /\ Doing(c) /\ Finds(c) /\ Whole
    BY DEF OpenInv
  <1>1. /\ call' \in [Clients -> Records]
        /\ call'[c].stage = "migrating" /\ call'[c].fn = call[c].fn /\ call'[c].target = schema[c]
        /\ \A d \in Clients \ {c} : call'[d] = call[d]
    <2>1. call[c] \in Records /\ schema[c] \in Schemas \cup {Missing} /\ call \in [Clients -> Records]
      BY <1>0 DEF Typed
    <2> DEFINE r == [call[c] EXCEPT !.stage = "migrating", !.target = schema[c]]
    <2>2. /\ r \in Records
          /\ r.stage = "migrating" /\ r.fn = call[c].fn /\ r.target = schema[c]
      BY <2>1 DEF Records, Stages, Migrating
    <2>3. call' = [call EXCEPT ![c] = r]
      BY DEF Migrate
    <2> HIDE DEF r
    <2> QED BY <2>1, <2>2, <2>3
  <1>2. Typed'
    BY <1>0, <1>1 DEF Typed, Migrate
  <1>3. Grows(c) /\ \A d \in Clients \ {c} : Untouched(d)
    BY <1>0 DEF Typed, Grows, Untouched, Migrate
  <1>4. Held(c)'
    BY <1>0, <1>1 DEF Held, Uses, Migrating, Migrate, Alone
  <1>5. Doing(c)'
    BY <1>0, <1>1 DEF Doing, Held, Uses, Finds, Making, Waiting, Migrate, Alone
  <1>6. Finds(c)'
    BY <1>0, <1>1 DEF Finds, CheckPasses, Migrate
  <1>7. Whole'
    BY <1>1, <1>3, StaysWhole DEF Busy, Migrate, Alone, Free
  <1> QED BY <1>2, <1>3, <1>4, <1>5, <1>6, <1>7, StepKeeps

\* A call that returns an error leaves a database half made, or as it was.
LEMMA ReturnKeeps ==
  ASSUME OpenInv, NEW c \in Clients, NEW error \in Errors, Return(c, error),
         call[c].stage \notin {"idle"} \cup Migrating,
         UNCHANGED <<disk, refs, schema, live, worker>>,
         Busy(c) => damage' = "half made", ~Busy(c) => damage' = damage
  PROVE  OpenInv'
  <1>0. Typed /\ Held(c) /\ Doing(c) /\ Finds(c) /\ Whole
    BY DEF OpenInv
  <1>1. /\ call' \in [Clients -> Records]
        /\ call'[c].stage = "failed" /\ call'[c].fn = "none"
        /\ \A d \in Clients \ {c} : call'[d] = call[d]
        /\ lock' = IF lock = c THEN NoClient ELSE lock
    BY <1>0, Returns
  <1>2. Typed'
    BY <1>0, <1>1 DEF Typed
  <1>3. Grows(c) /\ \A d \in Clients \ {c} : Untouched(d)
    BY <1>0, <1>1, DatabaseOpenAssumption DEF Typed, Grows, Untouched
  <1>4. ~Uses(c) /\ lock' # c
    BY <1>0, <1>1, DatabaseOpenAssumption DEF Held
  <1>5. Held(c)'
    BY <1>0, <1>1, <1>4 DEF Held, Uses, Working, Migrating
  <1>6. Doing(c)'
    BY <1>1 DEF Doing, Making, Waiting, Migrating
  <1>7. Finds(c)'
    BY <1>1, <1>4 DEF Finds, Uses
  <1>8. Whole'
    BY <1>0, <1>3, StaysWhole DEF Whole
  <1> QED BY <1>2, <1>3, <1>5, <1>6, <1>7, <1>8, StepKeeps

\* A denied attempt sleeps, and has nothing of the database.
LEMMA SleepKeeps ==
  ASSUME OpenInv, NEW c \in Clients, call[c].left # 0, BackOff(c), Kept
  PROVE  OpenInv'
  <1>0. /\ Typed /\ Held(c) /\ Doing(c) /\ Finds(c) /\ Whole /\ call[c].stage = "denied"
        /\ UNCHANGED <<disk, refs, schema, damage, live, worker>>
    BY DEF OpenInv, BackOff, Kept
  <1>1. /\ call' \in [Clients -> Records]
        /\ call'[c].stage = "asleep" /\ call'[c].fn = call[c].fn /\ call'[c].target = call[c].target
        /\ \A d \in Clients \ {c} : call'[d] = call[d]
        /\ lock' = lock
    BY <1>0 DEF Typed, Records, Stages, Waiting, BackOff
  <1>2. Typed'
    BY <1>0, <1>1 DEF Typed
  <1>3. Grows(c) /\ \A d \in Clients \ {c} : Untouched(d)
    BY <1>0, <1>1 DEF Typed, Grows, Untouched
  <1>4. Held(c)'
    BY <1>0, <1>1 DEF Held, Uses, Working, Migrating
  <1>5. Doing(c)'
    BY <1>0, <1>1 DEF Doing, Making, Waiting, Migrating
  <1>6. Finds(c)'
    BY <1>0, <1>1 DEF Finds, CheckPasses
  <1>7. Whole'
    BY <1>0, <1>1, <1>3, StaysWhole DEF Busy
  <1> QED BY <1>2, <1>3, <1>4, <1>5, <1>6, <1>7, StepKeeps

\* ... or gives up.
LEMMA BackOffKeeps ==
  ASSUME OpenInv, NEW c \in Clients, BackOff(c), Kept
  PROVE  OpenInv'
  <1>1. /\ call[c].stage = "denied" /\ call[c].fn \in DOMAIN Openers
        /\ UNCHANGED <<disk, refs, schema, damage, live, worker>>
    BY DEF OpenInv, BackOff, Kept, Doing, Waiting
  <1>2. ~Busy(c) /\ call[c].stage \notin {"idle"} \cup Migrating
    BY <1>1, Names DEF Busy, Migrating
  <1>3. CASE call[c].left = 0
    BY <1>1, <1>2, <1>3, ReturnKeeps DEF BackOff, Errors
  <1> QED BY <1>3, SleepKeeps

\* An attempt takes the lock that nobody has, is denied, or is refused.
LEMMA AttemptKeeps ==
  ASSUME OpenInv, NEW c \in Clients, Attempt(c), Kept
  PROVE  OpenInv'
  <1>0. Typed /\ Held(c) /\ Doing(c) /\ Finds(c) /\ Whole
    BY DEF OpenInv
  <1> DEFINE why == Refuses(Openers[call[c].fn])
  <1>1. /\ call[c].stage = "attempt" /\ call[c].fn \in DOMAIN Openers
        /\ UNCHANGED <<disk, refs, schema, damage, live, worker>>
    BY <1>0 DEF Attempt, Kept, Doing, Waiting
  <1>2. ~Busy(c) /\ call[c].stage \notin {"idle"} \cup Migrating
    BY <1>1, Names DEF Busy, Migrating
  <1>3. why \in Errors /\ (why = "none" => disk.core)
    BY DEF Refuses, Errors
  <1>4. CASE LockContention /\ Goto(c, "denied") /\ UNCHANGED lock
    <2>1. /\ call' \in [Clients -> Records]
          /\ call'[c].stage = "denied" /\ call'[c].fn = call[c].fn /\ call'[c].target = call[c].target
          /\ \A d \in Clients \ {c} : call'[d] = call[d]
      BY <1>0, <1>4, Goes DEF Stages, Waiting
    <2>2. Typed'
      BY <1>0, <1>1, <2>1 DEF Typed
    <2>3. Grows(c) /\ \A d \in Clients \ {c} : Untouched(d)
      BY <1>0, <1>1, <1>4, <2>1 DEF Typed, Grows, Untouched
    <2>4. Held(c)'
      BY <1>0, <1>1, <1>4, <2>1 DEF Held, Uses, Working, Migrating
    <2>5. Doing(c)'
      BY <1>1, <2>1 DEF Doing, Making, Migrating
    <2>6. Finds(c)'
      BY <1>0, <1>1, <1>4, <2>1 DEF Finds, CheckPasses
    <2>7. Whole'
      BY <1>1, <1>2, <2>3, StaysWhole
    <2> QED BY <2>2, <2>3, <2>4, <2>5, <2>6, <2>7, StepKeeps
  <1>5. CASE ~LockContention /\ why # "none" /\ Return(c, why)
    BY <1>1, <1>2, <1>3, <1>5, ReturnKeeps
  <1>6. CASE ~LockContention /\ why = "none" /\ lock' = c /\ Goto(c, "load")
    <2>1. /\ call' \in [Clients -> Records]
          /\ call'[c].stage = "load" /\ call'[c].fn = call[c].fn /\ call'[c].target = call[c].target
          /\ \A d \in Clients \ {c} : call'[d] = call[d]
      BY <1>0, <1>6, Goes DEF Stages, Waiting
    <2>2. Typed'
      BY <1>0, <1>1, <2>1 DEF Typed
    <2>3. Grows(c) /\ \A d \in Clients \ {c} : Untouched(d)
      BY <1>0, <1>1, <1>6, <2>1, DatabaseOpenAssumption
      DEF Typed, Grows, Untouched, LockContention
    <2>4. Held(c)'
      BY <1>0, <1>1, <1>6, <2>1 DEF Held, Uses, Working, Migrating
    <2>5. Doing(c)'
      BY <1>1, <2>1 DEF Doing, Making, Migrating
    <2>6. Finds(c)'
      BY <1>0, <1>1, <1>3, <1>6, <2>1 DEF Finds, CheckPasses
    <2>7. Whole'
      BY <1>1, <1>2, <2>3, StaysWhole
    <2> QED BY <2>2, <2>3, <2>4, <2>5, <2>6, <2>7, StepKeeps
  <1> QED BY <1>4, <1>5, <1>6 DEF Attempt

\* A schema file that is missing or torn ends an open; a whole one is loaded.
LEMMA LoadKeeps ==
  ASSUME OpenInv, NEW c \in Clients, Load(c), Kept
  PROVE  OpenInv'
  <1>0. Typed /\ Held(c) /\ Doing(c) /\ Finds(c) /\ Whole
    BY DEF OpenInv
  <1>1. /\ call[c].stage = "load" /\ call[c].fn \in DOMAIN Openers
        /\ UNCHANGED <<disk, refs, damage, live, worker>>
    BY <1>0 DEF Load, Kept, Doing, Waiting
  <1>2. ~Busy(c) /\ call[c].stage \notin {"idle"} \cup Migrating
    BY <1>1, Names DEF Busy, Migrating
  <1>3. CASE disk.file \notin Schemas
    <2>1. PICK error \in Errors : Return(c, error) /\ UNCHANGED schema
      BY <1>3 DEF Load, Errors
    <2> QED BY <1>1, <1>2, <2>1, ReturnKeeps
  <1>4. CASE disk.file \in Schemas
    <2>1. schema' = [schema EXCEPT ![c] = disk.file] /\ Goto(c, "ensure") /\ lock' = lock
      BY <1>4, DatabaseOpenAssumption DEF Load
    <2>2. /\ call' \in [Clients -> Records]
          /\ call'[c].stage = "ensure" /\ call'[c].fn = call[c].fn
          /\ call'[c].target = call[c].target
          /\ \A d \in Clients \ {c} : call'[d] = call[d]
      BY <1>0, <2>1, Goes DEF Stages
    <2>3. Typed'
      BY <1>0, <1>1, <1>4, <2>1, <2>2 DEF Typed
    <2>4. Grows(c) /\ \A d \in Clients \ {c} : Untouched(d)
      BY <1>0, <1>1, <2>1, <2>2 DEF Typed, Grows, Untouched
    <2>5. Held(c)'
      BY <1>0, <1>1, <2>1, <2>2 DEF Held, Uses, Working, Migrating
    <2>6. schema'[c] \in Schemas
      BY <1>0, <1>4, <2>1 DEF Typed
    <2>7. Doing(c)'
      BY <1>1, <2>2, <2>6 DEF Doing, Making, Migrating
    <2>8. Finds(c)'
      BY <1>0, <1>1, <1>4, <2>1, <2>2, DatabaseOpenAssumption DEF Finds, CheckPasses
    <2>9. Whole'
      BY <1>1, <1>2, <2>4, StaysWhole
    <2> QED BY <2>3, <2>4, <2>5, <2>7, <2>8, <2>9, StepKeeps
  <1> QED BY <1>3, <1>4

\* Once the reserved tables are there an open is done and a create stores its schema.
LEMMA EnsuredKeeps ==
  ASSUME OpenInv, NEW c \in Clients, Ensured(c), Kept
  PROVE  OpenInv'
  <1>0. Typed /\ Held(c) /\ Doing(c) /\ Finds(c) /\ Whole
    BY DEF OpenInv
  <1>1. /\ call[c].stage = "ensure" /\ Reserved \subseteq disk.tables
        /\ UNCHANGED <<disk, lock, schema, damage, live, worker>>
    BY DEF Ensured, ToEnsure, Kept
  <1>2. lock = c /\ ~Uses(c)
    BY <1>0, <1>1 DEF Held, Working, Migrating
  <1>3. CASE call[c].fn \in DOMAIN Openers
    <2>1. /\ call' \in [Clients -> Records] /\ call'[c] = Idle
          /\ \A d \in Clients \ {c} : call'[d] = call[d]
          /\ refs' = [refs EXCEPT ![c] = {"database"}]
      BY <1>0, <1>3, IdleRecord DEF Typed, Ensured
    <2>2. Typed'
      BY <1>0, <1>1, <2>1 DEF Typed
    <2>3. Grows(c) /\ \A d \in Clients \ {c} : Untouched(d)
      BY <1>0, <1>1, <2>1 DEF Typed, Grows, Untouched
    <2>4. Held(c)'
      BY <1>0, <1>1, <1>2, <2>1, IdleRecord DEF Typed, Held, Uses
    <2>5. Doing(c)'
      BY <2>1, IdleRecord DEF Doing, Making, Waiting, Migrating
    <2>6. schema[c] \in Schemas /\ disk.file # Missing
      BY <1>0, <1>1, <1>3, Names DEF Doing, Finds
    <2>7. Finds(c)'
      BY <1>0, <1>1, <2>1, <2>6, IdleRecord DEF Finds, CheckPasses
    <2>8. Whole'
      <3>1. ~Busy(c)
        BY <1>1, <1>3, Names DEF Busy
      <3> QED BY <1>1, <2>3, <3>1, StaysWhole
    <2> QED BY <2>2, <2>3, <2>4, <2>5, <2>7, <2>8, StepKeeps
  <1>4. CASE call[c].fn \notin DOMAIN Openers
    <2>1. /\ call' \in [Clients -> Records]
          /\ call'[c].stage = "store" /\ call'[c].fn = call[c].fn
          /\ call'[c].target = call[c].target
          /\ \A d \in Clients \ {c} : call'[d] = call[d]
          /\ refs' = refs
      BY <1>0, <1>4, Goes DEF Ensured, Stages, Making
    <2>2. Typed'
      BY <1>0, <1>1, <2>1 DEF Typed
    <2>3. Grows(c) /\ \A d \in Clients \ {c} : Untouched(d)
      BY <1>0, <1>1, <2>1 DEF Typed, Grows, Untouched
    <2>4. Held(c)'
      BY <1>0, <1>1, <2>1 DEF Held, Uses, Working, Migrating
    <2>5. Doing(c)'
      BY <1>0, <1>1, <1>4, <2>1 DEF Doing, Waiting, Migrating
    <2>6. Finds(c)'
      BY <1>0, <1>1, <1>2, <2>1 DEF Finds, Uses
    <2>7. Whole'
      BY <1>1, <2>1, <2>3, StaysWhole DEF Busy
    <2> QED BY <2>2, <2>3, <2>4, <2>5, <2>6, <2>7, StepKeeps
  <1> QED BY <1>3, <1>4

\* Every create function says whether it encrypts and asks for credentials.
LEMMA CreatorFlags ==
  ASSUME NEW fn \in DOMAIN Creators
  PROVE  Creators[fn].encrypted \in BOOLEAN /\ Creators[fn].credentials \in BOOLEAN
  <1>1. fn \in {"create", "create_encrypted", "create_with_credentials",
               "create_encrypted_with_credentials"}
    BY DEF Creators
  <1>2. CASE fn = "create" BY <1>2 DEF Creators, create
  <1>3. CASE fn = "create_encrypted" BY <1>3 DEF Creators, create_encrypted
  <1>4. CASE fn = "create_with_credentials" BY <1>4 DEF Creators, create_with_credentials
  <1>5. CASE fn = "create_encrypted_with_credentials"
    BY <1>5 DEF Creators, create_encrypted_with_credentials
  <1> QED BY <1>1, <1>2, <1>3, <1>4, <1>5

\* The core is made, with the lock of its maker, in a directory that had none.
LEMMA CreateCoreKeeps ==
  ASSUME OpenInv, NEW c \in Clients, CreateCore(c), Kept
  PROVE  OpenInv'
  <1>0. Typed /\ Held(c) /\ Doing(c) /\ Finds(c) /\ Whole
    BY DEF OpenInv
  <1>1. /\ call[c].stage = "core" /\ call[c].fn \in DOMAIN Creators /\ call[c].target \in Schemas
        /\ UNCHANGED <<refs, schema, damage, live, worker>>
    BY <1>0 DEF CreateCore, Kept, Doing, Making
  <1>2. call[c].stage \notin {"idle"} \cup Migrating /\ lock # c
    BY <1>0, <1>1 DEF Held, Working, Migrating
  <1>3. ASSUME NEW error \in Errors, Return(c, error), disk' = disk
        PROVE  OpenInv'
    BY <1>1, <1>2, <1>3, ReturnKeeps DEF Busy
  <1>4. CASE /\ ~LockContention /\ ~disk.core /\ lock' = c /\ Goto(c, "ensure")
             /\ disk' = [disk EXCEPT !.core = TRUE,
                           !.encrypted = Creators[call[c].fn].encrypted,
                           !.auth = Creators[call[c].fn].credentials]
    <2>1. /\ call' \in [Clients -> Records]
          /\ call'[c].stage = "ensure" /\ call'[c].fn = call[c].fn
          /\ call'[c].target = call[c].target
          /\ \A d \in Clients \ {c} : call'[d] = call[d]
      BY <1>0, <1>4, Goes DEF Stages
    <2>2. /\ disk' \in Directories /\ disk'.core
          /\ disk'.tables = disk.tables /\ disk'.file = disk.file
      BY <1>0, <1>1, <1>4, CreatorFlags DEF Typed, Directories
    <2>3. Typed'
      BY <1>0, <1>1, <2>1, <2>2 DEF Typed
    <2>4. Grows(c) /\ \A d \in Clients \ {c} : Untouched(d)
      BY <1>1, <1>4, <2>1, <2>2, DatabaseOpenAssumption DEF Grows, Untouched, LockContention
    <2>5. Held(c)'
      BY <1>0, <1>1, <1>4, <2>1 DEF Held, Uses, Working, Migrating
    <2>6. Doing(c)'
      BY <1>1, <2>1 DEF Doing, Waiting, Migrating
    <2>7. Finds(c)'
      BY <1>0, <1>1, <2>1, <2>2, Names DEF Finds, CheckPasses
    <2>8. Whole'
      BY <1>1, <1>4, <2>1 DEF Whole, Busy
    <2> QED BY <2>3, <2>4, <2>5, <2>6, <2>7, <2>8, StepKeeps
  <1> QED BY <1>3, <1>4 DEF CreateCore, Errors

\* An error of the engine while a table is made ends the call.
LEMMA EngineFailsKeeps ==
  ASSUME OpenInv, NEW c \in Clients, EngineFails(c), Kept
  PROVE  OpenInv'
  <1>0. Typed /\ Held(c)
    BY DEF OpenInv
  <1>1. /\ call[c].stage \in {"ensure", "store", "stored", "tables"} /\ Return(c, "Storage")
        /\ damage' = Damage(c) /\ UNCHANGED <<disk, refs, schema, live, worker>>
    BY DEF EngineFails, Kept
  <1>2. /\ Busy(c) => damage' = "half made"
        /\ ~Busy(c) => damage' = damage
    BY <1>1 DEF Busy, Damage
  <1> QED BY <1>1, <1>2, ReturnKeeps DEF Migrating, Errors

\* Time changes no stage.
LEMMA TickKeeps ==
  ASSUME OpenInv, Tick, Kept
  PROVE  OpenInv'
  <1>0. Typed /\ Whole /\ \A c \in Clients : Held(c) /\ Doing(c) /\ Finds(c)
    BY DEF OpenInv
  <1>1. UNCHANGED <<disk, lock, refs, schema, damage, live, worker>>
    BY DEF Tick, Kept
  <1>2. PICK d \in {call[c].sleep : c \in Clients} \cup {call[c].left : c \in Clients} :
          call' = [c \in Clients |->
                     [call[c] EXCEPT !.left = Less(@, d), !.sleep = Less(@, d)]]
    BY DEF Tick
  <1>3. d \in Int
    BY <1>0, <1>2 DEF Typed, Records
  <1>4. ASSUME NEW c \in Clients
        PROVE  /\ call'[c] \in Records
               /\ call'[c].stage = call[c].stage /\ call'[c].fn = call[c].fn
               /\ call'[c].target = call[c].target
    <2>1. call[c] \in Records
      BY <1>0 DEF Typed
    <2>2. Less(call[c].left, d) \in Int /\ Less(call[c].sleep, d) \in Int
      BY <1>3, <2>1 DEF Records, Less
    <2>3. call'[c] = [call[c] EXCEPT !.left = Less(@, d), !.sleep = Less(@, d)]
      BY <1>2
    <2> QED BY <2>1, <2>2, <2>3 DEF Records
  <1>5. call' \in [Clients -> Records]
    BY <1>2, <1>4
  <1>6. Typed'
    BY <1>0, <1>1, <1>5 DEF Typed
  <1>7. ASSUME NEW c \in Clients PROVE Held(c)' /\ Doing(c)' /\ Finds(c)'
    BY <1>0, <1>1, <1>4 DEF Held, Uses, Doing, Finds, CheckPasses
  <1>8. Whole'
    BY <1>0, <1>1, <1>4 DEF Whole, Busy
  <1> QED BY <1>6, <1>7, <1>8 DEF OpenInv

\* A step that changes nothing.
LEMMA StutterKeeps ==
  ASSUME OpenInv, UNCHANGED pyVars
  PROVE  OpenInv'
  BY DEF pyVars, OpenInv, Typed, Held, Uses, Doing, Finds, CheckPasses, Whole, Busy

\* Every step of every client keeps the invariant.
LEMMA NextKeeps == OpenInv /\ [Next]_pyVars => OpenInv'
  <1> SUFFICES ASSUME OpenInv, [Next]_pyVars PROVE OpenInv'
    OBVIOUS
  <1>1. CASE UNCHANGED pyVars
    BY <1>1, StutterKeeps
  <1>2. CASE Tick /\ Kept
    BY <1>2, TickKeeps
  <1>3. ASSUME NEW c \in Clients, c \notin worker, CallOpen(c) \/ CallCreate(c), Kept
        PROVE  OpenInv'
    BY <1>3, CallOpenKeeps, CallCreateKeeps
  <1>4. ASSUME NEW c \in Clients, CallSteps(c), Kept
        PROVE  OpenInv'
    BY <1>4, AttemptKeeps, BackOffKeeps, WakeKeeps, LoadKeeps, EnsureTableKeeps, EnsuredKeeps,
       CreateCoreKeeps, StoreSchemaKeeps, StoreEndsKeeps, CreateUserTableKeeps, CreatedKeeps
    DEF CallSteps
  <1>5. ASSUME NEW c \in Clients, SetAuth(c) \/ EngineFails(c) \/ Forget(c), Kept
        PROVE  OpenInv'
    BY <1>5, SetAuthKeeps, EngineFailsKeeps, ForgetKeeps
  <1>6. ASSUME NEW c \in Clients,
               \/ Begin(c) \/ EndTxn(c) \/ StartSql(c) \/ WorkerEnds(c) \/ DropQuery(c)
               \/ CloseDatabase(c)
        PROVE  OpenInv'
    BY <1>6, BeginKeeps, EndTxnKeeps, StartSqlKeeps, WorkerEndsKeeps, DropQueryKeeps,
       CloseDatabaseKeeps
  <1>7. ASSUME NEW c \in Clients,
               \/ SetSchema(c) \/ Migrate(c) \/ MigrateTable(c) \/ MigrateDrop(c)
               \/ Record(c) \/ Persist(c) \/ Persisted(c) \/ MigrateFails(c) \/ CrashAll(c)
        PROVE  OpenInv'
    BY <1>7, SetSchemaKeeps, MigrateKeeps, MigrateTableKeeps, MigrateDropKeeps, RecordKeeps,
       PersistKeeps, PersistedKeeps, MigrateFailsKeeps, CrashAllKeeps
  <1> QED BY <1>1, <1>2, <1>3, <1>4, <1>5, <1>6, <1>7 DEF Next

\* What clients hold, do and find of the directory stays consistent.
THEOREM OpenInvariant == Spec => []OpenInv
  BY InitInv, NextKeeps, PTL DEF Spec

\* The lock is held exactly while an object, a transaction or a running query
\* uses the database, or a call that opens or creates it is under way: close()
\* and collection never take the core from under a user, and leave no lock behind.
THEOREM LockIsHeldWhileUsed == Spec => []HeldWhileUsed
  <1>1. ASSUME OpenInv PROVE HeldWhileUsed
    <2> SUFFICES ASSUME NEW c \in Clients
                 PROVE  lock = c <=>
                          \/ refs[c] \cap {"database", "query"} # {} \/ c \in live \/ c \in worker
                          \/ call[c].stage \in Working
      BY DEF HeldWhileUsed, Working
    <2>1. Held(c) /\ refs[c] \subseteq {"database", "txn", "query"}
      BY <1>1 DEF OpenInv, Typed
    <2>2. refs[c] # {} <=> refs[c] \cap {"database", "query"} # {} \/ c \in live
      BY <2>1 DEF Held
    <2> QED BY <2>1, <2>2 DEF Held, Uses
  <1> QED BY <1>1, OpenInvariant, PTL

\* Every open database has its reserved tables and, when no migration is at work on
\* it, those of the schema it loaded, whatever crashed before, unless a create or a
\* migration was cut short while it lacked a table.
THEOREM OpenDatabasesStayWhole == Spec => []OpenDatabasesAreWhole
  <1>1. ASSUME OpenInv PROVE OpenDatabasesAreWhole
    <2> SUFFICES ASSUME NEW c \in Clients, Alive(c)
                 PROVE  /\ lock = c
                        /\ CheckPasses
                        /\ \/ damage \in {"half made", "half migrated"}
                           \/ schema[c] # disk.file
                           \/ call[c].stage \in {"migrating", "recorded", "persisting"}
                           \/ TablesOf[disk.file] \subseteq disk.tables
      BY DEF OpenDatabasesAreWhole
    <2>1. Held(c) /\ Doing(c) /\ Finds(c) /\ Whole
      BY <1>1 DEF OpenInv
    <2>2. lock = c /\ CheckPasses /\ disk.core /\ schema[c] \in Schemas
      BY <2>1 DEF Held, Finds, Uses, Alive
    <2>3. call[c].fn \notin DOMAIN Creators
      BY <2>1, Names DEF Held, Doing, Uses, Alive
    <2> QED BY <2>1, <2>2, <2>3, DatabaseOpenAssumption DEF Whole, Busy
  <1> QED BY <1>1, OpenInvariant, PTL

\* A database that no crash or failure damaged has its schema file and the tables
\* the file declares, unless somebody who has the lock creates it, writes the file,
\* or migrates it and has not yet written the file.
THEOREM UndamagedDatabasesOpen == Spec => []DatabasesStayOpenable
  <1>1. ASSUME OpenInv PROVE DatabasesStayOpenable
    BY <1>1 DEF OpenInv, Whole, Busy, DatabasesStayOpenable
  <1> QED BY <1>1, OpenInvariant, PTL

-----------------------------------------------------------------------------
(* The wait for the lock. *)

\* A call never sleeps past its deadline, and a create has none.
Timed(r) == /\ r.left \in Nat /\ r.sleep \in Nat /\ r.next \in Nat
            /\ r.sleep <= r.left
            /\ r.stage = "core" => r.left = 0

WaitInv == \A c \in Clients : Timed(call[c])

\* When c may be told that the database is locked: an opener, when an attempt was
\* denied and its deadline is over; a creator, when another client has the lock.
Late(c) == IF call[c].fn \in DOMAIN Openers
           THEN call[c].stage = "denied" /\ call[c].left = 0
           ELSE lock \notin {NoClient, c}

\* What every step does to the wait of a client.
Waits(c) == /\ Timed(call'[c])
            /\ call[c].stage # "denied" /\ call'[c].stage = "denied" => lock \notin {NoClient, c}
            /\ call'[c].error = "DatabaseLocked" => call[c].error = "DatabaseLocked" \/ Late(c)

LEMMA SetWaits ==
  ASSUME Typed, WaitInv, NEW c \in Clients, NEW r, call' = [call EXCEPT ![c] = r],
         Timed(r), r.stage = "denied" => lock \notin {NoClient, c},
         r.error = "DatabaseLocked" => call[c].error = "DatabaseLocked" \/ Late(c)
  PROVE  \A d \in Clients : Waits(d)
  <1>1. call'[c] = r /\ \A d \in Clients \ {c} : call'[d] = call[d]
    BY DEF Typed
  <1> QED BY <1>1 DEF Waits, WaitInv

LEMMA CallTimed ==
  ASSUME NEW fn, NEW stage, NEW target, NEW left \in Nat, NEW next \in Nat, NEW error,
         stage = "core" => left = 0
  PROVE  /\ Timed(Call(fn, stage, target, left, next, error))
         /\ Call(fn, stage, target, left, next, error).error = error
         /\ Call(fn, stage, target, left, next, error).stage = stage
  BY DEF Call, Timed

LEMMA SameWaits ==
  ASSUME WaitInv, call' = call
  PROVE  \A d \in Clients : Waits(d)
  BY DEF WaitInv, Waits

LEMMA IdleWaits ==
  ASSUME Typed, WaitInv, NEW c \in Clients, call' = [call EXCEPT ![c] = Idle]
  PROVE  \A d \in Clients : Waits(d)
  <1>1. Timed(Idle) /\ Idle.error = "none" /\ Idle.stage = "idle"
    BY CallTimed DEF Idle
  <1> QED BY <1>1, SetWaits

LEMMA ReturnWaits ==
  ASSUME Typed, WaitInv, NEW c \in Clients, NEW error, Return(c, error),
         error = "DatabaseLocked" => Late(c)
  PROVE  \A d \in Clients : Waits(d)
  <1> DEFINE r == Call("none", "failed", Missing, 0, 0, error)
  <1>1. Timed(r) /\ r.error = error /\ r.stage = "failed" /\ call' = [call EXCEPT ![c] = r]
    BY CallTimed DEF Return
  <1> HIDE DEF r
  <1> QED BY <1>1, SetWaits

\* A call goes on without touching its times.
LEMMA OnWaits ==
  ASSUME Typed, WaitInv, NEW c \in Clients, NEW stage, NEW target, stage \notin {"core", "denied"},
         call' = [call EXCEPT ![c] = [call[c] EXCEPT !.stage = stage, !.target = target]]
  PROVE  \A d \in Clients : Waits(d)
  <1> DEFINE r == [call[c] EXCEPT !.stage = stage, !.target = target]
  <1>1. call[c] \in Records /\ Timed(call[c])
    BY DEF Typed, WaitInv
  <1>2. /\ r.left = call[c].left /\ r.sleep = call[c].sleep /\ r.next = call[c].next
        /\ r.stage = stage /\ r.error = call[c].error
    BY <1>1 DEF Records
  <1>3. Timed(r)
    BY <1>1, <1>2 DEF Timed
  <1> HIDE DEF r
  <1> QED BY <1>2, <1>3, SetWaits DEF r

LEMMA GotoWaits ==
  ASSUME Typed, WaitInv, NEW c \in Clients, NEW stage, stage # "core", Goto(c, stage),
         stage = "denied" => lock \notin {NoClient, c}
  PROVE  \A d \in Clients : Waits(d)
  <1> DEFINE r == [call[c] EXCEPT !.stage = stage]
  <1>1. call[c] \in Records /\ Timed(call[c])
    BY DEF Typed, WaitInv
  <1>2. /\ r.left = call[c].left /\ r.sleep = call[c].sleep /\ r.next = call[c].next
        /\ r.stage = stage /\ r.error = call[c].error
    BY <1>1 DEF Records
  <1>3. Timed(r)
    BY <1>1, <1>2 DEF Timed
  <1>4. call' = [call EXCEPT ![c] = r]
    BY DEF Goto
  <1> HIDE DEF r
  <1> QED BY <1>2, <1>3, <1>4, SetWaits

\* A client without an open database that asks for one does not have the lock.
LEMMA AskersWait ==
  ASSUME OpenInv, NEW c \in Clients, call[c].stage \in {"attempt", "core"}
  PROVE  lock # c /\ (call[c].stage = "core" => call[c].fn \notin DOMAIN Openers)
  BY Names DEF OpenInv, Held, Uses, Doing, Making, Working, Migrating

LEMMA AttemptWaits ==
  ASSUME OpenInv, WaitInv, NEW c \in Clients, Attempt(c)
  PROVE  \A d \in Clients : Waits(d)
  <1>1. Typed /\ lock # c /\ call[c] \in Records /\ Timed(call[c])
    BY AskersWait DEF OpenInv, Typed, WaitInv, Attempt
  <1>2. CASE LockContention /\ Goto(c, "denied")
    BY <1>1, <1>2, GotoWaits DEF LockContention
  <1>3. ASSUME NEW why, why = Refuses(Openers[call[c].fn]), Return(c, why)
        PROVE  \A d \in Clients : Waits(d)
    <2>1. why # "DatabaseLocked"
      BY <1>3 DEF Refuses
    <2> QED BY <1>1, <1>3, <2>1, ReturnWaits
  <1>4. CASE Goto(c, "load")
    BY <1>1, <1>4, GotoWaits
  <1> QED BY <1>2, <1>3, <1>4 DEF Attempt

LEMMA BackOffWaits ==
  ASSUME OpenInv, WaitInv, NEW c \in Clients, BackOff(c)
  PROVE  \A d \in Clients : Waits(d)
  <1>1. /\ Typed /\ call[c] \in Records /\ Timed(call[c])
        /\ call[c].stage = "denied" /\ call[c].fn \in DOMAIN Openers
    BY DEF OpenInv, Typed, WaitInv, Doing, Waiting, BackOff
  <1>2. CASE call[c].left = 0
    BY <1>1, <1>2, ReturnWaits DEF BackOff, Late
  <1>3. CASE call[c].left # 0
    <2>1. PICK z : z = IF call[c].next < call[c].left THEN call[c].next ELSE call[c].left
      OBVIOUS
    <2>2. PICK n : n = IF 10 * call[c].next < LongestSleep THEN 10 * call[c].next ELSE LongestSleep
      OBVIOUS
    <2> DEFINE r == [call[c] EXCEPT !.stage = "asleep", !.sleep = z, !.next = n]
    <2>3. z \in Nat /\ z <= call[c].left /\ n \in Nat
      BY <1>1, <2>1, <2>2 DEF Timed, LongestSleep
    <2>4. /\ r.left = call[c].left /\ r.sleep = z /\ r.next = n
          /\ r.stage = "asleep" /\ r.error = call[c].error
      BY <1>1 DEF Records
    <2>5. Timed(r)
      BY <1>1, <2>3, <2>4 DEF Timed
    <2>6. call' = [call EXCEPT ![c] = r]
      BY <1>3, <2>1, <2>2 DEF BackOff
    <2> HIDE DEF r
    <2> QED BY <1>1, <2>4, <2>5, <2>6, SetWaits
  <1> QED BY <1>2, <1>3

LEMMA CreateCoreWaits ==
  ASSUME OpenInv, WaitInv, NEW c \in Clients, CreateCore(c)
  PROVE  \A d \in Clients : Waits(d)
  <1>1. Typed /\ lock # c /\ call[c].fn \notin DOMAIN Openers
    BY AskersWait DEF OpenInv, CreateCore
  <1>2. CASE LockContention /\ Return(c, "DatabaseLocked")
    BY <1>1, <1>2, ReturnWaits DEF Late, LockContention
  <1>3. CASE Return(c, "Exists")
    BY <1>1, <1>3, ReturnWaits
  <1>4. CASE Goto(c, "ensure")
    BY <1>1, <1>4, GotoWaits
  <1> QED BY <1>2, <1>3, <1>4 DEF CreateCore

LEMMA TimeoutsAreNaturals ==
  ASSUME NEW timeout \in Timeouts \cup {0}
  PROVE  timeout \in Nat
  BY DatabaseOpenAssumption

LEMMA CallsWait ==
  ASSUME Typed, WaitInv, NEW c \in Clients, CallOpen(c) \/ CallCreate(c)
  PROVE  \A d \in Clients : Waits(d)
  <1>1. ASSUME NEW fn, NEW stage, NEW target, NEW left \in Nat, NEW next \in Nat,
               stage = "core" => left = 0, stage # "denied",
               call' = [call EXCEPT ![c] = Call(fn, stage, target, left, next, "none")]
        PROVE  \A d \in Clients : Waits(d)
    <2> DEFINE r == Call(fn, stage, target, left, next, "none")
    <2>1. Timed(r) /\ r.error = "none" /\ r.stage # "denied"
      BY <1>1, CallTimed
    <2> HIDE DEF r
    <2> QED BY <1>1, <2>1, SetWaits DEF r
  <1>2. CASE CallOpen(c)
    <2>1. PICK fn \in Wanted[c] \cap DOMAIN Openers, timeout \in Timeouts \cup {0} :
            call' = [call EXCEPT ![c] = Call(fn, "attempt", Missing, timeout, FirstSleep, "none")]
      BY <1>2 DEF CallOpen
    <2> DEFINE r == Call(fn, "attempt", Missing, timeout, FirstSleep, "none")
    <2>2. timeout \in Nat /\ FirstSleep \in Nat
      BY TimeoutsAreNaturals DEF FirstSleep
    <2>3. Timed(r) /\ r.error = "none" /\ r.stage # "denied"
      BY <2>2, CallTimed
    <2> HIDE DEF r
    <2> QED BY <2>1, <2>3, SetWaits DEF r
  <1>3. CASE CallCreate(c)
    <2>1. PICK fn, target : call' = [call EXCEPT ![c] = Call(fn, "core", target, 0, 0, "none")]
      BY <1>3 DEF CallCreate
    <2> QED BY <1>1, <2>1
  <1> QED BY <1>2, <1>3

LEMMA LessBounds ==
  ASSUME NEW x \in Nat, NEW y \in Nat, y <= x, NEW m \in Nat
  PROVE  /\ Less(x, m) \in Nat /\ Less(y, m) \in Nat /\ Less(y, m) <= Less(x, m)
         /\ x = 0 => Less(x, m) = 0
  BY DEF Less

LEMMA TickWaits ==
  ASSUME Typed, WaitInv, Tick
  PROVE  \A d \in Clients : Waits(d)
  <1>1. PICK m \in {call[c].sleep : c \in Clients} \cup {call[c].left : c \in Clients} :
          /\ m > 0
          /\ call' = [c \in Clients |->
                        [call[c] EXCEPT !.left = Less(@, m), !.sleep = Less(@, m)]]
    BY DEF Tick
  <1>2. m \in Nat
    BY <1>1 DEF WaitInv, Timed
  <1> SUFFICES ASSUME NEW d \in Clients PROVE Waits(d)
    OBVIOUS
  <1>3. call[d] \in Records /\ Timed(call[d])
    BY DEF Typed, WaitInv
  <1>4. /\ Less(call[d].left, m) \in Nat /\ Less(call[d].sleep, m) \in Nat
        /\ Less(call[d].sleep, m) <= Less(call[d].left, m)
        /\ call[d].left = 0 => Less(call[d].left, m) = 0
    <2>1. PICK x, y : x = call[d].left /\ y = call[d].sleep
      OBVIOUS
    <2>2. x \in Nat /\ y \in Nat /\ y <= x
      BY <1>3, <2>1 DEF Timed
    <2>3. /\ Less(x, m) \in Nat /\ Less(y, m) \in Nat /\ Less(y, m) <= Less(x, m)
          /\ x = 0 => Less(x, m) = 0
      BY <1>1, <1>2, <2>2, LessBounds
    <2> QED BY <2>1, <2>3
  <1>5. call'[d] = [call[d] EXCEPT !.left = Less(call[d].left, m), !.sleep = Less(call[d].sleep, m)]
    BY <1>1
  <1>6. /\ call'[d].left = Less(call[d].left, m) /\ call'[d].sleep = Less(call[d].sleep, m)
        /\ call'[d].next = call[d].next /\ call'[d].stage = call[d].stage
        /\ call'[d].error = call[d].error
    BY <1>3, <1>5 DEF Records
  <1> QED BY <1>3, <1>4, <1>6 DEF Waits, Timed

LEMMA NextWaits ==
  ASSUME OpenInv, WaitInv, Next
  PROVE  \A d \in Clients : Waits(d)
  <1>0. Typed
    BY DEF OpenInv
  <1>1. ASSUME NEW c \in Clients, CallSteps(c)
        PROVE  \A d \in Clients : Waits(d)
    <2>1. CASE EnsureTable(c) \/ CreateUserTable(c)
      BY <2>1, SameWaits DEF EnsureTable, CreateUserTable
    <2>2. CASE Wake(c) \/ StoreSchema(c) \/ StoreEnds(c)
      BY <1>0, <2>2, GotoWaits DEF Wake, StoreSchema, StoreEnds
    <2>3. CASE Load(c)
      BY <1>0, <2>3, GotoWaits, ReturnWaits DEF Load
    <2>4. CASE Ensured(c) \/ Created(c)
      BY <1>0, <2>4, IdleWaits, GotoWaits DEF Ensured, Created
    <2> QED BY <1>1, <2>1, <2>2, <2>3, <2>4, AttemptWaits, BackOffWaits, CreateCoreWaits
      DEF CallSteps
  <1>2. ASSUME NEW c \in Clients, SetAuth(c) \/ EngineFails(c) \/ Forget(c)
        PROVE  \A d \in Clients : Waits(d)
    BY <1>0, <1>2, SameWaits, ReturnWaits, IdleWaits DEF SetAuth, EngineFails, Forget
  <1>3. ASSUME NEW c \in Clients,
               \/ Begin(c) \/ EndTxn(c) \/ StartSql(c) \/ WorkerEnds(c) \/ DropQuery(c)
               \/ CloseDatabase(c) \/ SetSchema(c) \/ MigrateTable(c) \/ MigrateDrop(c)
        PROVE  \A d \in Clients : Waits(d)
    BY <1>3, SameWaits
    DEF Begin, EndTxn, StartSql, WorkerEnds, DropQuery, CloseDatabase, SetSchema, MigrateTable, MigrateDrop
  <1>4. ASSUME NEW c \in Clients, Migrate(c)
        PROVE  \A d \in Clients : Waits(d)
    <2>1. call' = [call EXCEPT ![c] = [call[c] EXCEPT !.stage = "migrating", !.target = schema[c]]]
      BY <1>4 DEF Migrate
    <2> QED BY <1>0, <2>1, OnWaits
  <1>5. ASSUME NEW c \in Clients, Record(c) \/ Persist(c)
        PROVE  \A d \in Clients : Waits(d)
    BY <1>0, <1>5, GotoWaits DEF Record, Persist
  <1>6. ASSUME NEW c \in Clients, Persisted(c) \/ MigrateFails(c) \/ CrashAll(c)
        PROVE  \A d \in Clients : Waits(d)
    BY <1>0, <1>6, IdleWaits DEF Persisted, MigrateFails, CrashAll, Crash
  <1> QED BY <1>0, <1>1, <1>2, <1>3, <1>4, <1>5, <1>6, CallsWait, TickWaits DEF Next

\* open_core_with_retry: no sleep passes the deadline, and a caller that waits is
\* told DatabaseLocked only when its timeout is over and its last attempt found the
\* lock with another client, which may have let go since; whatever time passes
\* between attempts.  A create is told so only while another client has the lock.
THEOREM TimeoutsAreWaitedOut == Spec => WaitsItsTimeoutOut
  <1>1. PyInit => WaitInv
    <2>1. Timed(Idle)
      BY CallTimed DEF Idle
    <2> QED BY <2>1 DEF PyInit, Init, WaitInv
  <1>2. OpenInv /\ WaitInv /\ [Next]_pyVars => WaitInv'
    <2>1. OpenInv /\ WaitInv /\ Next => WaitInv'
      BY NextWaits DEF Waits, WaitInv
    <2>2. WaitInv /\ UNCHANGED pyVars => WaitInv'
      BY DEF pyVars, WaitInv
    <2> QED BY <2>1, <2>2
  <1>3. OpenInv /\ WaitInv /\ [Next]_pyVars
          => [\A c \in Clients :
                /\ call[c].stage = "asleep" => call[c].sleep <= call[c].left
                /\ call[c].stage # "denied" /\ call'[c].stage = "denied"
                     => lock \notin {NoClient, c}
                /\ call[c].error = "none" /\ call'[c].error = "DatabaseLocked"
                     => IF call[c].fn \in DOMAIN Openers
                        THEN call[c].stage = "denied" /\ call[c].left = 0
                        ELSE lock \notin {NoClient, c}]_pyVars
    BY NextWaits DEF Waits, WaitInv, Timed, Late
  <1> QED BY <1>1, <1>2, <1>3, OpenInvariant, PTL DEF Spec, WaitsItsTimeoutOut
===============================================================================
