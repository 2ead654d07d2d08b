----------------------------- MODULE MCPyDatabase -----------------------------
(***************************************************************************)
(* Two clients and a directory that is empty, or holds the database of an   *)
(* older release without the last reserved tables.                          *)
(***************************************************************************)
EXTENDS PyDatabase, TLC

Schemas2 == [v1 |-> {"users"}, v2 |-> {"users", "posts"}]

Empty == [core |-> FALSE, encrypted |-> FALSE, auth |-> FALSE, tables |-> {},
          applied |-> {}, file |-> Missing]
Older == [core |-> TRUE, encrypted |-> FALSE, auth |-> FALSE,
          tables |-> {ReservedTables[1], ReservedTables[2], "users"},
          applied |-> {"v1"}, file |-> "v1"]
Directories0 == {Empty, Older}

\* One client creates and opens in several ways, the other waits for the lock.
CONSTANTS c1, c2
Functions2 == c1 :> {"open", "open_encrypted", "open_with_credentials", "create", "create_encrypted"}
           @@ c2 :> {"open_with_options"}
=============================================================================
