---------------------------- MODULE MCRemoteSql ----------------------------
(***************************************************************************)
(* Finite instances of RemoteSql.                                          *)
(***************************************************************************)
EXTENDS RemoteSql

\* An idempotent write that its caller repeats with the same key, and the other
\* kinds of calls before a change of the schema.
MCPrograms == {<<"idempotent", "idempotent">>, <<"sql", "ddl">>, <<"batch", "ddl">>}

\* Two writes fail by themselves: the others by a deadline or a cancellation.
MCCodes == [sql |-> {"UNIQUE_VIOLATION"}, batch |-> {"UNIQUE_VIOLATION"},
            ddl |-> {"CONFLICT"}, idempotent |-> {}]

\* One plain statement, and one idempotent write, which may be replayed.
MCPlain == {<<"sql">>}
MCReplayed == {<<"idempotent">>}
=============================================================================
