------------------------------ MODULE Migrations ------------------------------
(***************************************************************************)
(* apply_migrations, which runs whenever the state store is opened.  The   *)
(* connection is opened with isolation_level=None, that is, in autocommit  *)
(* mode, where "with connection" begins no transaction: each statement is  *)
(* committed by itself.                                                    *)
(***************************************************************************)
EXTENDS Naturals, Sequences

\* Mutant: the version is recorded before the statements are executed.
StatementsVersionFirst ==
    <<"schema_meta", "version 1", "operations", "certificate_state", "alert_dedup",
      "operations_certificate_state">>

\* The object that each statement creates, the last one the row of
\* schema_meta that says that version 1 is applied.
Statements ==
    <<"schema_meta", "operations", "certificate_state", "alert_dedup",
      "operations_certificate_state", "version 1">>

Objects == {Statements[k] : k \in DOMAIN Statements}

\* The version is applied, so that the store can be used.
Migrated(schema) == "version 1" \in schema

\* schema_meta is created if it does not exist, in any case.
Opened(schema) == schema \union {Statements[1]}

\* Only the statement for schema_meta says IF NOT EXISTS.
Refuses(schema, k) == Statements[k] \in schema

Executed(schema, k) == schema \union {Statements[k]}
=============================================================================
