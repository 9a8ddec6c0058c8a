----------------------------- MODULE MCMigrator -----------------------------
(* The embedded migrations of the Picodata backend, for TLC. *)
EXTENDS Migrator

S(op, table, column) == [op |-> op, table |-> table, column |-> column]

MCFiles == <<
    [version |-> 1, name |-> "create_outbox_jobs",
     up |-> <<S("create", "jobs", None)>>, down |-> <<S("drop", "jobs", None)>>],
    [version |-> 2, name |-> "create_outbox_jobs_failed",
     up |-> <<S("create", "failed", None)>>, down |-> <<S("drop", "failed", None)>>],
    [version |-> 3, name |-> "add_capability_leases",
     up |-> <<S("alter", "jobs", "schema_version"), S("update", "jobs", "schema_version"),
              S("alter", "jobs", "lease_token"), S("update", "jobs", "lease_token"),
              S("alter", "failed", "schema_version"), S("update", "failed", "schema_version")>>,
     down |-> <<S("update", "jobs", "schema_version")>>] >>
=============================================================================
