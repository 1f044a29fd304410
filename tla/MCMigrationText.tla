---- MODULE MCMigrationText ----
(* Files of any earlier release with a memory or none, and no statement that fails. *)
EXTENDS Migration

CONSTANTS c1, c2
MCAdded == <<c1, c2>>
====
