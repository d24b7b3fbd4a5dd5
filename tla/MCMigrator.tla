------------------------------ MODULE MCMigrator ---------------------------
(* An instance of Migrator for TLC. *)
EXTENDS Migrator
=============================================================================
