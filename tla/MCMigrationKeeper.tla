-------------------------- MODULE MCMigrationKeeper --------------------------
(***************************************************************************)
(* A graduated launch with tax burnt, three moves of others, two           *)
(* transactions in the pool.                                               *)
(***************************************************************************)
EXTENDS MigrationKeeper

=============================================================================
