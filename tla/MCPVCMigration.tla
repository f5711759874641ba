--------------------------- MODULE MCPVCMigration ---------------------------
(* PVCMigration on small instances. *)
EXTENDS PVCMigration
=============================================================================
