--------------------------- MODULE MCVolumeTasks ----------------------------
(* VolumeTasks on small instances. *)
EXTENDS VolumeTasks
=============================================================================
