-------------------------- MODULE MCAccountWorkers --------------------------
(* Small instances of AccountWorkers. *)
EXTENDS AccountWorkers
=============================================================================
