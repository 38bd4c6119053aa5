---------------------------- MODULE MCIdleWorker ----------------------------
(* Small instances of IdleWorker. *)
EXTENDS IdleWorker
=============================================================================
