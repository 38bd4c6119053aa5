------------------------------ MODULE MCOutbox ------------------------------
(* Small instances of Outbox, with dispatches that overlap.                  *)
EXTENDS Outbox
=============================================================================
