--------------------------- MODULE MCOutboxSerial ---------------------------
(* Model-checking instance of OutboxSerial.                                  *)
EXTENDS OutboxSerial

ASSUME OneTask
=============================================================================
