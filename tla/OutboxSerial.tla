---------------------------- MODULE OutboxSerial ----------------------------
(***************************************************************************)
(* The outbox when dispatches of the account do not overlap: one task at a  *)
(* time.  The supervisor does not ensure it (it spawns a task per request), *)
(* but this is how an outbox with few requests runs, and then it implements *)
(* the queue its user expects.                                              *)
(***************************************************************************)
EXTENDS Outbox

\* What is then assumed of the tasks.
OneTask == \A d, e \in Dispatchers : d = e

\* What a status tells the user: queued and sending are both "on its way".
Told(s) ==
    CASE s = "absent" -> "none"
      [] s \in {"queued", "sending"} -> "pending"
      [] OTHER -> s

Queue == INSTANCE MailQueue WITH
    Messages <- Msgs,
    Patience <- MaxRetries,
    state    <- [m \in Msgs |-> Told(status[m])],
    copies   <- accepted,
    doubts   <- lost,
    errors   <- failures

\* The dispatcher, its table and the SMTP exchanges implement the mail queue: what
\* the user is told of a message is final, and copies are repeated only in doubt.
ImplementsMailQueue == Queue!QueueSpec
=============================================================================
