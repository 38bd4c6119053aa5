----------------------------- MODULE MailQueue ------------------------------
(***************************************************************************)
(* What an outbox promises its user, without tasks, rows or connections:    *)
(* a message is kept as a draft or submitted; a submitted message is tried  *)
(* until it is reported sent or failed, and that report is final; a second  *)
(* copy goes out only when every earlier copy is in doubt, that is, when    *)
(* the sender was told of an error although the copy was taken.             *)
(***************************************************************************)
EXTENDS Naturals

CONSTANTS
    Messages,   \* the messages of the user
    Patience    \* failed tries before a message may be reported failed

VARIABLES
    state,      \* what the user is told of a message
    copies,     \* copies of a message handed over to the mail system
    doubts,     \* copies handed over of which the sender saw an error
    errors      \* failed tries

queueVars == <<state, copies, doubts, errors>>

QueueInit ==
    /\ state = [m \in Messages |-> "none"]
    /\ copies = [m \in Messages |-> 0]
    /\ doubts = [m \in Messages |-> 0]
    /\ errors = [m \in Messages |-> 0]

Enter(m, as) ==
    /\ state[m] = "none"
    /\ state' = [state EXCEPT ![m] = as]
    /\ UNCHANGED <<copies, doubts, errors>>

\* Every copy handed over so far is in doubt.
NothingConfirmed(m) == copies[m] = doubts[m]

HandOver(m) ==
    /\ state[m] = "pending"
    /\ NothingConfirmed(m)
    /\ copies' = [copies EXCEPT ![m] = @ + 1]
    /\ UNCHANGED <<state, doubts, errors>>

TryFails(m) ==
    /\ state[m] = "pending"
    /\ NothingConfirmed(m)
    /\ errors' = [errors EXCEPT ![m] = @ + 1]
    /\ UNCHANGED <<state, copies, doubts>>

LoseReply(m) ==
    /\ state[m] = "pending"
    /\ copies[m] = doubts[m] + 1
    /\ doubts' = [doubts EXCEPT ![m] = @ + 1]
    /\ errors' = [errors EXCEPT ![m] = @ + 1]
    /\ UNCHANGED <<state, copies>>

ReportSent(m) ==
    /\ state[m] = "pending"
    /\ copies[m] = doubts[m] + 1
    /\ state' = [state EXCEPT ![m] = "sent"]
    /\ UNCHANGED <<copies, doubts, errors>>

ReportFailed(m) ==
    /\ state[m] = "pending"
    /\ NothingConfirmed(m)
    /\ errors[m] >= Patience
    /\ state' = [state EXCEPT ![m] = "failed"]
    /\ UNCHANGED <<copies, doubts, errors>>

QueueNext ==
    \E m \in Messages :
        \/ Enter(m, "draft") \/ Enter(m, "pending")
        \/ HandOver(m) \/ TryFails(m) \/ LoseReply(m)
        \/ ReportSent(m) \/ ReportFailed(m)

QueueSpec == QueueInit /\ [][QueueNext]_queueVars
=============================================================================
