------------------------------- MODULE Outbox -------------------------------
(***************************************************************************)
(* The outgoing-mail path of edvige: the composer of the GUI process saves  *)
(* a message in the outbox table and asks the supervisor process, over the  *)
(* socket, to dispatch the outbox; the supervisor spawns one task for each  *)
(* such request; the task takes a snapshot of the queued rows, opens an     *)
(* SMTP connection and sends the rows one after the other, recording each   *)
(* outcome in the table.                                                    *)
(*                                                                          *)
(* One account is modelled: every statement of a dispatch is restricted to  *)
(* the rows of its account, so the outboxes of two accounts do not meet.    *)
(* Every SQL statement is autocommitted and is one step here; nothing in    *)
(* the code holds a lock or a transaction across two of them.               *)
(***************************************************************************)
EXTENDS Naturals, FiniteSets

CONSTANTS
    NumMsgs,        \* how many messages the user composes (bound of the model)
    Dispatchers,    \* dispatch tasks that may be alive at the same time
    PeekLimit,      \* rows one dispatch takes (10 in dispatcher.rs)
    MaxRetries,     \* failed attempts before giving up (3 in dispatcher.rs)
    MaxRestarts,    \* restarts of a process in one behaviour (bound of the model)
    Kinds,          \* what the user composes: "mail", "bare" (no recipient), "draft"
    Faults          \* what may go wrong: "network", "storage", "restart"

ASSUME OutboxAssumption ==
    /\ NumMsgs \in Nat
    /\ IsFiniteSet(Dispatchers)
    /\ PeekLimit \in Nat
    /\ MaxRetries \in Nat \ {0}
    /\ MaxRestarts \in Nat
    /\ Kinds \subseteq {"mail", "bare", "draft"}
    /\ Faults \subseteq {"network", "storage", "restart"}

\* Ids are UUIDv7 and created_at is taken with the id: messages are numbered in
\* the order in which they are composed, which is the order of created_at.
Msgs == 1..NumMsgs

Statuses == {"absent", "draft", "queued", "sending", "sent", "failed"}

\* Where a dispatch task is: before the statement, or the exchange, named.
Stages == {"idle", "peek", "connect", "mark", "build", "smtp", "reply", "sent",
           "failRead", "failWrite"}

VARIABLES
    composed,   \* messages composed so far
    kind,       \* what message m is
    gui,        \* progress of the GUI task that saves m and asks for a dispatch
    linked,     \* the GUI process is connected to the live supervisor
    requests,   \* DispatchOutbox requests sent and not yet served
    status,     \* column status of outbox_messages
    retries,    \* column retry_count of outbox_messages
    pc,         \* where dispatch task d is
    todo,       \* rows of its snapshot that task d has still to handle
    connUp,     \* the SMTP connection of task d is usable
    readCount,  \* the retry count task d computed before its UPDATE
    restarts,   \* restarts so far
    accepted,   \* history: copies of m the SMTP server took responsibility for
    lost,       \* history: copies of m taken although the task saw an error
    failures,   \* history: attempts at m that ended in an error
    unrecorded, \* history: messages with an attempt whose outcome was never written
    refused     \* history: a dispatch has ended before it tried a row

uiVars   == <<composed, kind, gui, linked>>
rowVars  == <<status, retries>>
taskVars == <<pc, todo, connUp, readCount>>
history  == <<accepted, lost, failures, unrecorded, refused>>
vars     == <<composed, kind, gui, linked, requests, status, retries, pc, todo,
              connUp, readCount, restarts, accepted, lost, failures, unrecorded, refused>>

TypeOK ==
    /\ composed \in 0..NumMsgs
    /\ kind \in [Msgs -> Kinds \cup {"none"}]
    /\ gui \in [Msgs -> {"none", "saving", "saved", "done", "lost"}]
    /\ linked \in BOOLEAN
    /\ requests \in Nat
    /\ status \in [Msgs -> Statuses]
    /\ retries \in [Msgs -> Nat]
    /\ pc \in [Dispatchers -> Stages]
    /\ todo \in [Dispatchers -> SUBSET Msgs]
    /\ connUp \in [Dispatchers -> BOOLEAN]
    /\ readCount \in [Dispatchers -> Nat]
    /\ restarts \in 0..MaxRestarts
    /\ accepted \in [Msgs -> Nat]
    /\ lost \in [Msgs -> Nat]
    /\ failures \in [Msgs -> Nat]
    /\ unrecorded \subseteq Msgs
    /\ refused \in BOOLEAN

Init ==
    /\ composed = 0
    /\ kind = [m \in Msgs |-> "none"]
    /\ gui = [m \in Msgs |-> "none"]
    /\ linked = TRUE
    /\ requests = 0
    /\ status = [m \in Msgs |-> "absent"]
    /\ retries = [m \in Msgs |-> 0]
    /\ pc = [d \in Dispatchers |-> "idle"]
    /\ todo = [d \in Dispatchers |-> {}]
    /\ connUp = [d \in Dispatchers |-> FALSE]
    /\ readCount = [d \in Dispatchers |-> 0]
    /\ restarts = 0
    /\ accepted = [m \in Msgs |-> 0]
    /\ lost = [m \in Msgs |-> 0]
    /\ failures = [m \in Msgs |-> 0]
    /\ unrecorded = {}
    /\ refused = FALSE

-----------------------------------------------------------------------------
(***************************************************************************)
(* The GUI process.  The composer closes and forgets its fields at once and *)
(* leaves saving to a spawned task, so saves may finish in another order.   *)
(***************************************************************************)

\* ComposerAction::Send and ComposerAction::SaveDraft: a fresh message each time.
Compose(k) ==
    /\ composed < NumMsgs
    /\ composed' = composed + 1
    /\ kind' = [kind EXCEPT ![composed + 1] = k]
    /\ gui' = [gui EXCEPT ![composed + 1] = "saving"]
    /\ UNCHANGED <<linked, requests, rowVars, taskVars, restarts, history>>

\* save_outbox_message with a fresh id.  A draft's task ends here.
SaveMessage(m) ==
    /\ gui[m] = "saving"
    /\ status' = [status EXCEPT ![m] = IF kind[m] = "draft" THEN "draft" ELSE "queued"]
    /\ retries' = [retries EXCEPT ![m] = 0]
    /\ gui' = [gui EXCEPT ![m] = IF kind[m] = "draft" THEN "done" ELSE "saved"]
    /\ UNCHANGED <<composed, kind, linked, requests, taskVars, restarts, history>>

SaveFails(m) ==
    /\ "storage" \in Faults
    /\ gui[m] = "saving"
    /\ gui' = [gui EXCEPT ![m] = "lost"]
    /\ UNCHANGED <<composed, kind, linked, requests, rowVars, taskVars, restarts, history>>

\* The user is told the message is queued and DispatchOutbox goes to the socket;
\* the result of that send is ignored, also when the supervisor is gone.
RequestDispatch(m) ==
    /\ gui[m] = "saved"
    /\ gui' = [gui EXCEPT ![m] = "done"]
    /\ requests' = IF linked THEN requests + 1 ELSE requests
    /\ UNCHANGED <<composed, kind, linked, rowVars, taskVars, restarts, history>>

-----------------------------------------------------------------------------
(***************************************************************************)
(* A dispatch task of the supervisor.                                       *)
(***************************************************************************)

\* The oldest PeekLimit rows of a set, and the oldest row of a snapshot: the
\* snapshot is a list sorted by created_at, kept here as a set of numbers.
Oldest(rows) == {m \in rows : Cardinality({n \in rows : n < m}) < PeekLimit}
Current(d) == CHOOSE m \in todo[d] : \A n \in todo[d] : m <= n

\* Task d has started on its current row and has not recorded the outcome.
Trying(d) == pc[d] \in {"build", "smtp", "reply", "sent", "failRead", "failWrite"}

Queued == {m \in Msgs : status[m] = "queued"}

GoTo(d, where) == pc' = [pc EXCEPT ![d] = where]

\* The task returns, and its snapshot, connection and locals go with it.
Return(d) ==
    /\ GoTo(d, "idle")
    /\ todo' = [todo EXCEPT ![d] = {}]
    /\ connUp' = [connUp EXCEPT ![d] = FALSE]
    /\ readCount' = [readCount EXCEPT ![d] = 0]

\* The loop of dispatch_account_outbox goes on with the next row of the snapshot;
\* after the last one it quits and returns.
NextMessage(d) ==
    \/ /\ todo[d] = {Current(d)}
       /\ Return(d)
    \/ /\ todo[d] # {Current(d)}
       /\ todo' = [todo EXCEPT ![d] = @ \ {Current(d)}]
       /\ readCount' = [readCount EXCEPT ![d] = 0]
       /\ GoTo(d, "mark")
       /\ UNCHANGED connUp

\* An attempt ended in an error: mark_outbox_failed comes next.
AttemptFails(d) ==
    /\ failures' = [failures EXCEPT ![Current(d)] = @ + 1]
    /\ GoTo(d, "failRead")

-----------------------------------------------------------------------------
(***************************************************************************)
(* Broken variants of the actions below.  Nothing here is part of Next: each *)
(* is a mistake that is easily made in the dispatcher or its SQL, and shows  *)
(* that a property notices it.                                               *)
(***************************************************************************)

\* A busy dispatcher drops the request instead of running once more.
SpawnUnlessBusy(d) ==
    /\ requests > 0
    /\ pc[d] = "idle"
    /\ requests' = requests - 1
    /\ pc' = IF \E e \in Dispatchers : pc[e] # "idle" THEN pc ELSE [pc EXCEPT ![d] = "peek"]
    /\ UNCHANGED <<uiVars, rowVars, todo, connUp, readCount, restarts, history>>

\* The error of a build is propagated with ?, past mark_outbox_failed.
BuildFailsOut(d) ==
    /\ pc[d] = "build"
    /\ kind[Current(d)] = "bare" \/ "storage" \in Faults
    /\ Return(d)
    /\ UNCHANGED <<uiVars, requests, rowVars, restarts, history>>

\* A negative reply is not looked at.
SendFailsUnnoticed(d) ==
    /\ pc[d] = "smtp"
    /\ "network" \in Faults
    /\ GoTo(d, "sent")
    /\ UNCHANGED <<uiVars, requests, rowVars, todo, connUp, readCount, restarts, history>>

FailWriteWhen(d, giveUp) ==
    /\ pc[d] = "failWrite"
    /\ status' = [status EXCEPT ![Current(d)] = IF giveUp THEN "failed" ELSE "queued"]
    /\ retries' = [retries EXCEPT ![Current(d)] = readCount[d]]
    /\ NextMessage(d)
    /\ UNCHANGED <<uiVars, requests, restarts, history>>

FailWriteLate(d) == FailWriteWhen(d, readCount[d] > MaxRetries)

FailWriteEarly(d) == FailWriteWhen(d, readCount[d] + 1 >= MaxRetries)

-----------------------------------------------------------------------------
(***************************************************************************)
(* The steps of a dispatch task of the supervisor.                          *)
(***************************************************************************)

\* The supervisor's command loop spawns a task per request and does not wait.
SpawnDispatch(d) ==
    /\ requests > 0
    /\ pc[d] = "idle"
    /\ requests' = requests - 1
    /\ GoTo(d, "peek")
    /\ UNCHANGED <<uiVars, rowVars, todo, connUp, readCount, restarts, history>>

\* get_account and peek_queued_outbox; an empty snapshot ends the task.
PeekQueued(d) ==
    /\ pc[d] = "peek"
    /\ todo' = [todo EXCEPT ![d] = Oldest(Queued)]
    /\ GoTo(d, IF Oldest(Queued) = {} THEN "idle" ELSE "connect")
    /\ UNCHANGED <<uiVars, requests, rowVars, connUp, readCount, restarts, history>>

PeekFails(d) ==
    /\ "storage" \in Faults
    /\ pc[d] = "peek"
    /\ Return(d)
    /\ refused' = TRUE
    /\ UNCHANGED <<uiVars, requests, rowVars, restarts, accepted, lost, failures, unrecorded>>

Connect(d) ==
    /\ pc[d] = "connect"
    /\ connUp' = [connUp EXCEPT ![d] = TRUE]
    /\ GoTo(d, "mark")
    /\ UNCHANGED <<uiVars, requests, rowVars, todo, readCount, restarts, history>>

\* A refused connection, greeting or login ends the task: the rows stay queued
\* and no retry is counted.
ConnectFails(d) ==
    /\ "network" \in Faults
    /\ pc[d] = "connect"
    /\ Return(d)
    /\ refused' = TRUE
    /\ UNCHANGED <<uiVars, requests, rowVars, restarts, accepted, lost, failures, unrecorded>>

\* mark_outbox_sending: an UPDATE by id that does not look at the old status.
MarkSending(d) ==
    /\ pc[d] = "mark"
    /\ status' = [status EXCEPT ![Current(d)] = "sending"]
    /\ GoTo(d, "build")
    /\ UNCHANGED <<uiVars, requests, retries, todo, connUp, readCount, restarts, history>>

MarkSendingFails(d) ==
    /\ "storage" \in Faults
    /\ pc[d] = "mark"
    /\ AttemptFails(d)
    /\ UNCHANGED <<uiVars, requests, rowVars, todo, connUp, readCount, restarts,
                   accepted, lost, unrecorded, refused>>

\* The message is built, its bytes are stored and it has a recipient.
Build(d) ==
    /\ pc[d] = "build"
    /\ kind[Current(d)] # "bare"
    /\ GoTo(d, "smtp")
    /\ UNCHANGED <<uiVars, requests, rowVars, todo, connUp, readCount, restarts, history>>

BuildFails(d) ==
    /\ pc[d] = "build"
    /\ kind[Current(d)] = "bare" \/ "storage" \in Faults
    /\ AttemptFails(d)
    /\ UNCHANGED <<uiVars, requests, rowVars, todo, connUp, readCount, restarts,
                   accepted, lost, unrecorded, refused>>

\* send_mail up to the final dot: the server has taken the message.
ServerAccepts(d) ==
    /\ pc[d] = "smtp"
    /\ connUp[d]
    /\ accepted' = [accepted EXCEPT ![Current(d)] = @ + 1]
    /\ GoTo(d, "reply")
    /\ UNCHANGED <<uiVars, requests, rowVars, todo, connUp, readCount, restarts,
                   lost, failures, unrecorded, refused>>

\* The server refuses a command, or the connection is or becomes unusable.
SendFails(d) ==
    /\ pc[d] = "smtp"
    /\ "network" \in Faults
    /\ AttemptFails(d)
    /\ \E up \in BOOLEAN :
        /\ up => connUp[d]
        /\ connUp' = [connUp EXCEPT ![d] = up]
    /\ UNCHANGED <<uiVars, requests, rowVars, todo, readCount, restarts,
                   accepted, lost, unrecorded, refused>>

ReplyArrives(d) ==
    /\ pc[d] = "reply"
    /\ GoTo(d, "sent")
    /\ UNCHANGED <<uiVars, requests, rowVars, todo, connUp, readCount, restarts, history>>

\* The message was taken, but the 250 never reaches the task.
ReplyLost(d) ==
    /\ "network" \in Faults
    /\ pc[d] = "reply"
    /\ connUp' = [connUp EXCEPT ![d] = FALSE]
    /\ lost' = [lost EXCEPT ![Current(d)] = @ + 1]
    /\ AttemptFails(d)
    /\ UNCHANGED <<uiVars, requests, rowVars, todo, readCount, restarts,
                   accepted, unrecorded, refused>>

\* mark_outbox_sent.
MarkSent(d) ==
    /\ pc[d] = "sent"
    /\ status' = [status EXCEPT ![Current(d)] = "sent"]
    /\ NextMessage(d)
    /\ UNCHANGED <<uiVars, requests, retries, restarts, history>>

\* Its error leaves the loop: the rest of the snapshot is dropped with the task.
MarkSentFails(d) ==
    /\ "storage" \in Faults
    /\ pc[d] = "sent"
    /\ Return(d)
    /\ unrecorded' = unrecorded \cup {Current(d)}
    /\ UNCHANGED <<uiVars, requests, rowVars, restarts,
                   accepted, lost, failures, refused>>

\* mark_outbox_failed, its SELECT: the count the UPDATE will write.
FailRead(d) ==
    /\ pc[d] = "failRead"
    /\ readCount' = [readCount EXCEPT ![d] = retries[Current(d)] + 1]
    /\ GoTo(d, "failWrite")
    /\ UNCHANGED <<uiVars, requests, rowVars, todo, connUp, restarts, history>>

\* mark_outbox_failed, its UPDATE, of status and count together.
FailWrite(d) ==
    /\ pc[d] = "failWrite"
    /\ status' = [status EXCEPT ![Current(d)] =
                    IF readCount[d] >= MaxRetries THEN "failed" ELSE "queued"]
    /\ retries' = [retries EXCEPT ![Current(d)] = readCount[d]]
    /\ NextMessage(d)
    /\ UNCHANGED <<uiVars, requests, restarts, history>>

\* Either statement of mark_outbox_failed errs; the dispatcher ignores it.
FailIsNotRecorded(d) ==
    /\ "storage" \in Faults
    /\ pc[d] \in {"failRead", "failWrite"}
    /\ NextMessage(d)
    /\ unrecorded' = unrecorded \cup {Current(d)}
    /\ UNCHANGED <<uiVars, requests, rowVars, restarts,
                   accepted, lost, failures, refused>>

-----------------------------------------------------------------------------
(***************************************************************************)
(* Processes end at any step: a quit is process::exit, like a crash.        *)
(***************************************************************************)

\* The window is closed and opened again.  Saves in progress die with it, and so
\* do the requests still in its outgoing channel.  A window that finds no
\* supervisor on the socket runs standalone, its requests going nowhere.
GuiRestarts ==
    /\ "restart" \in Faults
    /\ restarts < MaxRestarts
    /\ restarts' = restarts + 1
    /\ gui' = [m \in Msgs |-> IF gui[m] \in {"saving", "saved"} THEN "lost" ELSE gui[m]]
    /\ requests' \in 0..requests
    /\ linked' \in BOOLEAN
    /\ UNCHANGED <<composed, kind, rowVars, taskVars, history>>

\* The supervisor ends and is started again: its tasks vanish, nothing resumes
\* the rows they were sending, and the GUI that outlives it does not reconnect.
SupervisorRestarts ==
    /\ "restart" \in Faults
    /\ restarts < MaxRestarts
    /\ restarts' = restarts + 1
    /\ requests' = 0
    /\ linked' = FALSE
    /\ pc' = [d \in Dispatchers |-> "idle"]
    /\ todo' = [d \in Dispatchers |-> {}]
    /\ connUp' = [d \in Dispatchers |-> FALSE]
    /\ readCount' = [d \in Dispatchers |-> 0]
    /\ unrecorded' = unrecorded \cup {Current(d) : d \in {e \in Dispatchers : Trying(e)}}
    /\ UNCHANGED <<composed, kind, gui, rowVars, accepted, lost, failures, refused>>

-----------------------------------------------------------------------------
Gui == \E m \in Msgs : SaveMessage(m) \/ SaveFails(m) \/ RequestDispatch(m)

\* What task d does by itself, and what it waits for the server to do.
TaskStep(d) ==
    \/ PeekQueued(d) \/ PeekFails(d)
    \/ MarkSending(d) \/ MarkSendingFails(d) \/ Build(d) \/ BuildFails(d)
    \/ MarkSent(d) \/ MarkSentFails(d)
    \/ FailRead(d) \/ FailWrite(d) \/ FailIsNotRecorded(d)

ServerStep(d) ==
    \/ Connect(d) \/ ConnectFails(d)
    \/ ServerAccepts(d) \/ SendFails(d)
    \/ ReplyArrives(d) \/ ReplyLost(d)

Dispatch(d) == SpawnDispatch(d) \/ TaskStep(d) \/ ServerStep(d)

Next ==
    \/ \E k \in Kinds : Compose(k)
    \/ Gui
    \/ \E d \in Dispatchers : Dispatch(d)
    \/ GuiRestarts
    \/ SupervisorRestarts

Spec == Init /\ [][Next]_vars

\* Spawned tasks of both processes are run by tokio, which polls every ready
\* task.  That the server answers, or the connection breaks, is an assumption
\* about the network: no read of the SMTP client has a timeout.
Fairness ==
    /\ WF_vars(Gui)
    /\ \A d \in Dispatchers :
        /\ WF_vars(SpawnDispatch(d))
        /\ WF_vars(TaskStep(d))
        /\ WF_vars(ServerStep(d))

FairSpec == Spec /\ Fairness

-----------------------------------------------------------------------------
(***************************************************************************)
(* Properties that hold however many dispatch tasks run at once.            *)
(***************************************************************************)

\* A row is marked sent only if the server has really taken the message, even
\* when another task, a restart or a storage error interferes.
SentWasAccepted ==
    \A m \in Msgs : status[m] = "sent" => accepted[m] > 0

\* The dispatcher gives up on a message only after it has really failed
\* MaxRetries times: lost updates of retry_count only ever count too few.
NoEarlyGiveUp ==
    \A m \in Msgs : status[m] = "failed" => failures[m] >= MaxRetries

\* What the table says of a finished message is true of the world, whatever the other
\* tasks do to the row in between: "sent" was accepted, "failed" has failed as often as
\* the dispatcher promises to try.
StatusIsTrue == SentWasAccepted /\ NoEarlyGiveUp

\* A row says "sending" only while a task is sending it, or after a restart or a
\* failed write has abandoned it: an ordinary end of a task leaves none behind.
SendingHasOwner ==
    \A m \in Msgs : status[m] = "sending" =>
        \/ m \in unrecorded
        \/ \E d \in Dispatchers : Trying(d) /\ m = Current(d)

\* Nothing the user did not send leaves the machine: a draft is never handed to
\* the server, and neither is a message whose save failed.
OnlySentMailLeaves ==
    \A m \in Msgs : accepted[m] > 0 => kind[m] = "mail" /\ status[m] # "absent"

(***************************************************************************)
(* Properties that need dispatches of an account not to overlap, which the  *)
(* supervisor does not ensure.                                              *)
(***************************************************************************)

\* The recipients get a second copy only if the reply to an earlier one was lost.
OneCopyUnlessReplyLost ==
    \A m \in Msgs : accepted[m] <= 1 + lost[m]

\* No message is tried more often than MaxRetries allows.
FailuresAreBounded ==
    \A m \in Msgs : m \notin unrecorded => failures[m] <= MaxRetries

\* What the table says of a finished message is final: a sent or failed row is
\* never sent, or queued, again.
SettledIsFinal ==
    [][\A m \in Msgs : status[m] \in {"sent", "failed"} => status'[m] = status[m]]_vars

(***************************************************************************)
(* Progress.                                                                *)
(***************************************************************************)

\* A message the user was told is queued for sending is sent or reported failed, unless
\* an attempt at it failed, an error ended a dispatch before its last row, or a process
\* was restarted: only another request takes such a message up again.  No more wait
\* than one dispatch takes: overlapping dispatches may leave the rest of more behind.
QueuedIsSettled ==
    NumMsgs <= PeekLimit => \A m \in Msgs :
        (gui[m] = "done" /\ kind[m] # "draft") ~>
            \/ status[m] \in {"sent", "failed"}
            \/ failures[m] > 0
            \/ unrecorded # {} \/ refused \/ restarts > 0
=============================================================================
