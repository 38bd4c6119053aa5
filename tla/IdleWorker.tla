----------------------------- MODULE IdleWorker -----------------------------
(***************************************************************************)
(* The IDLE worker of an account and the session it keeps with the server.  *)
(*                                                                          *)
(* The worker synchronizes INBOX, carries out local changes, and waits in   *)
(* IDLE for the server to report something; then it leaves IDLE and starts  *)
(* over. What the server has told the session it does not tell again, so a  *)
(* report that is overlooked leaves the mail on the server. Mail is counted *)
(* in the order it arrives. What a synchronization does to the database is  *)
(* in FolderSync, what the changes do in MutationQueue.                     *)
(***************************************************************************)
EXTENDS Naturals, Sequences

CONSTANTS
    MaxMail,    \* messages that arrive in INBOX
    Mailboxes,  \* mailboxes of the messages the user changes
    Inbox, Nothing,
    Habits,     \* what may come between a push and its synchronization: the timer runs
                \* out ("timer"), the server sends lines without news in IDLE ("chat") or
                \* reports mail in its answers to other commands ("report"), the user
                \* changes messages ("change")
    MaxChat,    \* lines without news the server sends
    MaxDrops    \* how often the connection fails

ASSUME IdleWorkerAssumption ==
    /\ MaxMail \in Nat
    /\ MaxChat \in Nat
    /\ MaxDrops \in Nat
    /\ Inbox # Nothing
    /\ Nothing \notin Mailboxes
    /\ Habits \subseteq {"timer", "chat", "report", "change"}

VARIABLES
    habits,     \* those of Habits that this worker meets
    box,        \* messages that have arrived
    selected,   \* the mailbox of the session
    reported,   \* the messages the server has told the session of
    command,    \* what the server is at: "none", "idle" (asked), "idling" or "done"
    wire,       \* lines the worker has not read
    chat,
    drops,
    stage,         \* the worker
    stored,     \* messages in the database
    need,       \* need_sync
    pending,    \* mailboxes with changes that wait
    backoff,    \* seconds before the next attempt
    shutdown    \* the worker's channel

server == <<habits, box, selected, reported, command, wire, chat>>
idleVars == <<server, drops, stage, stored, need, pending, backoff, shutdown>>

IdleTypeOK ==
    /\ habits \subseteq Habits
    /\ box \in 0..MaxMail
    /\ selected \in Mailboxes \cup {Inbox, Nothing}
    /\ reported \in 0..MaxMail
    /\ command \in {"none", "idle", "idling", "done"}
    /\ wire \in Seq({"continue", "exists", "other", "completed"})
    /\ chat \in 0..MaxChat
    /\ drops \in 0..MaxDrops
    /\ stage \in {"connect", "select", "fetch", "mutate", "enter", "start", "wait", "stop",
               "quit", "backoff", "stopped"}
    /\ stored \in 0..MaxMail
    /\ need \in BOOLEAN
    /\ pending \subseteq Mailboxes
    /\ backoff \in {2, 4, 8, 16, 32, 60}
    /\ shutdown \in BOOLEAN

IdleInit ==
    /\ habits \in SUBSET Habits
    /\ box \in 0..MaxMail
    /\ selected = Nothing
    /\ reported = 0
    /\ command = "none"
    /\ wire = <<>>
    /\ chat = 0
    /\ drops = 0
    /\ stage = "connect"
    /\ stored = 0
    /\ need = FALSE
    /\ pending = {}
    /\ backoff = 2
    /\ shutdown = FALSE

-----------------------------------------------------------------------------
(***************************************************************************)
(* Surroundings: mail arrives, the user changes messages, the program ends. *)
(***************************************************************************)

Arrive ==
    /\ box < MaxMail
    /\ box' = box + 1
    /\ UNCHANGED <<habits, selected, reported, command, wire, chat, drops, stage, stored, need, pending, backoff, shutdown>>

Enqueue ==
    /\ "change" \in habits
    /\ \E m \in Mailboxes : pending' = pending \cup {m}
    /\ UNCHANGED <<server, drops, stage, stored, need, backoff, shutdown>>

Shutdown ==
    /\ shutdown' = TRUE
    /\ UNCHANGED <<server, drops, stage, stored, need, pending, backoff>>

-----------------------------------------------------------------------------
(***************************************************************************)
(* The server in IDLE. It reports what is new in the selected mailbox until *)
(* it has read DONE.                                                        *)
(***************************************************************************)

HasNews == selected = Inbox /\ reported < box

ServerContinues ==
    /\ command = "idle"
    /\ command' = "idling"
    /\ wire' = Append(wire, "continue")
    /\ UNCHANGED <<habits, box, selected, reported, chat, drops, stage, stored, need, pending, backoff, shutdown>>

ServerReports ==
    /\ command \in {"idling", "done"}
    /\ HasNews
    /\ reported' = box
    /\ wire' = Append(wire, "exists")
    /\ UNCHANGED <<habits, box, selected, command, chat, drops, stage, stored, need, pending, backoff, shutdown>>

ServerChats ==
    /\ "chat" \in habits
    /\ command = "idling"
    /\ chat < MaxChat
    /\ chat' = chat + 1
    /\ wire' = Append(wire, "other")
    /\ UNCHANGED <<habits, box, selected, reported, command, drops, stage, stored, need, pending, backoff, shutdown>>

ServerCompletes ==
    /\ command = "done"
    /\ command' = "none"
    /\ wire' = Append(wire, "completed")
    /\ UNCHANGED <<habits, box, selected, reported, chat, drops, stage, stored, need, pending, backoff, shutdown>>

-----------------------------------------------------------------------------
(***************************************************************************)
(* The worker.                                                              *)
(***************************************************************************)

\* Broken variants, not part of IdleNext: IDLE is left without DONE; a synchronization brings
\* nothing; a push is taken for a line without news; stop_idle does not wait for the answer.
LeaveSilently(next) ==
    /\ stage = "wait"
    /\ stage' = next
    /\ UNCHANGED <<habits, box, selected, reported, command, chat, drops, stored, pending, backoff, shutdown>>
FetchNothing ==
    /\ stage = "fetch"
    /\ stage' = "mutate"
    /\ need' = FALSE
    /\ UNCHANGED <<server, drops, stored, pending, backoff, shutdown>>
ReadWithoutSync ==
    /\ stage = "wait"
    /\ wire # <<>>
    /\ wire' = Tail(wire)
    /\ command' = "done"
    /\ stage' = "stop"
    /\ UNCHANGED <<habits, box, selected, reported, chat, drops, stored, need, pending, backoff, shutdown>>
StopAtOnce ==
    /\ stage = "stop"
    /\ stage' = IF need THEN "select" ELSE "mutate"
    /\ UNCHANGED <<server, drops, stored, need, pending, backoff, shutdown>>

\* The loop of run_loop: a new session, unless the worker is to stop.
Connect ==
    /\ stage = "connect"
    /\ stage' = IF shutdown THEN "stopped" ELSE "select"
    /\ UNCHANGED <<server, drops, stored, need, pending, backoff, shutdown>>

\* SELECT reports how many messages there are.
Select ==
    /\ stage = "select"
    /\ selected' = Inbox
    /\ reported' = box
    /\ stage' = "fetch"
    /\ UNCHANGED <<habits, box, command, wire, chat, drops, stored, need, pending, backoff, shutdown>>

\* FETCH returns the messages the session knows of, and may report more on the way.
Fetch ==
    /\ stage = "fetch"
    /\ stored' = reported
    /\ \/ UNCHANGED reported
       \/ "report" \in habits /\ reported' = box
    /\ need' = FALSE
    /\ stage' = "mutate"
    /\ UNCHANGED <<habits, box, selected, command, wire, chat, drops, pending, backoff, shutdown>>

\* The changes that wait, each with a SELECT of its mailbox, whose answer is ignored; the
\* last of them leaves its mailbox selected.
ProcessMutations ==
    /\ stage = "mutate"
    /\ \/ pending = {} /\ UNCHANGED <<selected, reported>>
       \/ \E m \in pending :
            /\ selected' = m
            /\ reported' = IF m = Inbox THEN box ELSE reported
    /\ pending' = {}
    /\ stage' = "enter"
    /\ UNCHANGED <<habits, box, command, wire, chat, drops, stored, need, backoff, shutdown>>

\* Into IDLE, unless the worker is to stop.
EnterIdle ==
    /\ stage = "enter"
    /\ \/ shutdown /\ stage' = "stopped" /\ UNCHANGED command
       \/ ~shutdown /\ stage' = "start" /\ command' = "idle"
    /\ UNCHANGED <<habits, box, selected, reported, wire, chat, drops, stored, need, pending, backoff, shutdown>>

\* The connection is given up, and the session with it. A worker that only leaves IDLE to
\* stop does not mind.
Broken ==
    /\ selected' = Nothing
    /\ reported' = 0
    /\ command' = "none"
    /\ wire' = <<>>
    /\ need' = FALSE
    /\ stage' = IF stage = "quit" THEN "stopped" ELSE "backoff"
    /\ UNCHANGED <<habits, box, chat, stored, pending, backoff, shutdown>>

StartIdle ==
    /\ stage = "start"
    /\ wire # <<>>
    /\ \/ /\ Head(wire) = "continue"
          /\ stage' = "wait"
          /\ wire' = Tail(wire)
          /\ UNCHANGED <<habits, box, selected, reported, command, chat, stored, need, pending, backoff, shutdown>>
       \/ Head(wire) # "continue" /\ Broken
    /\ UNCHANGED drops

\* The worker stops waiting and sends DONE: for a line, the timer, or its channel.
Leave(next) ==
    /\ stage = "wait"
    /\ command' = "done"
    /\ stage' = next
    /\ UNCHANGED <<habits, box, selected, reported, chat, drops, stored, pending, backoff, shutdown>>

ReadLine ==
    /\ wire # <<>>
    /\ wire' = Tail(wire)
    /\ need' = (Head(wire) = "exists")
    /\ Leave("stop")

TimerRunsOut ==
    /\ "timer" \in habits
    /\ Leave("stop")
    /\ UNCHANGED <<wire, need>>

ChannelChanges ==
    /\ shutdown
    /\ Leave("quit")
    /\ UNCHANGED <<wire, need>>

\* Lines are read up to the answer to IDLE, and what they say is not looked at.
StopIdle ==
    /\ stage \in {"stop", "quit"}
    /\ wire # <<>>
    /\ wire' = Tail(wire)
    /\ \/ Head(wire) # "completed" /\ UNCHANGED stage
       \/ /\ Head(wire) = "completed"
          /\ \/ stage = "quit" /\ stage' = "stopped"
             \/ stage = "stop" /\ need /\ stage' = "select"
             \/ stage = "stop" /\ ~need /\ stage' = "mutate"
    /\ UNCHANGED <<habits, box, selected, reported, command, chat, drops, stored, need, pending, backoff, shutdown>>

\* Any command or read may fail.
Drop ==
    /\ drops < MaxDrops
    /\ drops' = drops + 1
    /\ stage \notin {"backoff", "stopped"}
    /\ stage = "connect" => ~shutdown
    /\ Broken

\* After the delay, or at once when told to stop. Nothing but a graceful end resets the
\* delay, and a session ends gracefully only to stop.
Retry ==
    /\ stage = "backoff"
    /\ backoff' = IF 2 * backoff < 60 THEN 2 * backoff ELSE 60
    /\ stage' = "connect"
    /\ UNCHANGED <<server, drops, stored, need, pending, shutdown>>

-----------------------------------------------------------------------------
Server == ServerContinues \/ ServerReports \/ ServerCompletes

WorkerStep ==
    \/ Connect \/ Select \/ Fetch \/ ProcessMutations
    \/ EnterIdle \/ StartIdle \/ ReadLine \/ StopIdle \/ Retry

IdleNext ==
    \/ Arrive \/ Enqueue \/ Shutdown
    \/ Server \/ ServerChats
    \/ WorkerStep \/ TimerRunsOut \/ ChannelChanges \/ Drop

IdleSpec == IdleInit /\ [][IdleNext]_idleVars

\* The server answers and reports what it has to, and the worker is scheduled; a channel
\* that has changed is noticed. The timer is not needed.
FairIdleSpec ==
    /\ IdleSpec
    /\ WF_idleVars(ServerContinues) /\ WF_idleVars(ServerReports) /\ WF_idleVars(ServerCompletes)
    /\ WF_idleVars(WorkerStep)
    /\ WF_idleVars(ChannelChanges)

-----------------------------------------------------------------------------
(***************************************************************************)
(* Properties.                                                              *)
(***************************************************************************)

\* With a server that reports mail in IDLE alone, and nothing but its pushes to end an
\* IDLE, mail that arrives is stored, whatever the worker is at and however
\* often the connection fails, unless the worker stops (run_session, run_loop).
MailIsStored ==
    \A n \in 1..MaxMail : habits = {} /\ box >= n ~> (stored >= n \/ stage = "stopped")

\* Whatever was overlooked before, a push the worker reads brings in all mail that has
\* arrived by then, even if the connection fails first (run_session).
PushCatchesUp ==
    \A n \in 1..MaxMail : (stage = "stop" /\ need /\ box >= n) ~> (stored >= n \/ stage = "stopped")

\* Outside IDLE no line is left unread: the next command would take it for its own answer
\* (stop_idle, which reads up to its tag).
LinesMatch ==
    stage \in {"select", "fetch", "mutate", "enter", "connect", "backoff"} =>
        wire = <<>> /\ command = "none"

\* A worker that is told to stop stops, be it in a session or between two (run_loop and
\* run_session, which look at the channel in four places).
StopsWhenTold ==
    shutdown ~> stage = "stopped"
=============================================================================
