----------------------------- MODULE Supervisor -----------------------------
(***************************************************************************)
(* Supervisors and the windows they open.                                   *)
(*                                                                          *)
(* A window is a child process that connects back over the socket, to the   *)
(* supervisor it finds there. A request for a window (tray, command line,   *)
(* notification) goes to the connected window if the slot holds one;        *)
(* otherwise the child of record is killed and another spawned. The main    *)
(* loop serves one request after the other; each click on a notification    *)
(* runs on a thread of its own, and each connection has a task that sets    *)
(* and clears the slot. A supervisor that crashes leaves its child running. *)
(***************************************************************************)
EXTENDS Naturals

CONSTANTS
    Supervisors,    \* processes that may become supervisor
    NoSupervisor,
    Requests,       \* requests for a window; a window goes by the request it is spawned for
    NoWindow,
    Faults          \* what may go wrong: "spawn" (the child cannot be started)

\* What is assumed of the constants.
SupervisorAssumption ==
    /\ NoSupervisor \notin Supervisors
    /\ NoWindow \notin Requests
    /\ Faults \subseteq {"spawn"}

VARIABLES
    up,         \* a supervisor: "quitting" while its child is killed; "down" and "crashed"
                \* are the ways to end
    stage,      \* where a request is
    click,      \* it comes from a notification
    by,         \* the supervisor it was made to
    to,         \* the window it was sent to
    win,        \* the process of a window
    host,       \* the supervisor it is connected to
    line,       \* the task of that supervisor for the connection
    slot,       \* the window a supervisor sends to
    child       \* its child of record

vars == <<up, stage, click, by, to, win, host, line, slot, child>>

Window == Requests \cup {NoWindow}

Up(s) == up[s] \in {"run", "quitting"}

Live(r) == win[r] \in {"launched", "connected", "alone"}

TypeOK ==
    /\ up \in [Supervisors -> {"off", "run", "quitting", "down", "crashed"}]
    /\ stage \in [Requests -> {"none", "asked", "spawning", "sent", "done", "started", "failed"}]
    /\ click \in [Requests -> BOOLEAN]
    /\ by \in [Requests -> Supervisors \cup {NoSupervisor}]
    /\ to \in [Requests -> Window]
    /\ win \in [Requests -> {"none", "launched", "connected", "alone", "closed"}]
    /\ host \in [Requests -> Supervisors \cup {NoSupervisor}]
    /\ line \in [Requests -> {"none", "hello", "open", "ended"}]
    /\ slot \in [Supervisors -> Window]
    /\ child \in [Supervisors -> Window]
    /\ \A r \in Requests :
        /\ stage[r] = "none" \/ by[r] \in Supervisors
        /\ stage[r] = "sent" => to[r] \in Requests
        /\ line[r] = "none" \/ host[r] \in Supervisors

Init ==
    /\ up = [s \in Supervisors |-> "off"]
    /\ stage = [r \in Requests |-> "none"]
    /\ click = [r \in Requests |-> FALSE]
    /\ by = [r \in Requests |-> NoSupervisor]
    /\ to = [r \in Requests |-> NoWindow]
    /\ win = [r \in Requests |-> "none"]
    /\ host = [r \in Requests |-> NoSupervisor]
    /\ line = [r \in Requests |-> "none"]
    /\ slot = [s \in Supervisors |-> NoWindow]
    /\ child = [s \in Supervisors |-> NoWindow]

\* A thread of its own runs as long as the process; the main loop serves one request
\* at a time, until it quits.
Serving(s) == {r \in Requests : by[r] = s /\ ~ click[r] /\ stage[r] = "spawning"}

MayRun(r) ==
    IF click[r] THEN Up(by[r]) ELSE up[by[r]] = "run" /\ Serving(by[r]) \subseteq {r}

\* The child of record is killed and waited for.
Killed(s) == [r \in Requests |-> IF r = child[s] /\ Live(r) THEN "closed" ELSE win[r]]

-----------------------------------------------------------------------------
(***************************************************************************)
(* Broken variants, not part of Next.                                       *)
(***************************************************************************)

\* The child that is replaced goes on running.
SpawnBeside(r) ==
    /\ stage[r] = "spawning"
    /\ MayRun(r)
    /\ stage' = [stage EXCEPT ![r] = "started"]
    /\ win' = [win EXCEPT ![r] = "launched"]
    /\ child' = [child EXCEPT ![by[r]] = r]
    /\ UNCHANGED <<up, click, by, to, host, line, slot>>

\* The slot keeps the sender of a connection that has ended.
HandlerEndsAlone(r) ==
    /\ line[r] = "open"
    /\ Up(host[r])
    /\ win[r] = "closed"
    /\ line' = [line EXCEPT ![r] = "ended"]
    /\ UNCHANGED <<up, stage, click, by, to, win, host, slot, child>>

\* The child outlives the supervisor.
QuitAlone(s) ==
    /\ up[s] = "run"
    /\ Serving(s) = {}
    /\ up' = [up EXCEPT ![s] = "quitting"]
    /\ UNCHANGED <<stage, click, by, to, win, host, line, slot, child>>

-----------------------------------------------------------------------------
\* A process has become supervisor: it listens.
Start(s) ==
    /\ up[s] = "off"
    /\ up' = [up EXCEPT ![s] = "run"]
    /\ UNCHANGED <<stage, click, by, to, win, host, line, slot, child>>

\* The tray, another start of the program, the first start itself or a notification; what
\* comes after the main loop has ended waits in a channel nobody reads.
AskWindow(r, s, c) ==
    /\ stage[r] = "none"
    /\ Up(s)
    /\ stage' = [stage EXCEPT ![r] = "asked"]
    /\ click' = [click EXCEPT ![r] = c]
    /\ by' = [by EXCEPT ![r] = s]
    /\ UNCHANGED <<up, to, win, host, line, slot, child>>

\* Under the lock of the slot: the request (Focus or Compose) goes to the window in it.
Surface(r) ==
    /\ stage[r] = "asked"
    /\ MayRun(r)
    /\ IF slot[by[r]] # NoWindow
       THEN /\ stage' = [stage EXCEPT ![r] = "sent"]
            /\ to' = [to EXCEPT ![r] = slot[by[r]]]
       ELSE /\ stage' = [stage EXCEPT ![r] = "spawning"]
            /\ UNCHANGED to
    /\ UNCHANGED <<up, click, by, win, host, line, slot, child>>

\* Under the lock of the child, some time after the slot was found empty.
Spawn(r) ==
    /\ stage[r] = "spawning"
    /\ MayRun(r)
    /\ stage' = [stage EXCEPT ![r] = "started"]
    /\ win' = [Killed(by[r]) EXCEPT ![r] = "launched"]
    /\ child' = [child EXCEPT ![by[r]] = r]
    /\ UNCHANGED <<up, click, by, to, host, line, slot>>

\* The old child is gone all the same.
SpawnFails(r) ==
    /\ "spawn" \in Faults
    /\ stage[r] = "spawning"
    /\ MayRun(r)
    /\ stage' = [stage EXCEPT ![r] = "failed"]
    /\ win' = Killed(by[r])
    /\ child' = [child EXCEPT ![by[r]] = NoWindow]
    /\ UNCHANGED <<up, click, by, to, host, line, slot>>

\* The child connects to the supervisor at the path, which need not be the one that
\* spawned it, writes Hello and opens.
Connect(r, s) ==
    /\ win[r] = "launched"
    /\ Up(s)
    /\ win' = [win EXCEPT ![r] = "connected"]
    /\ host' = [host EXCEPT ![r] = s]
    /\ line' = [line EXCEPT ![r] = "hello"]
    /\ UNCHANGED <<up, stage, click, by, to, slot, child>>

\* Nobody answers there: it opens without a supervisor.
OpenAlone(r) ==
    /\ win[r] = "launched"
    /\ win' = [win EXCEPT ![r] = "alone"]
    /\ UNCHANGED <<up, stage, click, by, to, host, line, slot, child>>

\* The task of the connection reads Hello, which outlives its sender.
Greet(r) ==
    /\ line[r] = "hello"
    /\ Up(host[r])
    /\ line' = [line EXCEPT ![r] = "open"]
    /\ slot' = [slot EXCEPT ![host[r]] = r]
    /\ UNCHANGED <<up, stage, click, by, to, win, host, child>>

\* It reads the end of the connection and clears the slot, whoever is in it.
HandlerEnds(r) ==
    /\ line[r] = "open"
    /\ Up(host[r])
    /\ win[r] = "closed"
    /\ line' = [line EXCEPT ![r] = "ended"]
    /\ slot' = [slot EXCEPT ![host[r]] = NoWindow]
    /\ UNCHANGED <<up, stage, click, by, to, win, host, child>>

\* The window takes what was sent to it and comes to the front.
Receive(r) ==
    /\ stage[r] = "sent"
    /\ win[to[r]] = "connected"
    /\ stage' = [stage EXCEPT ![r] = "done"]
    /\ UNCHANGED <<up, click, by, to, win, host, line, slot, child>>

\* The user closes it, or it crashes.
CloseWindow(r) ==
    /\ Live(r)
    /\ win' = [win EXCEPT ![r] = "closed"]
    /\ UNCHANGED <<up, stage, click, by, to, host, line, slot, child>>

\* The main loop ends and kills the child.
Quit(s) ==
    /\ up[s] = "run"
    /\ Serving(s) = {}
    /\ up' = [up EXCEPT ![s] = "quitting"]
    /\ win' = Killed(s)
    /\ child' = [child EXCEPT ![s] = NoWindow]
    /\ UNCHANGED <<stage, click, by, to, host, line, slot>>

\* A process ends with all its threads and tasks, and its windows do not.
End(s, how) ==
    /\ up' = [up EXCEPT ![s] = how]
    /\ stage' = [r \in Requests |->
                    IF by[r] = s /\ stage[r] \in {"asked", "spawning"} THEN "failed" ELSE stage[r]]
    /\ line' = [r \in Requests |-> IF host[r] = s THEN "ended" ELSE line[r]]
    /\ slot' = [slot EXCEPT ![s] = NoWindow]
    /\ child' = [child EXCEPT ![s] = NoWindow]
    /\ UNCHANGED <<click, by, to, win, host>>

\* The coordinator has been shut down.
Exit(s) == up[s] = "quitting" /\ End(s, "down")

\* Without quitting first: an error, a signal, a crash.
Crash(s) == Up(s) /\ End(s, "crashed")

RequestStep(r) ==
    \/ \E s \in Supervisors, c \in BOOLEAN : AskWindow(r, s, c)
    \/ Surface(r) \/ Spawn(r) \/ SpawnFails(r) \/ Receive(r)

WindowStep(r) ==
    \/ \E s \in Supervisors : Connect(r, s)
    \/ OpenAlone(r) \/ Greet(r) \/ HandlerEnds(r) \/ CloseWindow(r)

SupervisorStep(s) == Start(s) \/ Quit(s) \/ Exit(s) \/ Crash(s)

Next ==
    \/ \E r \in Requests : RequestStep(r) \/ WindowStep(r)
    \/ \E s \in Supervisors : SupervisorStep(s)

Spec == Init /\ [][Next]_vars

-----------------------------------------------------------------------------
\* No second window: what runs is the child of record, which the next spawn or the end
\* of the supervisor kills.
ChildIsTheWindow ==
    \A r \in Requests, s \in Supervisors : Live(r) /\ by[r] = s /\ Up(s) => child[s] = r

\* What the slot holds has a task that delivers.
SlotIsOpen ==
    \A r \in Requests, s \in Supervisors : slot[s] = r => line[r] = "open" /\ host[r] = s

\* Quitting takes the window along, and one that is left comes from a notification: only
\* clicks are served after the main loop has ended.
QuitClosesWindow ==
    \A r \in Requests, s \in Supervisors : Live(r) /\ by[r] = s /\ up[s] = "down" => click[r]

\* How a request may end without a window: no child can be started, its window, or the
\* one it was sent to, is closed first, or the main loop has ended.
Lost(r) ==
    \/ stage[r] = "failed"
    \/ stage[r] = "started" /\ win[r] = "closed"
    \/ stage[r] = "sent" /\ win[to[r]] = "closed"
    \/ stage[r] \in {"asked", "spawning", "sent"} /\ up[by[r]] # "run"

Served(r) ==
    \/ stage[r] = "done"
    \/ stage[r] = "started" /\ win[r] \in {"connected", "alone"}
=============================================================================
