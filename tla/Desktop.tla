------------------------------ MODULE Desktop -------------------------------
(***************************************************************************)
(* Starts of the program, supervisors and windows together.                 *)
(*                                                                          *)
(* The command of a start that finds a supervisor is a request for a window *)
(* there; a start that finds none becomes supervisor and, unless hidden,    *)
(* makes the request to itself before its main loop begins. A window        *)
(* connects to whoever answers at the path, in its supervisor's lifetime or *)
(* after it.                                                                *)
(***************************************************************************)
EXTENDS SingleInstance

CONSTANTS
    Hidden,         \* starts with --hidden
    Others,         \* requests of the tray and of notifications
    NoWindow,
    WindowFaults    \* see Supervisor

VARIABLES up, stage, click, by, to, win, host, line, slot, child

\* The request of a start goes by its process.
W == INSTANCE Supervisor WITH
        Supervisors <- Procs, NoSupervisor <- NoProc,
        Requests <- Procs \cup Others, Faults <- WindowFaults

ASSUME DesktopAssumption == Hidden \subseteq Procs /\ W!SupervisorAssumption

windows == <<up, stage, click, by, to, win, host, line, slot, child>>

desktop == <<vars, windows>>

DesktopInit == Init /\ W!Init

-----------------------------------------------------------------------------
(***************************************************************************)
(* Broken variants, not part of DesktopNext.                                *)
(***************************************************************************)

\* The reply is sent and the command forgotten.
CommandForgotten(p) == Surface(p) /\ UNCHANGED windows

-----------------------------------------------------------------------------
(***************************************************************************)
(* Starts. The listener is bound before the main loop runs.                 *)
(***************************************************************************)
FindPlace(p) == (Ask(p) \/ AskFails(p) \/ Unlink(p)) /\ UNCHANGED windows

Command(p) == Surface(p) /\ W!AskWindow(p, peer[p], FALSE)

BecomeSupervisor(p) == Bind(p) /\ W!Start(p)

EnterLoop(p) ==
    /\ Serve(p)
    /\ IF p \in Hidden THEN UNCHANGED windows ELSE W!AskWindow(p, p, FALSE)

GiveUp(p) == OpenFails(p) /\ W!Crash(p)

GoDeaf(p) == StopAccepting(p) /\ UNCHANGED windows

\* A process ends: after Quit, or in any other way.
End(p) ==
    /\ Exit(p)
    /\ IF Supervises(p) THEN W!Exit(p) \/ W!Crash(p) ELSE UNCHANGED windows

-----------------------------------------------------------------------------
(***************************************************************************)
(* Requests and windows.                                                    *)
(***************************************************************************)
InLoop(r) == by[r] \in Procs /\ pc[by[r]] = "serve"

\* From the tray or a notification, once the loop runs.
Want(r, c) ==
    \E p \in Procs :
        pc[p] = "serve" /\ up[p] = "run" /\ W!AskWindow(r, p, c) /\ UNCHANGED vars

Attend(r) == InLoop(r) /\ (W!Surface(r) \/ W!Spawn(r)) /\ UNCHANGED vars

AttendFails(r) == InLoop(r) /\ W!SpawnFails(r) /\ UNCHANGED vars

\* connect_gui: whoever listens at the path.
Open(r) ==
    /\ IF Answers(path) THEN W!Connect(r, path) ELSE W!OpenAlone(r)
    /\ UNCHANGED vars

Handle(r) == (W!Greet(r) \/ W!HandlerEnds(r)) /\ UNCHANGED vars

Receive(r) == W!Receive(r) /\ UNCHANGED vars

Close(r) == W!CloseWindow(r) /\ UNCHANGED vars

Quit(p) == pc[p] = "serve" /\ W!Quit(p) /\ UNCHANGED vars

ProcessStep(p) == FindPlace(p) \/ Command(p) \/ BecomeSupervisor(p) \/ EnterLoop(p)

WindowStep(r) == Attend(r) \/ Open(r) \/ Handle(r)

\* What has been sent arrives while its sender runs.
Arrive(r) == by[r] \in Procs /\ W!Up(by[r]) /\ Receive(r)

DesktopNext ==
    \/ \E p \in Procs :
        \/ Launch(p) /\ UNCHANGED windows
        \/ ProcessStep(p) \/ GiveUp(p) \/ GoDeaf(p) \/ Quit(p) \/ End(p)
    \/ \E r \in Others, c \in BOOLEAN : Want(r, c)
    \/ \E r \in Procs \cup Others :
        WindowStep(r) \/ AttendFails(r) \/ Receive(r) \/ Close(r)

DesktopSpec == DesktopInit /\ [][DesktopNext]_desktop

\* The processes, the loop, its threads and tasks and the windows are scheduled; no user
\* has to do anything, nothing has to fail, and nobody has to end. No step can be taken
\* for ever, so that it is enough if one of those that can be taken is.
Scheduled ==
    \/ \E p \in Procs : ProcessStep(p)
    \/ \E r \in Procs \cup Others : WindowStep(r) \/ Arrive(r)

FairDesktop == DesktopSpec /\ WF_desktop(Scheduled)

-----------------------------------------------------------------------------
\* One window per supervisor: whatever other starts, crashes and windows left over do,
\* what a running supervisor has spawned and still runs is its child of record, which
\* the next spawn or quitting kills (spawn_or_focus).
ChildIsTheWindow == W!ChildIsTheWindow

\* Quitting takes the window along, and one that is left comes from a notification: only
\* clicks are served after the main loop has ended.
QuitClosesWindow == W!QuitClosesWindow

\* What is sent there is lost.
SlotIsDead(p) == slot[p] # NoWindow /\ win[slot[p]] = "closed"

\* While the main loop runs, every request ends with a window in front or for a named
\* reason (Lost); and a window that is gone does not keep the slot, where it would swallow
\* all the requests that follow (surface_or_spawn_gui and the end of handle_connection).
RequestIsServed ==
    /\ \A r \in Procs \cup Others : stage[r] = "asked" ~> W!Served(r) \/ W!Lost(r)
    /\ \A p \in Procs : SlotIsDead(p) ~> ~ SlotIsDead(p) \/ up[p] # "run"

\* A start ends with a window in front, its own or that of the supervisor it has found,
\* unless it becomes a hidden supervisor, ends or the request is lost (main, ipc.rs).
StartShowsWindow ==
    \A p \in Procs :
        pc[p] = "ask" ~>
            \/ W!Served(p) \/ W!Lost(p)
            \/ pc[p] = "serve" /\ p \in Hidden
            \/ pc[p] = "gone"
=============================================================================
