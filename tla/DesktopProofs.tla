--------------------------- MODULE DesktopProofs ----------------------------
(***************************************************************************)
(* One supervisor at a time if no two starts overlap; one window of each    *)
(* supervisor, which quitting takes along; and the whole desktop keeps what *)
(* its parts promise, for its steps are steps of SingleInstance and of      *)
(* Supervisor, or leave them alone.                                         *)
(***************************************************************************)
EXTENDS Desktop, TLAPS, FiniteSetTheorems

USE SingleInstanceAssumption, DesktopAssumption DEF W!SupervisorAssumption

-----------------------------------------------------------------------------
(***************************************************************************)
(* Starts. However many there are, and whatever ends, there is one supervisor *)
(* at a time, and it can be reached, until a listener ends before its process. *)
(***************************************************************************)
\* Why the steps of a start that is alone amount to a lock.
Lock ==
    /\ \A p, q \in Procs : Starting(p) /\ Starting(q) => p = q
    /\ \A p \in Procs : Supervises(p) => path = p /\ listening[p] = "yes"
    /\ \A p, q \in Procs : pc[p] = "wait" /\ Supervises(q) => q = peer[p]
    /\ \A p, q \in Procs : pc[p] \in {"unlink", "bind"} => ~ Supervises(q)
    /\ \A p \in Procs : pc[p] = "bind" => path = NoProc

\* A listener is bound once.
Fresh == \A p \in Procs : Starting(p) \/ pc[p] = "off" => listening[p] = "no"

LockInv == Fresh /\ (Deaf \/ Lock)

LEMMA InitLock == Init => TypeOK /\ LockInv
BY DEF Init, TypeOK, LockInv, Fresh, Lock, Stages, Starting, Supervises

LEMMA TypeStep == ASSUME TypeOK, [Next]_vars PROVE TypeOK'
<1> USE DEF TypeOK, GoTo, Stages
<1>1. ASSUME NEW p \in Procs, Launch(p) PROVE TypeOK'
  BY <1>1 DEF Launch
<1>2. ASSUME NEW p \in Procs, StartStep(p) PROVE TypeOK'
  <2> HIDE DEF TypeOK
  <2>1. CASE Ask(p) \/ Surface(p) \/ AskFails(p)
    BY <2>1 DEF TypeOK, Ask, Surface, AskFails, Answers
  <2>2. CASE Unlink(p) \/ Serve(p)
    BY <2>2 DEF TypeOK, Unlink, Serve
  <2>3. CASE Bind(p)
    BY <2>3 DEF TypeOK, Bind
  <2>4. QED
    BY <1>2, <2>1, <2>2, <2>3 DEF StartStep
<1>3. ASSUME NEW p \in Procs, OpenFails(p) \/ StopAccepting(p) \/ Exit(p)
      PROVE TypeOK'
  BY <1>3 DEF OpenFails, StopAccepting, Exit
<1>4. CASE UNCHANGED vars
  BY <1>4 DEF vars
<1>5. QED
  BY <1>1, <1>2, <1>3, <1>4 DEF Next

LEMMA FreshStep == ASSUME TypeOK, Fresh, [Next]_vars PROVE Fresh'
<1> USE DEF TypeOK, Fresh, Starting, Supervises, GoTo
<1>1. ASSUME NEW p \in Procs, Launch(p) PROVE Fresh'
  BY <1>1 DEF Launch
<1>2. ASSUME NEW p \in Procs, Ask(p) \/ Surface(p) \/ AskFails(p) PROVE Fresh'
  BY <1>2 DEF Ask, Surface, AskFails
<1>3. ASSUME NEW p \in Procs, Unlink(p) \/ Bind(p) \/ Serve(p) PROVE Fresh'
  BY <1>3 DEF Unlink, Bind, Serve
<1>4. ASSUME NEW p \in Procs, OpenFails(p) \/ StopAccepting(p) \/ Exit(p) PROVE Fresh'
  BY <1>4 DEF OpenFails, StopAccepting, Exit
<1>5. CASE UNCHANGED vars
  BY <1>5 DEF vars
<1>6. QED
  BY <1>1, <1>2, <1>3, <1>4, <1>5 DEF Next, StartStep

\* A listener that has stopped stays so.
LEMMA DeafStays == ASSUME TypeOK, Fresh, Deaf, [Next]_vars PROVE Deaf'
<1>1. PICK q \in Procs : listening[q] = "stopped"
  BY DEF Deaf
<1>2. listening'[q] = "stopped"
  <2>1. ASSUME NEW p \in Procs, Bind(p) PROVE listening'[q] = "stopped"
    BY <1>1, <2>1 DEF Bind, TypeOK, Fresh, Starting
  <2>2. ASSUME NEW p \in Procs, StopAccepting(p) PROVE listening'[q] = "stopped"
    BY <1>1, <2>2 DEF StopAccepting, TypeOK
  <2>3. QED
    BY <1>1, <2>1, <2>2 DEF Next, StartStep, Launch, Ask, Surface, AskFails, Unlink,
         Serve, OpenFails, Exit, vars
<1>3. QED
  BY <1>2 DEF Deaf

LEMMA LockStep == ASSUME ~ Overlap, TypeOK, Lock, ~ Deaf', [Next]_vars PROVE Lock'
<1> USE DEF TypeOK, Lock, GoTo, Starting, Supervises
<1>1. ASSUME NEW p \in Procs, Launch(p) PROVE Lock'
  BY <1>1 DEF Launch
<1>2. ASSUME NEW p \in Procs, StartStep(p) PROVE Lock'
  <2>1. CASE Ask(p)
    BY <2>1 DEF Ask, Answers
  <2>2. CASE Surface(p)
    BY <2>2 DEF Surface
  <2>3. CASE AskFails(p)
    BY <2>3 DEF AskFails, Answers
  <2>4. CASE Unlink(p)
    BY <2>4 DEF Unlink
  <2>5. CASE Bind(p)
    BY <2>5 DEF Bind
  <2>6. CASE Serve(p)
    BY <2>6 DEF Serve
  <2>7. QED
    BY <1>2, <2>1, <2>2, <2>3, <2>4, <2>5, <2>6 DEF StartStep
<1>3. ASSUME NEW p \in Procs, OpenFails(p) PROVE Lock'
  BY <1>3 DEF OpenFails
<1>4. ASSUME NEW p \in Procs, Exit(p) PROVE Lock'
  BY <1>4 DEF Exit
<1>5. ASSUME NEW p \in Procs, StopAccepting(p) PROVE Lock'
  <2>1. listening'[p] = "stopped"
    BY <1>5 DEF StopAccepting
  <2>2. QED
    BY <2>1 DEF Deaf
<1>6. CASE UNCHANGED vars
  BY <1>6 DEF vars
<1>7. QED
  BY <1>1, <1>2, <1>3, <1>4, <1>5, <1>6 DEF Next

LEMMA AtMostOne ==
    ASSUME NEW S, \A x, y \in S : x = y
    PROVE  Cardinality(S) <= 1
<1>1. CASE S = {}
  BY <1>1, FS_EmptySet
<1>2. CASE S # {}
  <2>1. PICK x \in S : TRUE
    BY <1>2
  <2>2. S = {x}
    BY <2>1, Zenon
  <2>3. Cardinality({x}) = 1
    BY FS_Singleton, Zenon
  <2>4. QED
    BY <2>2, <2>3
<1>3. QED
  BY <1>1, <1>2

\* Starts that do not overlap leave at most one supervisor, and one that later starts
\* reach (acquire_supervisor, ipc.rs): checking, unlinking and binding need no lock of
\* their own then, as long as every listener lives as long as its process.
THEOREM StartsApart ==
    ASSUME ~ Overlap
    PROVE  Spec => [](TypeOK /\ OneSupervisor /\ SupervisorAnswers)
<1>1. Init => TypeOK /\ LockInv
  BY InitLock
<1>2. TypeOK /\ LockInv /\ [Next]_vars => TypeOK' /\ LockInv'
  BY TypeStep, FreshStep, LockStep, DeafStays DEF LockInv
<1>3. LockInv => OneSupervisor /\ SupervisorAnswers
  <2> SUFFICES ASSUME Lock PROVE OneSupervisor /\ SupervisorAnswers
    BY DEF LockInv, OneSupervisor, SupervisorAnswers
  <2>1. SupervisorAnswers
    BY DEF Lock, SupervisorAnswers
  <2>2. \A p, q \in {r \in Procs : Supervises(r)} : p = q
    BY DEF Lock
  <2>3. QED
    BY <2>1, <2>2, AtMostOne DEF OneSupervisor
<1>4. QED
  BY <1>1, <1>2, <1>3, PTL DEF Spec

-----------------------------------------------------------------------------
(***************************************************************************)
(* Windows. Any number of supervisors, requests, clicks and crashes.        *)
(***************************************************************************)
Requests == Procs \cup Others

USE DEF Requests

\* A window that has not connected has no task yet, so connecting leaves the slot's alone.
NoTaskYet ==
    \A r \in Requests :
        win[r] \in {"none", "launched"} => line[r] = "none" /\ host[r] = NoProc

\* The window that a request gets later has not been started.
NoWindowYet ==
    \A r \in Requests : stage[r] \in {"none", "asked", "spawning"} => win[r] = "none"

\* A process that has not started has no requests.
NotAskedYet ==
    \A r \in Requests, s \in Procs : by[r] = s => up[s] # "off"

Windows == W!ChildIsTheWindow /\ W!SlotIsOpen /\ NoTaskYet /\ NoWindowYet /\ NotAskedYet

LEMMA InitWindows == W!Init => W!TypeOK /\ Windows
BY DEF W!Init, W!TypeOK, Windows, W!ChildIsTheWindow, W!SlotIsOpen, W!Live, W!Window, W!Up,
       NoTaskYet, NoWindowYet, NotAskedYet

WindowStages == {"none", "launched", "connected", "alone", "closed"}

\* Killing the child of record leaves none of the supervisor's windows running.
LEMMA KilledAll ==
    ASSUME W!TypeOK, W!ChildIsTheWindow, NEW s \in Procs, W!Up(s)
    PROVE  /\ W!Killed(s) \in [Requests -> WindowStages]
           /\ \A r \in Requests : by[r] = s => W!Killed(s)[r] \notin {"launched", "connected", "alone"}
           /\ \A r \in Requests : W!Killed(s)[r] # win[r] => W!Killed(s)[r] = "closed" /\ W!Live(r)
BY DEF W!TypeOK, W!ChildIsTheWindow, W!Killed, W!Live, WindowStages

\* Who makes a request that may be served is a supervisor that runs.
LEMMA MayRunUp ==
    ASSUME W!TypeOK, NEW r \in Requests, stage[r] # "none", W!MayRun(r)
    PROVE  by[r] \in Procs /\ W!Up(by[r])
BY DEF W!TypeOK, W!MayRun, W!Up

LEMMA WindowTypeStep ==
    ASSUME W!TypeOK, W!ChildIsTheWindow, [W!Next]_W!vars
    PROVE  W!TypeOK'
<1> USE DEF W!TypeOK, W!Window
<1>1. ASSUME NEW r \in Requests, W!RequestStep(r) PROVE W!TypeOK'
  <2>1. ASSUME NEW s \in Procs, NEW c \in BOOLEAN, W!AskWindow(r, s, c) PROVE W!TypeOK'
    <3>1. click' \in [Requests -> BOOLEAN]
      BY <2>1, Zenon DEF W!AskWindow
    <3>2. QED
      BY <2>1, <3>1 DEF W!AskWindow
  <2>2. CASE W!Surface(r)
    BY <2>2, MayRunUp DEF W!Surface
  <2>3. CASE W!Spawn(r)
    BY <2>3, KilledAll, MayRunUp DEF W!Spawn, WindowStages
  <2>4. CASE W!SpawnFails(r)
    BY <2>4, KilledAll, MayRunUp DEF W!SpawnFails, WindowStages
  <2>5. CASE W!Receive(r)
    BY <2>5 DEF W!Receive
  <2>6. QED
    BY <1>1, <2>1, <2>2, <2>3, <2>4, <2>5 DEF W!RequestStep
<1>2. ASSUME NEW r \in Requests, W!WindowStep(r) PROVE W!TypeOK'
  <2>1. ASSUME NEW s \in Procs, W!Connect(r, s) PROVE W!TypeOK'
    BY <2>1 DEF W!Connect
  <2>2. CASE W!OpenAlone(r) \/ W!CloseWindow(r)
    BY <2>2 DEF W!OpenAlone, W!CloseWindow
  <2>3. CASE W!Greet(r) \/ W!HandlerEnds(r)
    BY <2>3 DEF W!Greet, W!HandlerEnds
  <2>4. QED
    BY <1>2, <2>1, <2>2, <2>3 DEF W!WindowStep
<1>3. ASSUME NEW s \in Procs, W!SupervisorStep(s) PROVE W!TypeOK'
  <2>1. CASE W!Start(s)
    BY <2>1 DEF W!Start
  <2>2. CASE W!Quit(s)
    BY <2>2, KilledAll DEF W!Quit, W!Up, WindowStages
  <2>3. CASE W!Exit(s) \/ W!Crash(s)
    BY <2>3 DEF W!Exit, W!Crash, W!End
  <2>4. QED
    BY <1>3, <2>1, <2>2, <2>3 DEF W!SupervisorStep
<1>4. CASE UNCHANGED W!vars
  BY <1>4 DEF W!vars
<1>5. QED
  BY <1>1, <1>2, <1>3, <1>4 DEF W!Next

LEMMA WindowsKept ==
    ASSUME W!TypeOK, W!TypeOK', Windows, [W!Next]_W!vars
    PROVE  Windows'
<1> USE DEF W!TypeOK, Windows, W!ChildIsTheWindow, W!SlotIsOpen, NoTaskYet, NoWindowYet,
            NotAskedYet, W!Live, W!Up
<1>1. ASSUME NEW r \in Requests, W!RequestStep(r) PROVE Windows'
  <2>1. ASSUME NEW s \in Procs, NEW c \in BOOLEAN, W!AskWindow(r, s, c) PROVE Windows'
    <3>1. W!ChildIsTheWindow'
      BY <2>1 DEF W!AskWindow
    <3>2. W!SlotIsOpen'
      BY <2>1 DEF W!AskWindow
    <3>3. NoTaskYet'
      BY <2>1 DEF W!AskWindow
    <3>4. NoWindowYet'
      BY <2>1 DEF W!AskWindow
    <3>5. NotAskedYet'
      BY <2>1 DEF W!AskWindow
    <3>6. QED
      BY <3>1, <3>2, <3>3, <3>4, <3>5
  <2>2. CASE W!Surface(r)
    BY <2>2, MayRunUp DEF W!Surface
  <2>3. CASE W!Spawn(r)
    BY <2>3, KilledAll, MayRunUp DEF W!Spawn, WindowStages
  <2>4. CASE W!SpawnFails(r)
    BY <2>4, KilledAll, MayRunUp DEF W!SpawnFails, WindowStages
  <2>5. CASE W!Receive(r)
    BY <2>5 DEF W!Receive
  <2>6. QED
    BY <1>1, <2>1, <2>2, <2>3, <2>4, <2>5 DEF W!RequestStep
<1>2. ASSUME NEW r \in Requests, W!WindowStep(r) PROVE Windows'
  <2>1. ASSUME NEW s \in Procs, W!Connect(r, s) PROVE Windows'
    BY <2>1 DEF W!Connect
  <2>2. CASE W!OpenAlone(r)
    BY <2>2 DEF W!OpenAlone
  <2>3. CASE W!CloseWindow(r)
    <3>1. W!ChildIsTheWindow'
      BY <2>3 DEF W!CloseWindow
    <3>2. W!SlotIsOpen'
      BY <2>3 DEF W!CloseWindow
    <3>3. NoTaskYet'
      BY <2>3 DEF W!CloseWindow
    <3>4. NoWindowYet'
      BY <2>3 DEF W!CloseWindow
    <3>5. NotAskedYet'
      BY <2>3 DEF W!CloseWindow
    <3>6. QED
      BY <3>1, <3>2, <3>3, <3>4, <3>5
  <2>4. CASE W!Greet(r) \/ W!HandlerEnds(r)
    <3>1. W!ChildIsTheWindow'
      BY <2>4 DEF W!Greet, W!HandlerEnds
    <3>2. W!SlotIsOpen'
      BY <2>4 DEF W!Greet, W!HandlerEnds
    <3>3. NoTaskYet'
      BY <2>4 DEF W!Greet, W!HandlerEnds
    <3>4. NoWindowYet'
      BY <2>4 DEF W!Greet, W!HandlerEnds
    <3>5. NotAskedYet'
      BY <2>4 DEF W!Greet, W!HandlerEnds
    <3>6. QED
      BY <3>1, <3>2, <3>3, <3>4, <3>5
  <2>5. QED
    BY <1>2, <2>1, <2>2, <2>3, <2>4 DEF W!WindowStep
<1>3. ASSUME NEW s \in Procs, W!SupervisorStep(s) PROVE Windows'
  <2>1. CASE W!Start(s)
    BY <2>1 DEF W!Start
  <2>2. CASE W!Quit(s)
    <3>1. W!ChildIsTheWindow'
      BY <2>2, KilledAll DEF W!Quit, WindowStages
    <3>2. W!SlotIsOpen'
      BY <2>2, KilledAll DEF W!Quit, WindowStages
    <3>3. NoTaskYet'
      BY <2>2, KilledAll DEF W!Quit, WindowStages
    <3>4. NoWindowYet'
      BY <2>2, KilledAll DEF W!Quit, WindowStages
    <3>5. NotAskedYet'
      BY <2>2, KilledAll DEF W!Quit, WindowStages
    <3>6. QED
      BY <3>1, <3>2, <3>3, <3>4, <3>5
  <2>3. CASE W!Exit(s) \/ W!Crash(s)
    <3>1. W!ChildIsTheWindow'
      BY <2>3 DEF W!Exit, W!Crash, W!End
    <3>2. W!SlotIsOpen'
      BY <2>3 DEF W!Exit, W!Crash, W!End
    <3>3. NoTaskYet'
      BY <2>3 DEF W!Exit, W!Crash, W!End
    <3>4. NoWindowYet'
      BY <2>3 DEF W!Exit, W!Crash, W!End
    <3>5. NotAskedYet'
      BY <2>3 DEF W!Exit, W!Crash, W!End
    <3>6. QED
      BY <3>1, <3>2, <3>3, <3>4, <3>5
  <2>4. QED
    BY <1>3, <2>1, <2>2, <2>3 DEF W!SupervisorStep
<1>4. CASE UNCHANGED W!vars
  BY <1>4 DEF W!vars
<1>5. QED
  BY <1>1, <1>2, <1>3, <1>4 DEF W!Next

\* Once the main loop has ended, only a click spawns.
MainLoopEnded ==
    \A r \in Requests, s \in Procs :
        W!Live(r) /\ by[r] = s /\ up[s] \in {"quitting", "down"} => click[r]

LEMMA MainLoopStep ==
    ASSUME W!TypeOK, W!TypeOK', Windows, MainLoopEnded, [W!Next]_W!vars
    PROVE  MainLoopEnded'
<1> USE DEF W!TypeOK, MainLoopEnded, W!Live, W!Up
<1>1. ASSUME NEW r \in Requests, W!RequestStep(r) PROVE MainLoopEnded'
  <2>1. ASSUME NEW s \in Procs, NEW c \in BOOLEAN, W!AskWindow(r, s, c)
        PROVE  MainLoopEnded'
    BY <2>1 DEF W!AskWindow, Windows, NoWindowYet
  <2>2. CASE W!Surface(r)
    BY <2>2 DEF W!Surface
  <2>3. CASE W!Spawn(r)
    BY <2>3, KilledAll, MayRunUp DEF W!Spawn, W!MayRun, Windows, WindowStages
  <2>4. CASE W!SpawnFails(r)
    BY <2>4, KilledAll, MayRunUp DEF W!SpawnFails, Windows, WindowStages
  <2>5. CASE W!Receive(r)
    BY <2>5 DEF W!Receive
  <2>6. QED
    BY <1>1, <2>1, <2>2, <2>3, <2>4, <2>5 DEF W!RequestStep
<1>2. ASSUME NEW r \in Requests, W!WindowStep(r) PROVE MainLoopEnded'
  BY <1>2 DEF W!WindowStep, W!Connect, W!OpenAlone, W!CloseWindow, W!Greet, W!HandlerEnds
<1>3. ASSUME NEW s \in Procs, W!SupervisorStep(s) PROVE MainLoopEnded'
  <2>1. CASE W!Start(s)
    BY <2>1 DEF W!Start
  <2>2. CASE W!Quit(s)
    BY <2>2, KilledAll DEF W!Quit, Windows, WindowStages
  <2>3. CASE W!Exit(s) \/ W!Crash(s)
    BY <2>3 DEF W!Exit, W!Crash, W!End
  <2>4. QED
    BY <1>3, <2>1, <2>2, <2>3 DEF W!SupervisorStep
<1>4. CASE UNCHANGED W!vars
  BY <1>4 DEF W!vars
<1>5. QED
  BY <1>1, <1>2, <1>3, <1>4 DEF W!Next

\* However the main loops, the clicks, the tasks of the connections, crashes and windows
\* left over interleave, one window at most of each supervisor runs, the one it kills
\* before the next and when it quits, and its slot leads to a task that delivers
\* (main.rs, ipc.rs).
THEOREM OneWindow ==
    W!Spec => [](W!TypeOK /\ W!ChildIsTheWindow /\ W!SlotIsOpen)
<1>1. W!Init => W!TypeOK /\ Windows
  BY InitWindows
<1>2. W!TypeOK /\ Windows /\ [W!Next]_W!vars => W!TypeOK' /\ Windows'
  <2> SUFFICES ASSUME W!TypeOK, Windows, [W!Next]_W!vars PROVE W!TypeOK' /\ Windows'
    OBVIOUS
  <2>1. W!TypeOK'
    BY WindowTypeStep DEF Windows
  <2>2. QED
    BY <2>1, WindowsKept
<1>3. Windows => W!ChildIsTheWindow /\ W!SlotIsOpen
  BY DEF Windows
<1>4. QED
  BY <1>1, <1>2, <1>3, PTL DEF W!Spec

\* A window that is left when its supervisor has quit was opened by a click on a
\* notification, which its thread may serve after the main loop has killed the child.
THEOREM NoWindowLeft ==
    W!Spec => []W!QuitClosesWindow
<1>1. W!Init => W!TypeOK /\ Windows /\ MainLoopEnded
  BY InitWindows DEF W!Init, MainLoopEnded, W!Live
<1>2. W!TypeOK /\ Windows /\ MainLoopEnded /\ [W!Next]_W!vars => W!TypeOK' /\ Windows' /\ MainLoopEnded'
  <2> SUFFICES ASSUME W!TypeOK, Windows, MainLoopEnded, [W!Next]_W!vars
               PROVE  W!TypeOK' /\ Windows' /\ MainLoopEnded'
    OBVIOUS
  <2>1. W!TypeOK'
    BY WindowTypeStep DEF Windows
  <2>2. QED
    BY <2>1, WindowsKept, MainLoopStep
<1>3. MainLoopEnded => W!QuitClosesWindow
  BY DEF MainLoopEnded, W!QuitClosesWindow
<1>4. QED
  BY <1>1, <1>2, <1>3, PTL DEF W!Spec

-----------------------------------------------------------------------------
(***************************************************************************)
(* The desktop.                                                             *)
(***************************************************************************)
\* To the lock, windows are stutters.
LEMMA StartsStep == DesktopNext => [Next]_vars
BY DEF DesktopNext, ProcessStep, FindPlace, Command, BecomeSupervisor, EnterLoop, GiveUp,
       GoDeaf, Quit, End, Want, Attend, AttendFails, Open, Handle, WindowStep, Receive,
       Close, Next, StartStep, vars

\* To the windows, a start that looks for its place is one.
LEMMA DesktopStep == ASSUME TypeOK, DesktopNext PROVE [W!Next]_windows
<1>1. ASSUME NEW p \in Procs, Launch(p) /\ UNCHANGED windows PROVE UNCHANGED windows
  BY <1>1
<1>2. ASSUME NEW p \in Procs, ProcessStep(p) PROVE [W!Next]_windows
  <2>1. CASE Command(p)
    <3>1. peer[p] \in Procs
      BY <2>1 DEF Command, Surface, TypeOK
    <3>2. QED
      BY <2>1, <3>1 DEF Command, W!Next, W!RequestStep
  <2>2. CASE EnterLoop(p)
    BY <2>2 DEF EnterLoop, W!Next, W!RequestStep
  <2>3. CASE BecomeSupervisor(p)
    BY <2>3 DEF BecomeSupervisor, W!Next, W!SupervisorStep
  <2>4. CASE FindPlace(p)
    BY <2>4 DEF FindPlace
  <2>5. QED
    BY <1>2, <2>1, <2>2, <2>3, <2>4 DEF ProcessStep
<1>3. ASSUME NEW p \in Procs, GiveUp(p) \/ GoDeaf(p) \/ Quit(p) \/ End(p)
      PROVE  [W!Next]_windows
  BY <1>3 DEF GiveUp, GoDeaf, Quit, End, W!Next, W!SupervisorStep
<1>4. ASSUME NEW r \in Others, NEW c \in BOOLEAN, Want(r, c) PROVE [W!Next]_windows
  BY <1>4 DEF Want, W!Next, W!RequestStep
<1>5. ASSUME NEW r \in Requests, WindowStep(r) \/ AttendFails(r) \/ Receive(r) \/ Close(r)
      PROVE  [W!Next]_windows
  <2>1. CASE Open(r)
    <3>1. Answers(path) => path \in Procs
      BY DEF Answers, TypeOK
    <3>2. QED
      BY <2>1, <3>1 DEF Open, W!Next, W!WindowStep
  <2>2. CASE Attend(r) \/ AttendFails(r) \/ Receive(r)
    BY <2>2 DEF Attend, AttendFails, Receive, W!Next, W!RequestStep
  <2>3. CASE Handle(r) \/ Close(r)
    BY <2>3 DEF Handle, Close, W!Next, W!WindowStep
  <2>4. QED
    BY <1>5, <2>1, <2>2, <2>3 DEF WindowStep
<1>6. QED
  BY <1>1, <1>2, <1>3, <1>4, <1>5 DEF DesktopNext

\* The desktop implements the lock (acquire_supervisor, ipc.rs).
THEOREM DesktopImplementsStarts == DesktopSpec => Spec
<1>1. DesktopInit => Init
  BY DEF DesktopInit
<1>2. [DesktopNext]_desktop => [Next]_vars
  BY StartsStep DEF desktop
<1>3. QED
  BY <1>1, <1>2, PTL DEF DesktopSpec, Spec

LEMMA DesktopTyped == DesktopSpec => []TypeOK
<1>1. Init => TypeOK /\ LockInv
  BY InitLock
<1>2. TypeOK /\ [Next]_vars => TypeOK'
  BY TypeStep
<1>3. QED
  BY <1>1, <1>2, DesktopImplementsStarts, PTL DEF Spec

\* The desktop implements the supervisors and their windows, wherever a start or a window
\* of another life comes between (main.rs, ipc.rs).
THEOREM DesktopImplementsWindows == DesktopSpec => W!Spec
<1>1. DesktopInit => W!Init
  BY DEF DesktopInit
<1>2. TypeOK /\ [DesktopNext]_desktop => [W!Next]_W!vars
  BY DesktopStep DEF desktop, windows, W!vars
<1>3. QED
  BY <1>1, <1>2, DesktopTyped, PTL DEF DesktopSpec, W!Spec

\* However starts, crashes and windows of earlier supervisors interleave, a supervisor
\* has one window at a time, the one it kills before the next (spawn_or_focus).
THEOREM OneWindowEach == DesktopSpec => []ChildIsTheWindow
BY OneWindow, DesktopImplementsWindows, PTL DEF ChildIsTheWindow

\* A supervisor that has quit leaves no window but one that a click has opened.
THEOREM QuitTakesWindow == DesktopSpec => []QuitClosesWindow
BY NoWindowLeft, DesktopImplementsWindows, PTL DEF QuitClosesWindow
=============================================================================
