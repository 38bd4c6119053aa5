--------------------------- MODULE SingleInstance ---------------------------
(***************************************************************************)
(* How a start of edvige finds out whether a supervisor is running.         *)
(*                                                                          *)
(* The lock is a Unix socket at a fixed path: a new process connects to it  *)
(* and sends a command; if that fails for whatever reason, it removes what  *)
(* is at the path, binds a socket of its own there and becomes supervisor.  *)
(* The steps are separate system calls, and a process that ends leaves its  *)
(* socket file behind (std::process::exit runs no destructor).              *)
(***************************************************************************)
EXTENDS Naturals, FiniteSets

CONSTANTS
    Procs,      \* starts of the program
    NoProc,
    Overlap,    \* whether a start may begin before another has found its place
    Faults      \* what may go wrong: "open" (storage or accounts cannot be opened),
                \* "accept" (accepting a connection fails, which ends the listener)

ASSUME SingleInstanceAssumption ==
    /\ NoProc \notin Procs
    /\ Overlap \in BOOLEAN
    /\ Faults \subseteq {"open", "accept"}

Stages == {"off", "ask", "wait", "unlink", "bind", "open", "serve", "surfaced", "gone"}

VARIABLES
    pc,         \* the call process p is about to make
    path,       \* the process whose socket is at the path, NoProc when the path is free
    listening,  \* whether p has a listener, or had one that has stopped
    peer        \* the supervisor p is connected to

vars == <<pc, path, listening, peer>>

TypeOK ==
    /\ pc \in [Procs -> Stages]
    /\ path \in Procs \cup {NoProc}
    /\ listening \in [Procs -> {"no", "yes", "stopped"}]
    /\ peer \in [Procs -> Procs \cup {NoProc}]
    /\ \A p \in Procs : pc[p] = "wait" => peer[p] # NoProc

Init ==
    /\ pc = [p \in Procs |-> "off"]
    /\ path = NoProc
    /\ listening = [p \in Procs |-> "no"]
    /\ peer = [p \in Procs |-> NoProc]

GoTo(p, where) == pc' = [pc EXCEPT ![p] = where]

\* A process that has not yet found its place, and one that is a supervisor.
Starting(p) == pc[p] \in {"ask", "wait", "unlink", "bind"}
Supervises(p) == pc[p] \in {"open", "serve"}

\* The socket of q takes connections until its listener or q ends.
Answers(q) == q # NoProc /\ listening[q] = "yes" /\ Supervises(q)

-----------------------------------------------------------------------------
(***************************************************************************)
(* Broken variants, not part of Next.                                       *)
(***************************************************************************)

\* The path is unlinked whether or not somebody answers.
AskNobody(p) ==
    /\ pc[p] = "ask"
    /\ GoTo(p, "unlink")
    /\ UNCHANGED <<path, listening, peer>>

-----------------------------------------------------------------------------
\* The user, or the session at login, starts the program.
Launch(p) ==
    /\ pc[p] = "off"
    /\ Overlap \/ \A q \in Procs : ~ Starting(q)
    /\ GoTo(p, "ask")
    /\ UNCHANGED <<path, listening, peer>>

\* send_cli_command connects.
Ask(p) ==
    /\ pc[p] = "ask"
    /\ IF Answers(path)
       THEN GoTo(p, "wait") /\ peer' = [peer EXCEPT ![p] = path]
       ELSE GoTo(p, "unlink") /\ UNCHANGED peer
    /\ UNCHANGED <<path, listening>>

\* The supervisor queues the command, a request for a window whether or not the new
\* process was started hidden, and replies; the new process ends.
Surface(p) ==
    /\ pc[p] = "wait"
    /\ Supervises(peer[p])
    /\ GoTo(p, "surfaced")
    /\ UNCHANGED <<path, listening, peer>>

\* The connection was never accepted, or breaks before the reply.
AskFails(p) ==
    /\ pc[p] = "wait"
    /\ ~ Answers(peer[p])
    /\ GoTo(p, "unlink")
    /\ UNCHANGED <<path, listening, peer>>

\* remove_file: whatever is at the path, whoever put it there.
Unlink(p) ==
    /\ pc[p] = "unlink"
    /\ path' = NoProc
    /\ GoTo(p, "bind")
    /\ UNCHANGED <<listening, peer>>

\* A path that is not free is an error, after which p runs unguarded.
Bind(p) ==
    /\ pc[p] = "bind"
    /\ IF path = NoProc
       THEN path' = p /\ listening' = [listening EXCEPT ![p] = "yes"]
       ELSE UNCHANGED <<path, listening>>
    /\ GoTo(p, "open")
    /\ UNCHANGED <<peer>>

\* Storage and accounts are opened, and the main loop begins.
Serve(p) ==
    /\ pc[p] = "open"
    /\ GoTo(p, "serve")
    /\ UNCHANGED <<path, listening, peer>>

\* They cannot be opened: main returns the error, and the guard, dropped, removes
\* the socket at the path before p has ended.
OpenFails(p) ==
    /\ "open" \in Faults
    /\ pc[p] = "open"
    /\ GoTo(p, "gone")
    /\ path' = NoProc
    /\ UNCHANGED <<listening, peer>>

\* accept fails: the loop breaks and drops the listener, and the supervisor goes on;
\* connections it has accepted are served.
StopAccepting(p) ==
    /\ "accept" \in Faults
    /\ Supervises(p)
    /\ listening[p] = "yes"
    /\ listening' = [listening EXCEPT ![p] = "stopped"]
    /\ UNCHANGED <<pc, path, peer>>

\* Quit, a signal or a crash.
Exit(p) ==
    /\ pc[p] \notin {"off", "surfaced", "gone"}
    /\ GoTo(p, "gone")
    /\ UNCHANGED <<path, listening, peer>>

StartStep(p) ==
    Ask(p) \/ Surface(p) \/ AskFails(p) \/ Unlink(p) \/ Bind(p) \/ Serve(p)

Next == \E p \in Procs : 
    \/ Launch(p) \/ StartStep(p)
    \/ OpenFails(p) \/ StopAccepting(p) \/ Exit(p)

Spec == Init /\ [][Next]_vars

-----------------------------------------------------------------------------
\* A listener that stops before its process takes the lock with it.
Deaf == \E p \in Procs : listening[p] = "stopped"

\* Two supervisors would synchronize and dispatch the same accounts: there is one, as
\* long as no listener has stopped.
OneSupervisor == Deaf \/ Cardinality({p \in Procs : Supervises(p)}) <= 1

\* As long as none has stopped, a supervisor can be reached: later starts find it and
\* end.
SupervisorAnswers ==
    Deaf \/ \A p \in Procs : Supervises(p) => path = p /\ listening[p] = "yes"
=============================================================================
