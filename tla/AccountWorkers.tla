--------------------------- MODULE AccountWorkers ---------------------------
(***************************************************************************)
(* The background engine: one worker per account, and the synchronization   *)
(* of the list of folders.                                                  *)
(*                                                                          *)
(* A worker connects once, synchronizes the list of folders and then        *)
(* watches INBOX until it is told to stop. The windows ask for a            *)
(* synchronization of the list too, each served by a task of its own: they  *)
(* all insert into the same table, which has one row per account and name.  *)
(***************************************************************************)
EXTENDS Naturals

CONSTANTS
    Accounts,
    Known,      \* the accounts saved before the engine first starts
    Folders,    \* how many folders the server lists, always in the same order
    Stored,     \* how many of them the table may hold for the accounts of Known
    MaxTasks,   \* how many tasks the engine may spawn, over all its lives
    MaxTurns,   \* how often the user starts the program or asks for the list of folders
    Faults      \* "list" (no folders from the server), "crash", "lost" (a window has no supervisor)

ASSUME AccountWorkersAssumption ==
    /\ Accounts # {}
    /\ Known \subseteq Accounts
    /\ Folders \in Nat \ {0}
    /\ Stored \subseteq 0..Folders
    /\ MaxTasks \in Nat
    /\ MaxTurns \in Nat
    /\ Faults \subseteq {"list", "crash", "lost"}

VARIABLES
    engine,     \* "down", "listening", "starting", "running" or "stopping"
    turns,
    accounts,   \* the table of accounts
    rows,       \* the table of folders
    todo,       \* accounts whose worker is still to be started
    requests,   \* accounts whose window has announced them
    unheard,    \* accounts announced to nobody since the engine last read the table
    workers,    \* the map of workers: accounts that have an entry
    kind, for, pc, seen,        \* of each task
    next, got,  \* the folder a task is at, and those it will return
    told        \* workers told to stop

tables == <<accounts, rows>>
task == <<kind, for, pc, seen, next, got, told>>
vars == <<engine, turns, tables, todo, requests, unheard, workers, task>>

\* Tasks in the order they are spawned; the rows the table starts with are of no task.
Tasks == 1..MaxTasks
Earlier == 0
Row == [account : Accounts, name : 1..Folders, id : Tasks \cup {Earlier}]

TypeOK ==
    /\ engine \in {"down", "listening", "starting", "running", "stopping"}
    /\ turns \in 0..MaxTurns
    /\ accounts \subseteq Accounts
    /\ rows \subseteq Row
    /\ todo \subseteq accounts
    /\ requests \subseteq accounts
    /\ unheard \subseteq accounts
    /\ workers \subseteq accounts
    /\ kind \in [Tasks -> {"worker", "sync"}]
    /\ for \in [Tasks -> Accounts]
    /\ pc \in [Tasks -> {"none", "list", "insert", "watch", "done", "failed", "clashed", "gone"}]
    /\ seen \in [Tasks -> SUBSET Row]
    /\ next \in [Tasks -> 1..Folders + 1]
    /\ got \in [Tasks -> SUBSET Row]
    /\ told \in [Tasks -> BOOLEAN]

Init ==
    /\ engine = "down"
    /\ turns = 0
    /\ accounts = Known
    /\ \E stored \in Stored : rows = [account : Known, name : 1..stored, id : {Earlier}]
    /\ todo = {}
    /\ requests = {}
    /\ unheard = {}
    /\ workers = {}
    /\ pc = [t \in Tasks |-> "none"]
    /\ kind = [t \in Tasks |-> "sync"]
    /\ for = [t \in Tasks |-> CHOOSE a \in Accounts : TRUE]
    /\ seen = [t \in Tasks |-> {}]
    /\ next = [t \in Tasks |-> 1]
    /\ got = [t \in Tasks |-> {}]
    /\ told = [t \in Tasks |-> FALSE]

Active(t) == pc[t] \in {"list", "insert"}
Alive(t) == Active(t) \/ pc[t] = "watch"

RowsOf(a) == {r \in rows : r.account = a}
Names(S) == {r.name : r \in S}
Complete(a) == Names(RowsOf(a)) = 1..Folders

-----------------------------------------------------------------------------
(***************************************************************************)
(* The engine starts and  ends.                                              *)
(***************************************************************************)

\* The socket listens before the engine is up: requests of windows wait.
Listen ==
    /\ engine = "down"
    /\ turns < MaxTurns
    /\ engine' = "listening"
    /\ turns' = turns + 1
    /\ UNCHANGED <<tables, todo, requests, unheard, workers, task>>

ListAccounts ==
    /\ engine = "listening"
    /\ engine' = "starting"
    /\ todo' = accounts
    /\ unheard' = {}
    /\ UNCHANGED <<turns, tables, requests, workers, task>>

\* The next task begins to work for an account.
NextTask == {t \in Tasks : \A u \in Tasks : pc[u] = "none" <=> u >= t}
Begin(k, a) == \E t \in NextTask :
    /\ kind' = [kind EXCEPT ![t] = k]
    /\ for' = [for EXCEPT ![t] = a]
    /\ pc' = [pc EXCEPT ![t] = "list"]
    /\ UNCHANGED <<seen, next, got, told>>

\* The accounts that are in the map keep the worker they have.
StartKnown(a) ==
    /\ engine = "starting"
    /\ a \in todo
    /\ todo' = todo \ {a}
    /\ \/ a \in workers /\ UNCHANGED <<workers, task>>
       \/ a \notin workers /\ workers' = workers \cup {a} /\ Begin("worker", a)
    /\ UNCHANGED <<engine, turns, tables, requests, unheard>>

EngineRuns ==
    /\ engine = "starting"
    /\ todo = {}
    /\ engine' = "running"
    /\ UNCHANGED <<turns, tables, todo, requests, unheard, workers, task>>

\* The process ends with its tasks and its map; the tables stay.
Ended ==
    /\ engine' = "down"
    /\ todo' = {}
    /\ requests' = {}
    /\ workers' = {}
    /\ pc' = [t \in Tasks |-> IF pc[t] = "none" THEN "none" ELSE "gone"]
    /\ kind' = [t \in Tasks |-> "sync"]
    /\ for' = [t \in Tasks |-> CHOOSE a \in Accounts : TRUE]
    /\ seen' = [t \in Tasks |-> {}]
    /\ next' = [t \in Tasks |-> 1]
    /\ got' = [t \in Tasks |-> {}]
    /\ told' = [t \in Tasks |-> FALSE]
    /\ UNCHANGED <<turns, tables, unheard>>

\* Quitting empties the map and tells every worker in it.
Quit ==
    /\ engine = "running"
    /\ engine' = "stopping"
    /\ told' = [t \in Tasks |-> told[t] \/ (kind[t] = "worker" /\ Alive(t) /\ for[t] \in workers)]
    /\ workers' = {}
    /\ UNCHANGED <<turns, tables, todo, requests, unheard, kind, for, pc, seen, next, got>>

Exit ==
    /\ engine = "stopping"
    /\ Ended

Crash ==
    /\ "crash" \in Faults
    /\ engine # "down"
    /\ Ended

-----------------------------------------------------------------------------
(***************************************************************************)
(* The windows.                                                             *)
(***************************************************************************)

\* Broken variant, not part of Next: a worker beside the one the map has.
HandleAnyway(a) ==
    /\ engine \in {"running", "stopping"}
    /\ a \in requests
    /\ requests' = requests \ {a}
    /\ workers' = workers \cup {a}
    /\ Begin("worker", a)
    /\ UNCHANGED <<engine, turns, tables, todo, unheard>>

\* The account is saved first and announced then; a window without a supervisor
\* announces it to nobody.
AddAccount(a) ==
    /\ a \notin accounts
    /\ accounts' = accounts \cup {a}
    /\ \/ engine # "down" /\ requests' = requests \cup {a} /\ UNCHANGED unheard
       \/ "lost" \in Faults /\ unheard' = unheard \cup {a} /\ UNCHANGED requests
    /\ UNCHANGED <<engine, turns, rows, todo, workers, task>>

\* A new account gets a worker, unless it has one, and a synchronization of its folders.
HandleAdded(a) ==
    /\ engine \in {"running", "stopping"}
    /\ a \in requests
    /\ requests' = requests \ {a}
    /\ \/ a \in workers /\ UNCHANGED workers /\ Begin("sync", a)
       \/ /\ a \notin workers
          /\ workers' = workers \cup {a}
          /\ \E w \in NextTask :
                /\ w + 1 \in Tasks
                /\ kind' = [kind EXCEPT ![w] = "worker", ![w + 1] = "sync"]
                /\ for' = [for EXCEPT ![w] = a, ![w + 1] = a]
                /\ pc' = [pc EXCEPT ![w] = "list", ![w + 1] = "list"]
          /\ UNCHANGED <<seen, next, got, told>>
    /\ UNCHANGED <<engine, turns, tables, todo, unheard>>

\* The user asks for the list of folders.
SyncAccountFolders(a) ==
    /\ engine \in {"running", "stopping"}
    /\ a \in accounts
    /\ turns < MaxTurns
    /\ turns' = turns + 1
    /\ Begin("sync", a)
    /\ UNCHANGED <<engine, tables, todo, requests, unheard, workers>>

-----------------------------------------------------------------------------
(***************************************************************************)
(* What a task does: connect, list, insert what is missing, watch.          *)
(***************************************************************************)

\* Whatever fails ends the task, and only the task.
Fails(t, how) ==
    /\ pc' = [pc EXCEPT ![t] = how]
    /\ seen' = [seen EXCEPT ![t] = {}]
    /\ next' = [next EXCEPT ![t] = 1]
    /\ got' = [got EXCEPT ![t] = {}]
    /\ UNCHANGED <<rows, kind, for, told>>

\* A session is opened and the server lists its folders, once each.
CannotList == "list" \in Faults

\* Then the table is read: what others insert from here on the task does not see.
ReadFolders(t) ==
    /\ pc[t] = "list"
    /\ \/ /\ pc' = [pc EXCEPT ![t] = "insert"]
          /\ seen' = [seen EXCEPT ![t] = RowsOf(for[t])]
          /\ UNCHANGED <<rows, kind, for, next, got, told>>
       \/ CannotList /\ Fails(t, "failed")
    /\ UNCHANGED <<engine, turns, accounts, todo, requests, unheard, workers>>

\* On to the next folder; after the last a worker watches, and the others end.
Advance(t, row) ==
    /\ next' = [next EXCEPT ![t] = @ + 1]
    /\ \/ /\ next[t] < Folders
          /\ got' = [got EXCEPT ![t] = @ \cup {row}]
          /\ UNCHANGED <<pc, seen>>
       \/ /\ next[t] = Folders
          /\ got' = [got EXCEPT ![t] = IF kind[t] = "worker" THEN @ \cup {row} ELSE {}]
          /\ pc' = [pc EXCEPT ![t] = IF kind[t] = "worker" THEN "watch" ELSE "done"]
          /\ seen' = [seen EXCEPT ![t] = {}]
    /\ UNCHANGED <<engine, turns, accounts, todo, requests, unheard, workers, kind, for, told>>

NewRow(t) == [account |-> for[t], name |-> next[t], id |-> t]

\* Broken variants, not part of Next: a folder that is known is inserted again; the failure
\* of the insert is ignored.
KeepAgain(t) ==
    /\ pc[t] = "insert"
    /\ next[t] \in Names(seen[t])
    /\ Fails(t, "clashed")
    /\ UNCHANGED <<engine, turns, accounts, todo, requests, unheard, workers>>
InsertIgnored(t) ==
    /\ pc[t] = "insert"
    /\ next[t] \notin Names(seen[t])
    /\ next[t] \in Names(RowsOf(for[t]))
    /\ Advance(t, NewRow(t))
    /\ UNCHANGED rows

KeepFolder(t) ==
    /\ pc[t] = "insert"
    /\ \E row \in seen[t] : row.name = next[t] /\ Advance(t, row)
    /\ UNCHANGED rows

InsertFolder(t) ==
    /\ pc[t] = "insert"
    /\ next[t] \notin Names(seen[t])
    /\ next[t] \notin Names(RowsOf(for[t]))
    /\ rows' = rows \cup {NewRow(t)}
    /\ Advance(t, NewRow(t))

\* The row has been inserted since the table was read: the task fails as a whole.
InsertClashes(t) ==
    /\ pc[t] = "insert"
    /\ next[t] \notin Names(seen[t])
    /\ next[t] \in Names(RowsOf(for[t]))
    /\ Fails(t, "clashed")
    /\ UNCHANGED <<engine, turns, accounts, todo, requests, unheard, workers>>

\* A worker looks at its channel whenever it may wait for long.
StopWatching(t) ==
    /\ pc[t] = "watch"
    /\ told[t]
    /\ pc' = [pc EXCEPT ![t] = "done"]
    /\ got' = [got EXCEPT ![t] = {}]
    /\ UNCHANGED <<engine, turns, tables, todo, requests, unheard, workers, kind, for, seen, next, told>>

-----------------------------------------------------------------------------
TaskStep(t) ==
    \/ ReadFolders(t)
    \/ KeepFolder(t) \/ InsertFolder(t) \/ InsertClashes(t)
    \/ StopWatching(t)

EngineStep ==
    \/ ListAccounts
    \/ \E a \in Accounts : StartKnown(a)
    \/ EngineRuns
    \/ \E a \in Accounts : HandleAdded(a)
    \/ Exit

Next ==
    \/ Listen
    \/ EngineStep
    \/ Quit
    \/ Crash
    \/ \E a \in Accounts : AddAccount(a) \/ SyncAccountFolders(a)
    \/ \E t \in Tasks : TaskStep(t)

Spec == Init /\ [][Next]_vars

\* Tasks are scheduled and the server answers. Nobody has to start the program, to quit
\* it, or to click.
FairSpec ==
    /\ Spec
    /\ WF_vars(EngineStep)
    /\ \A t \in Tasks : WF_vars(TaskStep(t))

-----------------------------------------------------------------------------
(***************************************************************************)
(* Properties.                                                              *)
(***************************************************************************)

\* A worker that runs is within reach of shutdown, being in the map or told already, and an
\* account has one worker that has not been told to stop: it may be found in the table and
\* announced by a window at the same time, and two would synchronize INBOX side by side
\* (start_account_worker and shutdown, which share the map).
Worker(t) == kind[t] = "worker" /\ Alive(t) /\ ~told[t]

OneWorker ==
    /\ \A t \in Tasks : Worker(t) => for[t] \in workers
    /\ \A t, u \in Tasks : Worker(t) /\ Worker(u) /\ for[t] = for[u] => t = u

\* Tasks that clash fail one another, and never all: while one inserts the others may
\* give up, and when the last has ended the table holds every folder (the `?` on
\* insert_folder).
LastOneFinishes ==
    \A a \in Accounts :
        (\E t \in Tasks : for[t] = a /\ pc[t] \in {"watch", "done", "clashed"})
        => Complete(a) \/ \E t \in Tasks : for[t] = a /\ pc[t] = "insert"

\* A worker that ended before its watch: its one connection failed, or another task
\* inserted a folder it was about to insert.
Excused(t) ==
    \/ pc[t] = "failed"
    \/ pc[t] = "clashed" /\ \E r \in RowsOf(for[t]) : r.id \notin {t, Earlier}

\* A watcher stores messages under the rows of its account, all of them in the table, not
\* under an identifier that never got there (sync_folders returns what it inserted).
Watches(t) == pc[t] = "watch" /\ got[t] = RowsOf(for[t]) /\ Complete(for[t])

\* While the engine runs, every account it was told of is watched sooner or later, or its
\* worker ended for one of the two reasons above (start and the AccountAdded handler).
AccountIsWatched ==
    \A a \in Accounts :
        engine = "running" /\ a \in accounts \ unheard
            ~> \/ engine # "running"
               \/ \E t \in Tasks :
                     for[t] = a /\ kind[t] = "worker" /\ (Watches(t) \/ Excused(t))
=============================================================================
