------------------------ MODULE AccountWorkersProofs ------------------------
(***************************************************************************)
(* However many tasks synchronize the folders of an account, and whenever    *)
(* the engine starts, ends or crashes: an account has one worker at a time,  *)
(* and of the tasks that clash in the table the last one completes it. And   *)
(* whatever ends an IDLE of the worker: no line of it is left for the next   *)
(* command.                                                                  *)
(***************************************************************************)
EXTENDS AccountWorkers, IdleWorker, TLAPS, SequenceTheorems

USE AccountWorkersAssumption

LEMMA SomeAccount == (CHOOSE a \in Accounts : TRUE) \in Accounts
OBVIOUS

LEMMA InitType == Init => TypeOK
<1> SUFFICES ASSUME Init PROVE TypeOK
  OBVIOUS
<1>1. rows \subseteq Row
  <2>1. PICK names \in Stored : rows = [account : Known, name : 1..names, id : {Earlier}]
    BY DEF Init
  <2>2. 1..names \subseteq 1..Folders
    OBVIOUS
  <2>3. QED
    BY <2>1, <2>2 DEF Row
<1>2. for \in [Tasks -> Accounts]
  BY SomeAccount DEF Init
<1>3. next \in [Tasks -> 1..Folders + 1]
  BY DEF Init
<1>4. /\ kind \in [Tasks -> {"worker", "sync"}]
      /\ seen \in [Tasks -> SUBSET Row] /\ got \in [Tasks -> SUBSET Row]
      /\ told \in [Tasks -> BOOLEAN]
      /\ pc \in [Tasks -> {"none", "list", "insert", "watch", "done", "failed", "clashed", "gone"}]
  BY DEF Init
<1>5. /\ engine = "down" /\ turns \in 0..MaxTurns
      /\ accounts \subseteq Accounts
      /\ todo = {} /\ requests = {} /\ unheard = {} /\ workers = {}
  BY DEF Init
<1>6. QED
  BY <1>1, <1>2, <1>3, <1>4, <1>5 DEF TypeOK

\* What failing and advancing leave.
LEMMA FailsType ==
    ASSUME TypeOK, NEW t \in Tasks, NEW how \in {"failed", "clashed"}, Fails(t, how),
           UNCHANGED <<engine, turns, accounts, todo, requests, unheard, workers>>
    PROVE  TypeOK'
BY DEF TypeOK, Fails, Row

LEMMA AdvanceType ==
    ASSUME TypeOK, NEW t \in Tasks, NEW row \in Row, Advance(t, row), rows' \subseteq Row
    PROVE  TypeOK'
<1>1. next' \in [Tasks -> 1..Folders + 1]
  BY DEF TypeOK, Advance
<1>2. got' \in [Tasks -> SUBSET Row]
  BY DEF TypeOK, Advance
<1>3. /\ pc' \in [Tasks -> {"none", "list", "insert", "watch", "done", "failed", "clashed", "gone"}]
      /\ seen' \in [Tasks -> SUBSET Row]
  BY DEF TypeOK, Advance
<1>4. QED
  BY <1>1, <1>2, <1>3 DEF TypeOK, Advance

LEMMA BeginType ==
    ASSUME TypeOK, NEW k \in {"worker", "sync"}, NEW a \in Accounts, Begin(k, a)
    PROVE  /\ kind' \in [Tasks -> {"worker", "sync"}]
           /\ for' \in [Tasks -> Accounts]
           /\ pc' \in [Tasks -> {"none", "list", "insert", "watch", "done", "failed", "clashed", "gone"}]
           /\ UNCHANGED <<seen, next, got, told>>
BY DEF TypeOK, Begin, NextTask

LEMMA TypeStep == ASSUME TypeOK, [Next]_vars PROVE TypeOK'
<1>1. CASE Listen \/ ListAccounts \/ EngineRuns
  BY <1>1 DEF TypeOK, Listen, ListAccounts, EngineRuns, tables, task
<1>2. CASE Exit \/ Crash
  <2>1. for' \in [Tasks -> Accounts]
    BY <1>2, SomeAccount DEF Exit, Crash, Ended
  <2>2. next' \in [Tasks -> 1..Folders + 1]
    BY <1>2 DEF Exit, Crash, Ended
  <2>3. QED
    BY <1>2, <2>1, <2>2 DEF TypeOK, Exit, Crash, Ended, tables
<1>3. CASE Quit
  <2>1. told' \in [Tasks -> BOOLEAN]
    BY <1>3, Zenon DEF Quit, TypeOK, Alive, Active
  <2>2. QED
    BY <1>3, <2>1 DEF TypeOK, Quit, tables
<1>4. ASSUME NEW a \in Accounts, StartKnown(a) PROVE TypeOK'
  <2>1. CASE a \in workers
    BY <1>4, <2>1 DEF TypeOK, StartKnown, tables, task
  <2>2. CASE a \notin workers
    BY <1>4, <2>2, BeginType DEF TypeOK, StartKnown, tables
  <2>3. QED
    BY <2>1, <2>2
<1>5. ASSUME NEW a \in Accounts, AddAccount(a) PROVE TypeOK'
  BY <1>5 DEF TypeOK, AddAccount, tables, task
<1>6. ASSUME NEW a \in Accounts, HandleAdded(a) PROVE TypeOK'
  <2>1. CASE a \in workers
    BY <1>6, <2>1, BeginType DEF TypeOK, HandleAdded, tables
  <2>2. CASE a \notin workers
    BY <1>6, <2>2 DEF TypeOK, HandleAdded, tables
  <2>3. QED
    BY <2>1, <2>2
<1>7. ASSUME NEW a \in Accounts, SyncAccountFolders(a) PROVE TypeOK'
  BY <1>7, BeginType DEF TypeOK, SyncAccountFolders, tables
<1>8. ASSUME NEW t \in Tasks, TaskStep(t) PROVE TypeOK'
  <2>1. CASE ReadFolders(t)
    <3>1. CASE CannotList /\ Fails(t, "failed")
      BY <2>1, <3>1, FailsType DEF ReadFolders
    <3>2. RowsOf(for[t]) \subseteq Row
      BY DEF RowsOf, TypeOK
    <3>3. QED
      BY <2>1, <3>1, <3>2 DEF ReadFolders, TypeOK
  <2>2. CASE KeepFolder(t)
    <3>1. PICK row \in seen[t] : Advance(t, row) /\ rows' = rows
      BY <2>2 DEF KeepFolder
    <3>2. QED
      BY <3>1, AdvanceType DEF TypeOK
  <2>3. CASE InsertFolder(t)
    <3>1. NewRow(t) \in Row
      BY <2>3 DEF InsertFolder, Advance, TypeOK, NewRow, Row
    <3>2. QED
      BY <2>3, <3>1, AdvanceType DEF InsertFolder, TypeOK
  <2>4. CASE InsertClashes(t)
    BY <2>4, FailsType DEF InsertClashes
  <2>5. CASE StopWatching(t)
    BY <2>5 DEF TypeOK, StopWatching, tables, Row
  <2>6. QED
    BY <1>8, <2>1, <2>2, <2>3, <2>4, <2>5 DEF TaskStep
<1>9. CASE UNCHANGED vars
  BY <1>9 DEF TypeOK, vars, tables, task
<1>10. QED
  BY <1>1, <1>2, <1>3, <1>4, <1>5, <1>6, <1>7, <1>8, <1>9 DEF Next, EngineStep

\* The tables, the map and the tasks have values of their types (coordinator.rs
\* and the folders of db/folders.rs).
THEOREM TypeCorrect == Spec => []TypeOK
BY InitType, TypeStep, PTL DEF Spec

-----------------------------------------------------------------------------
(***************************************************************************)
(* One worker.                                                              *)
(***************************************************************************)

\* A task that has not begun is nobody's worker, so beginning adds one.
LEMMA BeginWorker ==
    ASSUME TypeOK, OneWorker, NEW k \in {"worker", "sync"}, NEW a \in Accounts, Begin(k, a),
           k = "worker" => a \notin workers,
           workers' = IF k = "worker" THEN workers \cup {a} ELSE workers
    PROVE  OneWorker'
<1>1. PICK t \in NextTask :
          /\ kind' = [kind EXCEPT ![t] = k]
          /\ for' = [for EXCEPT ![t] = a]
          /\ pc' = [pc EXCEPT ![t] = "list"]
          /\ told' = told
  BY DEF Begin
<1>2. t \in Tasks /\ pc[t] = "none"
  BY <1>1 DEF NextTask, Tasks
<1>3. \A u \in Tasks : u # t => (Worker(u)' <=> Worker(u)) /\ for'[u] = for[u]
  BY <1>1, <1>2 DEF TypeOK, Worker, Alive, Active
<1>4. Worker(t)' => k = "worker" /\ for'[t] = a
  BY <1>1, <1>2 DEF TypeOK, Worker
<1>5. QED
  BY <1>2, <1>3, <1>4 DEF OneWorker

\* Whatever changes only what a task has found leaves fewer workers.
LEMMA FewerWorkers ==
    ASSUME TypeOK, OneWorker, UNCHANGED <<kind, for, told, workers>>,
           \A t \in Tasks : pc'[t] = pc[t] \/ pc'[t] \notin {"list", "insert", "watch"} \/ Active(t)
    PROVE  OneWorker'
<1>1. \A t \in Tasks : Worker(t)' => Worker(t)
  BY DEF Worker, Alive, Active
<1>2. QED
  BY <1>1 DEF OneWorker

LEMMA OneWorkerStep == ASSUME TypeOK, OneWorker, [Next]_vars PROVE OneWorker'
<1>1. CASE Listen \/ ListAccounts \/ EngineRuns
  BY <1>1, FewerWorkers DEF Listen, ListAccounts, EngineRuns, task
<1>2. CASE Exit \/ Crash
  <2>1. \A t \in Tasks : ~ Worker(t)'
    BY <1>2 DEF Exit, Crash, Ended, Worker
  <2>2. QED
    BY <2>1 DEF OneWorker
<1>3. CASE Quit
  <2>1. \A t \in Tasks : ~ Worker(t)'
    BY <1>3 DEF Quit, Worker, Alive, Active, OneWorker
  <2>2. QED
    BY <2>1 DEF OneWorker
<1>4. ASSUME NEW a \in Accounts, StartKnown(a) PROVE OneWorker'
  <2>1. CASE a \in workers
    BY <1>4, <2>1, FewerWorkers DEF StartKnown, task
  <2>2. CASE a \notin workers
    BY <1>4, <2>2, BeginWorker DEF StartKnown
  <2>3. QED
    BY <2>1, <2>2
<1>5. ASSUME NEW a \in Accounts, AddAccount(a) PROVE OneWorker'
  BY <1>5, FewerWorkers DEF AddAccount, task
<1>6. ASSUME NEW a \in Accounts, HandleAdded(a) PROVE OneWorker'
  <2>1. CASE a \in workers
    BY <1>6, <2>1, BeginWorker DEF HandleAdded
  <2>2. CASE a \notin workers
    <3>1. PICK w \in NextTask :
              /\ w + 1 \in Tasks
              /\ kind' = [kind EXCEPT ![w] = "worker", ![w + 1] = "sync"]
              /\ for' = [for EXCEPT ![w] = a, ![w + 1] = a]
              /\ pc' = [pc EXCEPT ![w] = "list", ![w + 1] = "list"]
              /\ told' = told /\ workers' = workers \cup {a}
      BY <1>6, <2>2 DEF HandleAdded
    <3>2. w \in Tasks /\ pc[w] = "none" /\ pc[w + 1] = "none" /\ w + 1 # w
      BY <3>1 DEF NextTask, Tasks
    <3>3. ~ Worker(w + 1)' /\ for'[w] = a /\ workers' = workers \cup {a}
      BY <3>1, <3>2 DEF TypeOK, Worker
    <3>4. \A u \in Tasks : u # w /\ u # w + 1 => (Worker(u)' <=> Worker(u)) /\ for'[u] = for[u]
      BY <3>1, <3>2 DEF TypeOK, Worker, Alive, Active
    <3>5. \A u \in Tasks : Worker(u)' => u = w \/ (Worker(u) /\ for'[u] = for[u] /\ for[u] # a)
      BY <2>2, <3>3, <3>4 DEF OneWorker
    <3>6. \A u \in Tasks : Worker(u)' => for'[u] \in workers'
      BY <3>3, <3>5 DEF OneWorker
    <3>7. \A t, u \in Tasks : Worker(t)' /\ Worker(u)' /\ for'[t] = for'[u] => t = u
      BY <3>3, <3>5 DEF OneWorker
    <3>8. QED
      BY <3>6, <3>7 DEF OneWorker
  <2>3. QED
    BY <2>1, <2>2
<1>7. ASSUME NEW a \in Accounts, SyncAccountFolders(a) PROVE OneWorker'
  BY <1>7, BeginWorker DEF SyncAccountFolders
<1>8. ASSUME NEW t \in Tasks, TaskStep(t) PROVE OneWorker'
  BY <1>8, FewerWorkers DEF TaskStep, ReadFolders, KeepFolder, InsertFolder, InsertClashes,
       StopWatching, Fails, Advance, Active, TypeOK
<1>9. CASE UNCHANGED vars
  BY <1>9, FewerWorkers DEF vars, task
<1>10. QED
  BY <1>1, <1>2, <1>3, <1>4, <1>5, <1>6, <1>7, <1>8, <1>9 DEF Next, EngineStep

\* An account found in the table and announced by a window has one worker that has not
\* been told to stop, and shutdown reaches it, over every start and end of the engine
\* (start, start_account_worker and shutdown, coordinator.rs).
THEOREM OneWorkerEach == Spec => []OneWorker
<1>1. Init => OneWorker
  BY DEF Init, OneWorker, Worker
<1>2. QED
  BY <1>1, InitType, TypeStep, OneWorkerStep, PTL DEF Spec

-----------------------------------------------------------------------------
(***************************************************************************)
(* The last one finishes.                                                   *)
(***************************************************************************)

\* Folders are inserted in the order the server lists them: the first few are in the table.
InOrder == \A a \in Accounts : \E k \in 0..Folders : Names(RowsOf(a)) = 1..k

\* A task has all that precedes its folder in the table, and what it has not seen there
\* was inserted by a task of the same life of the engine.
Placed(t) ==
    /\ next[t] <= Folders
    /\ seen[t] \subseteq RowsOf(for[t])
    /\ \E k \in 0..Folders : Names(seen[t]) = 1..k
    /\ 1..next[t] - 1 \subseteq Names(RowsOf(for[t]))
    /\ \A r \in RowsOf(for[t]) \ seen[t] : r.id # Earlier /\ pc[r.id] # "gone"

AtWork ==
    /\ \A t \in Tasks : pc[t] \in {"none", "list"} => next[t] = 1
    /\ \A t \in Tasks : pc[t] = "insert" => Placed(t)

\* Whoever inserted a folder goes on behind it, unless the next is there or its life is over.
Follows(r) ==
    \/ r.id = Earlier
    \/ pc[r.id] = "gone"
    \/ r.name = Folders
    \/ r.name + 1 \in Names(RowsOf(r.account))
    \/ pc[r.id] = "insert" /\ for[r.id] = r.account /\ next[r.id] = r.name + 1

LastInv == InOrder /\ AtWork /\ (\A r \in rows : Follows(r)) /\ LastOneFinishes

LEMMA InitLast == Init => LastInv
<1> SUFFICES ASSUME Init PROVE LastInv
  OBVIOUS
<1>1. PICK names \in Stored : rows = [account : Known, name : 1..names, id : {Earlier}]
  BY DEF Init
<1>2. InOrder
  <2> SUFFICES ASSUME NEW a \in Accounts
               PROVE  \E k \in 0..Folders : Names(RowsOf(a)) = 1..k
    BY DEF InOrder
  <2>1. CASE a \in Known
    <3>1. \A n \in 1..names : \E r \in RowsOf(a) : r.name = n
      <4> SUFFICES ASSUME NEW n \in 1..names PROVE \E r \in RowsOf(a) : r.name = n
        OBVIOUS
      <4> DEFINE row == [account |-> a, name |-> n, id |-> Earlier]
      <4>1. row \in rows
        BY <1>1, <2>1
      <4>2. QED
        BY <4>1 DEF RowsOf
    <3>2. 1..names \subseteq Names(RowsOf(a))
      BY <3>1 DEF Names
    <3>3. Names(RowsOf(a)) \subseteq 1..names
      BY <1>1 DEF Names, RowsOf
    <3>4. QED
      BY <3>2, <3>3
  <2>2. CASE a \notin Known
    <3>1. Names(RowsOf(a)) = {}
      BY <1>1, <2>2 DEF Names, RowsOf
    <3>2. QED
      BY <3>1
  <2>3. QED
    BY <2>1, <2>2
<1>3. \A r \in rows : r.id = Earlier
  BY <1>1
<1>4. QED
  BY <1>2, <1>3 DEF Init, LastInv, AtWork, Follows, LastOneFinishes

\* A task that clashes leaves another one that inserts, or the table complete: the last
\* folder in the table is one it has not seen.
LEMMA SomeoneInserts ==
    ASSUME TypeOK, LastInv, NEW t \in Tasks, pc[t] = "insert",
           next[t] \notin Names(seen[t]), next[t] \in Names(RowsOf(for[t]))
    PROVE  Complete(for[t]) \/ \E u \in Tasks \ {t} : for[u] = for[t] /\ pc[u] = "insert"
<1>1. PICK k \in 0..Folders : Names(RowsOf(for[t])) = 1..k
  BY DEF LastInv, InOrder, TypeOK
<1>2. PICK j \in 0..Folders : Names(seen[t]) = 1..j
  BY DEF LastInv, AtWork, Placed
<1>3. next[t] \in 1..k /\ next[t] \notin 1..j /\ next[t] \in 1..Folders + 1
  BY <1>1, <1>2 DEF TypeOK
<1>4. k \in 1..k /\ k \notin 1..j /\ k + 1 \notin 1..k
  BY <1>3
<1>5. PICK r \in RowsOf(for[t]) : r.name = k
  BY <1>1, <1>4 DEF Names
<1>6. r \notin seen[t]
  BY <1>2, <1>4, <1>5 DEF Names
<1>7. r \in rows /\ r.account = for[t] /\ r.id \in Tasks \cup {Earlier}
  BY <1>5 DEF RowsOf, TypeOK, Row
<1>8. r.id # Earlier /\ pc[r.id] # "gone" /\ r.name + 1 \notin Names(RowsOf(r.account))
  BY <1>1, <1>4, <1>5, <1>6, <1>7 DEF LastInv, AtWork, Placed
<1>9. CASE r.name = Folders
  BY <1>1, <1>5, <1>9 DEF Complete
<1>10. CASE pc[r.id] = "insert" /\ for[r.id] = r.account /\ next[r.id] = r.name + 1
  BY <1>3, <1>5, <1>7, <1>8, <1>10
<1>11. QED
  BY <1>7, <1>8, <1>9, <1>10 DEF LastInv, Follows

\* Tasks that begin insert nothing yet.
LEMMA StillLast ==
    ASSUME TypeOK, LastInv, UNCHANGED <<rows, seen, next>>,
           \A t \in Tasks :
              \/ pc'[t] = pc[t] /\ for'[t] = for[t]
              \/ pc[t] = "none" /\ pc'[t] = "list"
    PROVE  LastInv'
<1>1. \A a : RowsOf(a)' = RowsOf(a)
  BY DEF RowsOf
<1>2. \A a : Names(RowsOf(a))' = Names(RowsOf(a))
  BY <1>1 DEF Names
<1>3. \A a : Complete(a)' = Complete(a)
  BY <1>2 DEF Complete
<1>4. InOrder'
  BY <1>2 DEF LastInv, InOrder
<1>5. \A r \in rows : r.id = Earlier \/ r.id \in Tasks
  BY DEF TypeOK, Row
<1>6. AtWork'
  <2>1. \A t \in Tasks : pc'[t] \in {"none", "list"} => next'[t] = 1
    BY DEF LastInv, AtWork
  <2>2. ASSUME NEW t \in Tasks, pc'[t] = "insert" PROVE Placed(t)'
    <3>1. pc[t] = "insert" /\ for'[t] = for[t] /\ Placed(t)
      BY <2>2 DEF LastInv, AtWork
    <3>2. \A r \in RowsOf(for[t]) \ seen[t] : r.id # Earlier /\ pc'[r.id] # "gone"
      BY <1>5, <3>1 DEF Placed, RowsOf
    <3>3. Names(seen[t])' = Names(seen[t])
      BY DEF Names
    <3>4. QED
      BY <1>1, <1>2, <3>1, <3>2, <3>3 DEF Placed
  <2>3. QED
    BY <2>1, <2>2 DEF AtWork
<1>7. \A r \in rows' : Follows(r)'
  BY <1>2, <1>5 DEF LastInv, Follows
<1>8. LastOneFinishes'
  BY <1>3 DEF LastInv, LastOneFinishes
<1>9. QED
  BY <1>4, <1>6, <1>7, <1>8 DEF LastInv

LEMMA EndedLast == ASSUME TypeOK, LastInv, Ended PROVE LastInv'
<1>1. \A a : Names(RowsOf(a))' = Names(RowsOf(a))
  BY DEF RowsOf, Names, Ended, tables
<1>2. InOrder'
  BY <1>1 DEF LastInv, InOrder
<1>3. \A t \in Tasks : pc'[t] \in {"none", "gone"} /\ next'[t] = 1
  BY DEF Ended
<1>4. AtWork'
  BY <1>3 DEF AtWork
<1>5. ASSUME NEW r \in rows PROVE Follows(r)'
  <2>1. r.id = Earlier \/ r.id \in Tasks
    BY DEF TypeOK, Row
  <2>2. \A t \in Tasks : pc[t] \in {"gone", "insert"} => pc'[t] = "gone"
    BY DEF Ended
  <2>3. QED
    BY <1>1, <2>1, <2>2 DEF LastInv, Follows
<1>6. LastOneFinishes'
  BY <1>3 DEF LastOneFinishes
<1>7. QED
  BY <1>2, <1>4, <1>5, <1>6 DEF LastInv, Ended, tables

\* A task that reads the table sees all that is there; one that cannot list ends.
LEMMA ReadLast ==
    ASSUME TypeOK, LastInv, NEW t \in Tasks, ReadFolders(t)
    PROVE  LastInv'
<1>1. rows' = rows /\ for' = for /\ pc[t] = "list"
  BY DEF ReadFolders, Fails
<1>2. \A a : RowsOf(a)' = RowsOf(a) /\ Names(RowsOf(a))' = Names(RowsOf(a))
  BY <1>1 DEF RowsOf, Names
<1>3. InOrder'
  BY <1>2 DEF LastInv, InOrder
<1>4. /\ pc'[t] \in {"insert", "failed"} /\ next'[t] = 1
      /\ pc'[t] = "insert" => seen'[t] = RowsOf(for[t])
  BY DEF ReadFolders, Fails, TypeOK, LastInv, AtWork
<1>5. \A u \in Tasks \ {t} : pc'[u] = pc[u] /\ seen'[u] = seen[u] /\ next'[u] = next[u]
  BY DEF ReadFolders, Fails, TypeOK
<1>6. \A u \in Tasks : pc'[u] = "gone" <=> pc[u] = "gone"
  BY <1>1, <1>4, <1>5
<1>7. \A r \in rows : r.id = Earlier \/ r.id \in Tasks
  BY DEF TypeOK, Row
<1>8. AtWork'
  <2>1. \A u \in Tasks : pc'[u] \in {"none", "list"} => next'[u] = 1
    BY <1>4, <1>5 DEF LastInv, AtWork
  <2>2. ASSUME NEW u \in Tasks \ {t}, pc'[u] = "insert" PROVE Placed(u)'
    <3>1. Placed(u)
      BY <1>5, <2>2 DEF LastInv, AtWork
    <3>2. \A r \in RowsOf(for[u]) \ seen[u] : r.id # Earlier /\ pc'[r.id] # "gone"
      BY <1>6, <1>7, <3>1 DEF Placed, RowsOf
    <3>3. QED
      BY <1>1, <1>2, <1>5, <3>1, <3>2 DEF Placed, Names
  <2>3. ASSUME pc'[t] = "insert" PROVE Placed(t)'
    <3>1. \E k \in 0..Folders : Names(RowsOf(for[t])) = 1..k
      BY DEF LastInv, InOrder, TypeOK
    <3>2. Names(seen[t])' = Names(RowsOf(for[t]))
      BY <1>4, <2>3 DEF Names
    <3>3. QED
      BY <1>1, <1>2, <1>4, <2>3, <3>1, <3>2 DEF Placed
  <2>4. QED
    BY <2>1, <2>2, <2>3 DEF AtWork
<1>9. \A r \in rows' : Follows(r)'
  BY <1>1, <1>2, <1>5, <1>6, <1>7 DEF LastInv, Follows
<1>10. LastOneFinishes'
  <2>1. \A u \in Tasks : pc'[u] \in {"watch", "done", "clashed"} => pc'[u] = pc[u]
    BY <1>4, <1>5
  <2>2. \A u \in Tasks : pc[u] = "insert" => pc'[u] = "insert"
    BY <1>1, <1>5
  <2>3. \A a \in Accounts : Complete(a)' = Complete(a)
    BY <1>2 DEF Complete
  <2>4. QED
    BY <1>1, <2>1, <2>2, <2>3 DEF LastInv, LastOneFinishes
<1>11. QED
  BY <1>3, <1>8, <1>9, <1>10 DEF LastInv

LEMMA ClashLast ==
    ASSUME TypeOK, LastInv, NEW t \in Tasks, InsertClashes(t)
    PROVE  LastInv'
<1>1. rows' = rows /\ for' = for /\ pc[t] = "insert"
  BY DEF InsertClashes, Fails
<1>2. \A a : RowsOf(a)' = RowsOf(a) /\ Names(RowsOf(a))' = Names(RowsOf(a))
  BY <1>1 DEF RowsOf, Names
<1>3. InOrder'
  BY <1>2 DEF LastInv, InOrder
<1>4. pc'[t] = "clashed"
  BY DEF InsertClashes, Fails, TypeOK
<1>5. \A u \in Tasks \ {t} : pc'[u] = pc[u] /\ seen'[u] = seen[u] /\ next'[u] = next[u]
  BY DEF InsertClashes, Fails, TypeOK
<1>6. \A u \in Tasks : pc'[u] = "gone" <=> pc[u] = "gone"
  BY <1>1, <1>4, <1>5
<1>7. \A r \in rows : r.id = Earlier \/ r.id \in Tasks
  BY DEF TypeOK, Row
<1>8. AtWork'
  <2>1. \A u \in Tasks : pc'[u] \in {"none", "list"} => next'[u] = 1
    BY <1>4, <1>5 DEF LastInv, AtWork
  <2>2. ASSUME NEW u \in Tasks, pc'[u] = "insert" PROVE Placed(u)'
    <3>1. Placed(u) /\ u # t
      BY <1>4, <1>5, <2>2 DEF LastInv, AtWork
    <3>2. \A r \in RowsOf(for[u]) \ seen[u] : r.id # Earlier /\ pc'[r.id] # "gone"
      BY <1>6, <1>7, <3>1 DEF Placed, RowsOf
    <3>3. QED
      BY <1>1, <1>2, <1>5, <3>1, <3>2 DEF Placed, Names
  <2>3. QED
    BY <2>1, <2>2 DEF AtWork
<1>9. ASSUME NEW r \in rows PROVE Follows(r)'
  <2>1. CASE r.id = t /\ for[t] = r.account /\ next[t] = r.name + 1
    <3>1. r.name + 1 \in Names(RowsOf(r.account))
      BY <2>1 DEF InsertClashes
    <3>2. QED
      BY <1>2, <3>1 DEF Follows
  <2>2. QED
    BY <1>1, <1>2, <1>5, <1>6, <1>7, <2>1 DEF LastInv, Follows
<1>10. LastOneFinishes'
  <2> SUFFICES ASSUME NEW a \in Accounts, NEW u \in Tasks, for[u] = a,
                      pc'[u] \in {"watch", "done", "clashed"}
               PROVE  Complete(a) \/ \E v \in Tasks : for[v] = a /\ pc'[v] = "insert"
    BY <1>1, <1>2 DEF LastOneFinishes, Complete
  <2>1. CASE for[t] = a
    <3>1. Complete(a) \/ \E v \in Tasks \ {t} : for[v] = a /\ pc[v] = "insert"
      BY <2>1, SomeoneInserts DEF InsertClashes
    <3>2. QED
      BY <1>5, <3>1
  <2>2. CASE for[t] # a
    <3>1. Complete(a) \/ \E v \in Tasks : for[v] = a /\ pc[v] = "insert"
      BY <1>5, <2>2 DEF LastInv, LastOneFinishes
    <3>2. QED
      BY <1>5, <2>2, <3>1
  <2>3. QED
    BY <2>1, <2>2
<1>11. QED
  BY <1>1, <1>3, <1>8, <1>9, <1>10 DEF LastInv

\* A folder that is kept is in the table already, one that is inserted is new.
LEMMA GrowNames ==
    ASSUME NEW row, rows' = rows \cup {row}, NEW a
    PROVE  /\ row.account = a => Names(RowsOf(a))' = Names(RowsOf(a)) \cup {row.name}
           /\ row.account # a => Names(RowsOf(a))' = Names(RowsOf(a))
<1>1. CASE row.account = a
  <2>1. RowsOf(a)' = RowsOf(a) \cup {row}
    BY <1>1 DEF RowsOf
  <2>2. QED
    BY <1>1, <2>1 DEF Names
<1>2. CASE row.account # a
  <2>1. RowsOf(a)' = RowsOf(a)
    BY <1>2 DEF RowsOf
  <2>2. QED
    BY <1>2, <2>1 DEF Names
<1>3. QED
  BY <1>1, <1>2

LEMMA BeginEffect ==
    ASSUME TypeOK, NEW k, NEW a \in Accounts, Begin(k, a)
    PROVE  /\ UNCHANGED <<seen, next>>
           /\ \A t \in Tasks :
                 \/ pc'[t] = pc[t] /\ for'[t] = for[t]
                 \/ pc[t] = "none" /\ pc'[t] = "list"
<1>1. PICK w \in NextTask :
          /\ for' = [for EXCEPT ![w] = a]
          /\ pc' = [pc EXCEPT ![w] = "list"]
          /\ UNCHANGED <<seen, next>>
  BY DEF Begin
<1>2. w \in Tasks /\ pc[w] = "none"
  BY <1>1 DEF NextTask, Tasks
<1>3. QED
  BY <1>1, <1>2 DEF TypeOK

LEMMA BeginsLast ==
    ASSUME TypeOK, LastInv, NEW k, NEW a \in Accounts, Begin(k, a), rows' = rows
    PROVE  LastInv'
BY BeginEffect, StillLast

LEMMA AdvanceLast ==
    ASSUME TypeOK, LastInv, NEW t \in Tasks, pc[t] = "insert",
           NEW row \in Row, row.account = for[t], row.name = next[t],
           Advance(t, row), rows' = rows \cup {row},
           row \in rows \/ (row.id = t /\ next[t] \notin Names(RowsOf(for[t])))
    PROVE  LastInv'
<1> DEFINE n == next[t]
<1>0. PICK c \in Accounts : c = for[t] /\ for' = for
  BY DEF Advance, TypeOK
<1>1. n \in 1..Folders /\ 1..n - 1 \subseteq Names(RowsOf(c))
  BY <1>0 DEF TypeOK, LastInv, AtWork, Placed
<1>2. \A a : Names(RowsOf(a)) \subseteq Names(RowsOf(a))' /\ RowsOf(a) \subseteq RowsOf(a)'
  BY DEF Names, RowsOf
<1>3. Names(RowsOf(c))' = Names(RowsOf(c)) \cup {n}
  BY <1>0, GrowNames
<1>4. next'[t] = n + 1
  BY DEF Advance, TypeOK
<1>5. \A u \in Tasks \ {t} : pc'[u] = pc[u] /\ seen'[u] = seen[u] /\ next'[u] = next[u]
  BY DEF Advance, TypeOK
<1>6. \/ n < Folders /\ pc'[t] = "insert" /\ seen'[t] = seen[t]
      \/ n = Folders /\ pc'[t] \in {"watch", "done"}
  BY DEF Advance, TypeOK
<1>7. \A u \in Tasks : pc'[u] = "gone" <=> pc[u] = "gone"
  BY <1>5, <1>6
<1>8. \A r \in rows : r.id = Earlier \/ r.id \in Tasks
  BY DEF TypeOK, Row
<1>9. InOrder'
  <2> SUFFICES ASSUME NEW a \in Accounts PROVE \E k \in 0..Folders : Names(RowsOf(a))' = 1..k
    BY DEF InOrder
  <2>1. PICK k \in 0..Folders : Names(RowsOf(a)) = 1..k
    BY DEF LastInv, InOrder
  <2>2. CASE a # c
    BY <1>0, <2>1, <2>2, GrowNames
  <2>3. CASE a = c /\ n \in 1..k
    <3>1. Names(RowsOf(c))' = 1..k
      BY <1>3, <2>1, <2>3
    <3>2. QED
      BY <2>3, <3>1
  <2>4. CASE a = c /\ n \notin 1..k
    <3>1. n = k + 1
      <4>1. n > k
        BY <1>1, <2>4
      <4>2. 1..n - 1 \subseteq 1..k
        BY <1>1, <2>1, <2>4
      <4>3. n \in Nat /\ k \in Nat /\ n > k /\ (n # k + 1 => n - 1 \in 1..n - 1 /\ n - 1 > k)
        BY <1>1, <4>1
      <4>4. n - 1 \in 1..n - 1 => ~ (n - 1 > k)
        BY <4>2, <4>3
      <4>5. QED
        BY <4>3, <4>4
    <3>2. Names(RowsOf(c))' = 1..k + 1
      BY <1>3, <2>1, <2>4, <3>1
    <3>3. k + 1 \in 0..Folders
      BY <1>1, <3>1
    <3>4. QED
      BY <2>4, <3>2, <3>3
  <2>5. QED
    BY <2>2, <2>3, <2>4
<1>10. AtWork'
  <2>1. \A u \in Tasks : pc'[u] \in {"none", "list"} => next'[u] = 1
    BY <1>5, <1>6 DEF LastInv, AtWork
  <2>2. ASSUME NEW u \in Tasks, pc'[u] = "insert" PROVE Placed(u)'
    <3>0. PICK d \in Accounts : d = for[u]
      BY DEF TypeOK
    <3>1. Placed(u) /\ seen'[u] = seen[u]
      BY <1>5, <1>6, <2>2 DEF LastInv, AtWork
    <3>2. \A r \in RowsOf(d)' \ seen[u] : r.id # Earlier /\ pc'[r.id] # "gone"
      <4> SUFFICES ASSUME NEW r \in rows \cup {row}, r.account = d, r \notin seen[u]
                   PROVE  r.id # Earlier /\ pc'[r.id] # "gone"
        BY DEF RowsOf
      <4>1. CASE r \in rows
        BY <1>7, <1>8, <3>0, <3>1, <4>1 DEF Placed, RowsOf
      <4>2. CASE r \notin rows
        <5>1. r.id = t
          BY <4>2
        <5>2. QED
          BY <1>6, <5>1 DEF Tasks, Earlier
      <4>3. QED
        BY <4>1, <4>2
    <3>3. next'[u] <= Folders /\ 1..next'[u] - 1 \subseteq Names(RowsOf(d))'
      <4>1. CASE u = t
        BY <1>0, <1>1, <1>3, <1>4, <1>6, <2>2, <3>0, <4>1
      <4>2. CASE u # t
        BY <1>2, <1>5, <3>0, <3>1, <4>2 DEF Placed
      <4>3. QED
        BY <4>1, <4>2
    <3>4. seen[u] \subseteq RowsOf(d)'
      BY <1>2, <3>0, <3>1 DEF Placed
    <3>5. Names(seen[u])' = Names(seen[u])
      BY <3>1 DEF Names
    <3>6. QED
      BY <1>0, <3>0, <3>1, <3>2, <3>3, <3>4, <3>5 DEF Placed
  <2>3. QED
    BY <2>1, <2>2 DEF AtWork
<1>11. ASSUME NEW r \in rows' PROVE Follows(r)'
  <2>1. CASE r \notin rows
    <3>1. r.id = t /\ r.account = c /\ r.name = n
      BY <1>0, <2>1
    <3>2. QED
      BY <1>0, <1>4, <1>6, <3>1 DEF Follows
  <2>2. CASE r \in rows /\ r.id = t /\ c = r.account /\ n = r.name + 1
    <3>1. r.name + 1 \in Names(RowsOf(c))'
      BY <1>3, <2>2
    <3>2. QED
      BY <2>2, <3>1 DEF Follows
  <2>3. CASE r \in rows /\ ~ (r.id = t /\ c = r.account /\ n = r.name + 1)
    BY <1>0, <1>2, <1>4, <1>5, <1>7, <1>8, <2>3 DEF LastInv, Follows
  <2>4. QED
    BY <2>1, <2>2, <2>3
<1>12. LastOneFinishes'
  <2>1. \A a \in Accounts : Complete(a) => Complete(a)'
    <3> SUFFICES ASSUME NEW a \in Accounts, Complete(a) PROVE Complete(a)'
      OBVIOUS
    <3>1. \/ Names(RowsOf(a))' = Names(RowsOf(a)) \cup {n}
          \/ Names(RowsOf(a))' = Names(RowsOf(a))
      BY GrowNames
    <3>2. QED
      BY <1>1, <3>1 DEF Complete
  <2>2. pc'[t] # "insert" => Complete(c)'
    <3> SUFFICES ASSUME n = Folders PROVE Complete(c)'
      BY <1>6
    <3>1. PICK k \in 0..Folders : Names(RowsOf(c)) = 1..k
      BY DEF LastInv, InOrder
    <3>2. QED
      BY <1>1, <1>3, <3>1 DEF Complete
  <2>3. ASSUME NEW a \in Accounts, NEW u \in Tasks, for[u] = a,
               pc'[u] \in {"watch", "done", "clashed"}
        PROVE  Complete(a)' \/ \E v \in Tasks : for[v] = a /\ pc'[v] = "insert"
    <3>1. CASE u = t
      BY <1>0, <1>6, <2>2, <2>3, <3>1
    <3>2. CASE u # t
      <4>1. Complete(a) \/ \E v \in Tasks : for[v] = a /\ pc[v] = "insert"
        BY <1>5, <2>3, <3>2 DEF LastInv, LastOneFinishes
      <4>2. QED
        BY <1>0, <1>5, <2>1, <2>2, <4>1
    <3>3. QED
      BY <3>1, <3>2
  <2>4. QED
    BY <1>0, <2>3 DEF LastOneFinishes
<1>13. QED
  BY <1>9, <1>10, <1>11, <1>12 DEF LastInv

LEMMA StopLast ==
    ASSUME TypeOK, LastInv, NEW t \in Tasks, StopWatching(t)
    PROVE  LastInv'
<1>1. UNCHANGED <<rows, for, seen, next>> /\ pc[t] = "watch" /\ pc'[t] = "done"
  BY DEF StopWatching, tables, TypeOK
<1>2. \A u \in Tasks \ {t} : pc'[u] = pc[u]
  BY DEF StopWatching, TypeOK
<1>3. \A a : RowsOf(a)' = RowsOf(a) /\ Names(RowsOf(a))' = Names(RowsOf(a))
  BY <1>1 DEF RowsOf, Names
<1>4. \A r \in rows : r.id = Earlier \/ r.id \in Tasks
  BY DEF TypeOK, Row
<1>5. InOrder'
  BY <1>3 DEF LastInv, InOrder
<1>6. AtWork'
  <2>1. \A u \in Tasks : pc'[u] \in {"none", "list"} => next'[u] = 1
    BY <1>1, <1>2 DEF LastInv, AtWork
  <2>2. ASSUME NEW u \in Tasks, pc'[u] = "insert" PROVE Placed(u)'
    <3>1. Placed(u)
      BY <1>1, <1>2, <2>2 DEF LastInv, AtWork
    <3>2. \A r \in RowsOf(for[u]) \ seen[u] : r.id # Earlier /\ pc'[r.id] # "gone"
      BY <1>1, <1>2, <1>4, <3>1 DEF Placed, RowsOf
    <3>3. QED
      BY <1>1, <1>3, <3>1, <3>2 DEF Placed, Names
  <2>3. QED
    BY <2>1, <2>2 DEF AtWork
<1>7. \A r \in rows : Follows(r)'
  BY <1>1, <1>2, <1>3, <1>4 DEF LastInv, Follows
<1>8. LastOneFinishes'
  <2>1. \A u \in Tasks : /\ pc'[u] = "insert" <=> pc[u] = "insert"
                         /\ pc'[u] \in {"watch", "done", "clashed"} =>
                               pc[u] \in {"watch", "done", "clashed"}
    BY <1>1, <1>2
  <2>2. \A a \in Accounts : Complete(a)' = Complete(a)
    BY <1>3 DEF Complete
  <2>3. QED
    BY <1>1, <2>1, <2>2 DEF LastInv, LastOneFinishes
<1>9. QED
  BY <1>1, <1>5, <1>6, <1>7, <1>8 DEF LastInv

LEMMA LastStep == ASSUME TypeOK, LastInv, [Next]_vars PROVE LastInv'
<1>1. CASE Listen \/ ListAccounts \/ EngineRuns \/ Quit
  BY <1>1, StillLast DEF Listen, ListAccounts, EngineRuns, Quit, tables, task
<1>2. CASE Exit \/ Crash
  BY <1>2, EndedLast DEF Exit, Crash
<1>3. ASSUME NEW a \in Accounts, StartKnown(a) \/ AddAccount(a) \/ SyncAccountFolders(a)
      PROVE  LastInv'
  <2>1. UNCHANGED task \/ Begin("worker", a) \/ Begin("sync", a)
    BY <1>3 DEF StartKnown, AddAccount, SyncAccountFolders
  <2>2. rows' = rows
    BY <1>3 DEF StartKnown, AddAccount, SyncAccountFolders, tables
  <2>3. QED
    BY <2>1, <2>2, BeginsLast, StillLast DEF task
<1>4. ASSUME NEW a \in Accounts, HandleAdded(a) PROVE LastInv'
  <2>1. UNCHANGED <<rows, seen, next>>
    BY <1>4 DEF HandleAdded, Begin, tables
  <2>2. ASSUME NEW t \in Tasks
        PROVE  (pc'[t] = pc[t] /\ for'[t] = for[t]) \/ (pc[t] = "none" /\ pc'[t] = "list")
    <3>1. CASE a \in workers
      BY <1>4, <3>1, BeginEffect DEF HandleAdded
    <3>2. CASE a \notin workers
      <4>1. PICK w \in NextTask :
                /\ w + 1 \in Tasks
                /\ for' = [for EXCEPT ![w] = a, ![w + 1] = a]
                /\ pc' = [pc EXCEPT ![w] = "list", ![w + 1] = "list"]
        BY <1>4, <3>2 DEF HandleAdded
      <4>2. w \in Tasks /\ pc[w] = "none" /\ pc[w + 1] = "none"
        BY <4>1 DEF NextTask, Tasks
      <4>3. QED
        BY <4>1, <4>2 DEF TypeOK
    <3>3. QED
      BY <3>1, <3>2
  <2>3. QED
    BY <2>1, <2>2, StillLast
<1>5. ASSUME NEW t \in Tasks, TaskStep(t) PROVE LastInv'
  <2>1. CASE KeepFolder(t)
    <3>1. PICK row \in seen[t] : row.name = next[t] /\ Advance(t, row) /\ rows' = rows
      BY <2>1 DEF KeepFolder
    <3>2. pc[t] = "insert" /\ row \in rows /\ row \in Row /\ row.account = for[t]
      BY <2>1, <3>1 DEF KeepFolder, LastInv, AtWork, Placed, RowsOf, TypeOK
    <3>3. rows' = rows \cup {row}
      BY <3>1, <3>2
    <3>4. QED
      BY <3>1, <3>2, <3>3, AdvanceLast
  <2>2. CASE InsertFolder(t)
    <3>1. NewRow(t) \in Row /\ NewRow(t).account = for[t] /\ NewRow(t).name = next[t]
          /\ NewRow(t).id = t
      BY <2>2 DEF InsertFolder, Advance, NewRow, Row, TypeOK
    <3>2. QED
      BY <2>2, <3>1, AdvanceLast DEF InsertFolder
  <2>3. QED
    BY <1>5, <2>1, <2>2, ReadLast, ClashLast, StopLast DEF TaskStep
<1>6. CASE UNCHANGED vars
  BY <1>6, StillLast DEF vars, tables, task
<1>7. QED
  BY <1>1, <1>2, <1>3, <1>4, <1>5, <1>6 DEF Next, EngineStep

\* Of the tasks that insert an account's folders beside one another not all fail: while
\* one is left the others may clash, and when none is the table is complete (the `?` on
\* insert_folder in sync_folders, sync/engine.rs).
THEOREM OneCompletes == Spec => []LastOneFinishes
<1>1. LastInv => LastOneFinishes
  BY DEF LastInv
<1>2. QED
  BY <1>1, InitType, TypeStep, InitLast, LastStep, PTL DEF Spec

-----------------------------------------------------------------------------
(***************************************************************************)
(* The session of a worker that watches INBOX.                              *)
(***************************************************************************)
Lines == {"continue", "exists", "other", "completed"}

\* Lines of an IDLE that goes on, and of one that has been answered.
Open(w) == \A i \in 1..Len(w) : w[i] # "completed"
Answered(w) ==
    /\ Len(w) > 0 /\ w[Len(w)] = "completed"
    /\ \A i \in 1..Len(w) : i # Len(w) => w[i] # "completed"
Granted(w) == Len(w) > 0 /\ w[1] = "continue"

\* At each stage of the worker, what the server is at and what is still to be read. After
\* DONE the answer to IDLE is the last line, so that whoever reads up to it reads all.
SessionInv ==
    /\ wire \in Seq(Lines)
    /\ stage \in {"connect", "select", "fetch", "mutate", "enter", "backoff"} =>
         command = "none" /\ wire = <<>>
    /\ stage = "start" =>
         \/ command = "idle" /\ wire = <<>>
         \/ command = "idling" /\ Granted(wire) /\ Open(wire)
    /\ stage = "wait" => command = "idling" /\ Open(wire)
    /\ stage \in {"stop", "quit"} =>
         \/ command = "done" /\ Open(wire)
         \/ command = "none" /\ Answered(wire)
    /\ stage = "stopped" => command = "none"

\* The server writes a line.
LEMMA LineWritten ==
    ASSUME NEW w \in Seq(Lines), NEW line \in Lines
    PROVE  /\ Append(w, line) \in Seq(Lines)
           /\ line # "completed" /\ Open(w) => Open(Append(w, line))
           /\ line = "completed" /\ Open(w) => Answered(Append(w, line))
           /\ Granted(w) => Granted(Append(w, line))
           /\ w = <<>> /\ line = "continue" => Granted(Append(w, line))
<1>1. /\ Append(w, line) \in Seq(Lines) /\ Len(Append(w, line)) = Len(w) + 1 /\ Len(w) \in Nat
      /\ \A i \in 1..Len(w) : Append(w, line)[i] = w[i]
      /\ Append(w, line)[Len(w) + 1] = line
  BY AppendProperties, LenProperties
<1>2. w = <<>> => Len(w) = 0
  BY EmptySeq
<1>3. \A i \in 1..(Len(w) + 1) : i \in 1..Len(w) \/ i = Len(w) + 1
  BY <1>1
<1>4. Granted(w) => 1 \in 1..Len(w)
  BY <1>1 DEF Granted
<1>5. QED
  BY <1>1, <1>2, <1>3, <1>4 DEF Open, Answered, Granted

\* The worker reads one.
LEMMA LineRead ==
    ASSUME NEW w \in Seq(Lines), w # <<>>
    PROVE  /\ Tail(w) \in Seq(Lines) /\ Head(w) = w[1]
           /\ Open(w) => Open(Tail(w)) /\ Head(w) # "completed"
           /\ Answered(w) /\ Head(w) # "completed" => Answered(Tail(w))
           /\ Answered(w) /\ Head(w) = "completed" => Tail(w) = <<>>
<1>1. /\ Tail(w) \in Seq(Lines) /\ Head(w) = w[1] /\ Len(w) \in Nat /\ Len(w) > 0
      /\ Len(Tail(w)) = Len(w) - 1
      /\ \A i \in 1..Len(Tail(w)) : Tail(w)[i] = w[i + 1]
  BY HeadTailProperties, LenProperties, EmptySeq
<1>2. 1 \in 1..Len(w) /\ \A i \in 1..(Len(w) - 1) : i + 1 \in 1..Len(w)
  BY <1>1
<1>3. Open(w) => Open(Tail(w)) /\ Head(w) # "completed"
  BY <1>1, <1>2 DEF Open
<1>4. ASSUME Answered(w), Head(w) # "completed" PROVE Answered(Tail(w))
  <2>1. Len(w) # 1
    BY <1>1, <1>4 DEF Answered
  <2>2. Len(Tail(w)) \in Nat /\ Len(Tail(w)) > 0 /\ Len(Tail(w)) + 1 = Len(w)
    BY <1>1, <2>1
  <2>3. Tail(w)[Len(Tail(w))] = "completed"
    <3>1. Len(Tail(w)) \in 1..Len(Tail(w))
      BY <2>2
    <3>2. QED
      BY <1>1, <1>4, <2>2, <3>1 DEF Answered
  <2>4. ASSUME NEW i \in 1..Len(Tail(w)), i # Len(Tail(w)) PROVE Tail(w)[i] # "completed"
    <3>1. PICK k \in Nat : k = Len(Tail(w))
      BY <2>2
    <3>2. Len(w) = k + 1
      BY <2>2, <3>1
    <3>3. i \in 1..k /\ i # k
      BY <2>4, <3>1
    <3>4. i + 1 \in 1..Len(w) /\ i + 1 # Len(w)
      BY <3>2, <3>3
    <3>5. QED
      BY <1>1, <1>4, <3>4 DEF Answered
  <2>5. QED
    BY <2>2, <2>3, <2>4 DEF Answered
<1>5. ASSUME Answered(w), Head(w) = "completed" PROVE Tail(w) = <<>>
  <2>1. Len(w) = 1
    BY <1>1, <1>2, <1>5 DEF Answered
  <2>2. Len(Tail(w)) = 0
    BY <1>1, <2>1
  <2>3. QED
    BY <1>1, <2>2, EmptySeq
<1>6. QED
  BY <1>1, <1>3, <1>4, <1>5

LEMMA SessionInit == IdleInit => SessionInv
<1>1. <<>> \in Seq(Lines)
  OBVIOUS
<1>2. QED
  BY <1>1 DEF IdleInit, SessionInv

LEMMA SessionStep == ASSUME SessionInv, [IdleNext]_idleVars PROVE SessionInv'
<1>1. wire \in Seq(Lines)
  BY DEF SessionInv
<1>2. <<>> \in Seq(Lines) /\ Open(<<>>)
  BY EmptySeq DEF Open
<1>3. ASSUME UNCHANGED <<wire, command, stage>> PROVE SessionInv'
  BY <1>3 DEF SessionInv
<1>4. CASE Arrive \/ Enqueue \/ Shutdown \/ UNCHANGED idleVars
  BY <1>3, <1>4 DEF Arrive, Enqueue, Shutdown, idleVars, server
<1>5. CASE ServerContinues
  <2>1. command = "idle" /\ command' = "idling" /\ wire' = Append(wire, "continue") /\ stage' = stage
    BY <1>5 DEF ServerContinues
  <2>2. stage \notin {"connect", "select", "fetch", "mutate", "enter", "backoff", "wait", "stop", "quit", "stopped"}
    BY <2>1 DEF SessionInv
  <2>3. stage = "start" => wire = <<>>
    BY <2>1 DEF SessionInv
  <2>4. wire' \in Seq(Lines) /\ (wire = <<>> => Granted(wire') /\ Open(wire'))
    BY <1>1, <1>2, <2>1, LineWritten DEF Lines
  <2>5. QED
    BY <2>1, <2>2, <2>3, <2>4 DEF SessionInv
<1>6. ASSUME NEW line \in {"exists", "other"}, wire' = Append(wire, line), command \in {"idling", "done"},
             UNCHANGED <<command, stage>>
      PROVE  SessionInv'
  <2>1. wire' \in Seq(Lines) /\ (Open(wire) => Open(wire')) /\ (Granted(wire) => Granted(wire'))
    BY <1>1, <1>6, LineWritten DEF Lines
  <2>2. QED
    BY <1>6, <2>1 DEF SessionInv
<1>7. CASE ServerReports \/ ServerChats
  BY <1>6, <1>7 DEF ServerReports, ServerChats
<1>8. CASE ServerCompletes
  <2>1. command = "done" /\ command' = "none" /\ wire' = Append(wire, "completed") /\ stage' = stage
    BY <1>8 DEF ServerCompletes
  <2>2. wire' \in Seq(Lines) /\ (Open(wire) => Answered(wire'))
    BY <1>1, <2>1, LineWritten DEF Lines
  <2>3. QED
    BY <2>1, <2>2 DEF SessionInv
<1>9. CASE Connect \/ Select \/ Fetch \/ ProcessMutations
  <2>1. UNCHANGED <<wire, command>> /\ stage \in {"connect", "select", "fetch", "mutate"}
        /\ stage' \in {"select", "fetch", "mutate", "enter", "stopped"}
    BY <1>9 DEF Connect, Select, Fetch, ProcessMutations, server
  <2>2. QED
    BY <2>1 DEF SessionInv
<1>10. CASE EnterIdle
  <2>1. /\ UNCHANGED wire /\ stage = "enter"
        /\ \/ stage' = "stopped" /\ UNCHANGED command
           \/ stage' = "start" /\ command' = "idle"
    BY <1>10 DEF EnterIdle
  <2>2. QED
    BY <2>1 DEF SessionInv
<1>11. ASSUME Broken PROVE SessionInv'
  <2>1. command' = "none" /\ wire' = <<>> /\ stage' \in {"stopped", "backoff"}
    BY <1>11 DEF Broken
  <2>2. QED
    BY <1>2, <2>1 DEF SessionInv
<1>12. CASE Drop
  BY <1>11, <1>12 DEF Drop
<1>13. CASE StartIdle
  <2>1. CASE Broken
    BY <1>11, <2>1
  <2>2. CASE ~ Broken
    <3>1. stage = "start" /\ stage' = "wait" /\ wire # <<>> /\ wire' = Tail(wire) /\ UNCHANGED command
      BY <1>13, <2>2 DEF StartIdle
    <3>2. command = "idling" /\ Open(wire)
      BY <3>1 DEF SessionInv
    <3>3. wire' \in Seq(Lines) /\ Open(wire')
      BY <1>1, <3>1, <3>2, LineRead
    <3>4. QED
      BY <3>1, <3>2, <3>3 DEF SessionInv
  <2>3. QED
    BY <2>1, <2>2
<1>14. CASE ReadLine \/ TimerRunsOut \/ ChannelChanges
  <2>1. /\ stage = "wait" /\ stage' \in {"stop", "quit"} /\ command' = "done"
        /\ UNCHANGED wire \/ (wire # <<>> /\ wire' = Tail(wire))
    BY <1>14 DEF ReadLine, TimerRunsOut, ChannelChanges, Leave
  <2>2. wire' \in Seq(Lines) /\ Open(wire')
    BY <1>1, <2>1, LineRead DEF SessionInv
  <2>3. QED
    BY <2>1, <2>2 DEF SessionInv
<1>15. CASE StopIdle
  <2>1. /\ stage \in {"stop", "quit"} /\ wire # <<>> /\ wire' = Tail(wire) /\ UNCHANGED command
        /\ \/ Head(wire) # "completed" /\ UNCHANGED stage
           \/ Head(wire) = "completed" /\ stage' \in {"stopped", "select", "mutate"}
    BY <1>15 DEF StopIdle
  <2>2. /\ wire' \in Seq(Lines)
        /\ Open(wire) => Open(wire') /\ Head(wire) # "completed"
        /\ Answered(wire) /\ Head(wire) # "completed" => Answered(wire')
        /\ Answered(wire) /\ Head(wire) = "completed" => wire' = <<>>
    BY <1>1, <2>1, LineRead
  <2>3. QED
    BY <2>1, <2>2 DEF SessionInv
<1>16. CASE Retry
  <2>1. stage = "backoff" /\ stage' = "connect" /\ UNCHANGED <<wire, command>>
    BY <1>16 DEF Retry, server
  <2>2. QED
    BY <2>1 DEF SessionInv
<1>17. QED
  BY <1>4, <1>5, <1>7, <1>8, <1>9, <1>10, <1>12, <1>13, <1>14, <1>15, <1>16
  DEF IdleNext, Server, WorkerStep

\* Outside IDLE no line is left unread, which the next command would take for its own answer:
\* for any amount of mail and of lines without news, however often the connection fails, and
\* whatever ends an IDLE (stop_idle, which reads up to its tag).
THEOREM LinesAlwaysMatch == IdleSpec => []LinesMatch
<1>1. SessionInv => LinesMatch
  BY DEF SessionInv, LinesMatch
<1>2. QED
  BY <1>1, SessionInit, SessionStep, PTL DEF IdleSpec
=============================================================================
