----------------------------- MODULE FolderSync -----------------------------
(***************************************************************************)
(* The synchronization of one IMAP folder into the local database.          *)
(*                                                                          *)
(* Several tasks synchronize the same folder, each in an IMAP session of    *)
(* its own: the IDLE worker of the account, which keeps for its whole life  *)
(* the Folder value it was started with, and one task per SyncFolder        *)
(* request of the GUI, which reads the folder's row first.  Nothing excludes *)
(* two of them at a time, every SQL statement is autocommitted, and the     *)
(* server may assign new UIDs (and a new UIDVALIDITY) between sessions.     *)
(***************************************************************************)
EXTENDS Naturals, FiniteSets

CONSTANTS
    Mails,      \* the messages that may arrive in the folder
    NoMail,
    WithFiles,  \* those of them that have attachments
    MaxUid,     \* bound on the UIDs the server assigns in one epoch
    MaxEpoch,   \* bound on UIDVALIDITY
    Workers,    \* IDLE workers: their Folder value is as old as the worker
    Requests,   \* tasks that serve SyncFolder requests, with a fresh Folder value
    ListLimit,  \* rows one invalidation lists (10000 in engine.rs)
    MaxRestarts,
    Faults      \* what may go wrong: "network", "storage", "delete", "restart"

ASSUME FolderSyncAssumption ==
    /\ NoMail \notin Mails
    /\ WithFiles \subseteq Mails
    /\ MaxUid \in Nat
    /\ MaxEpoch \in Nat \ {0}
    /\ Workers \cap Requests = {}
    /\ ListLimit \in Nat
    /\ MaxRestarts \in Nat
    /\ Faults \subseteq {"network", "storage", "delete", "restart"}

Uids == 1..MaxUid
Tasks == Workers \cup Requests

\* A row has the columns an upsert never rewrites (head: subject, sender, date),
\* those it does (body, has_attachments), and its rows of the attachments table.
NoRow == [head |-> NoMail, body |-> NoMail, files |-> FALSE]
Rows == [head : Mails, body : Mails, files : BOOLEAN] \cup {NoRow}

Steps == {"idle", "select", "list", "delete", "max", "fetch", "lookup", "upsert",
          "attach", "save"}

\* What a task knows of the row it is about to write: none was found, one was
\* found, the one it inserted itself is there, the one it knew is gone.
Knowledge == {"none", "found", "own", "gone"}

VARIABLES
    epoch,      \* UIDVALIDITY of the server's mailbox
    box,        \* the message the server gave UID u in this epoch
    live,       \* UIDs not expunged
    rows,       \* rows of the messages table for this folder, by uid
    validity,   \* column uid_validity of the folder, 0 when NULL
    pc,         \* the statement or command task t is about to issue
    snap,       \* uid_validity in the Folder value of task t, 0 when None
    sel,        \* UIDVALIDITY the SELECT of task t returned
    some,       \* that SELECT reported EXISTS > 0
    doomed,     \* rows listed by task t and not yet deleted
    start,      \* start_uid of task t
    batch,      \* fetched messages task t has still to store
    row,        \* what task t knows of its row
    restarts,
    excused,    \* history: UIDs, with their epoch, of which an error was counted, that
                \* lost their task while being stored, that the user deleted, or that are
                \* below a row the user deleted which an invalidation had left
    undeleted   \* history: rows an invalidation has left: beyond its limit, or by an error

serverVars == <<epoch, box, live>>
tableVars  == <<rows, validity>>
localVars  == <<snap, sel, some, doomed, start, batch, row>>
vars       == <<epoch, box, live, rows, validity, pc, snap, sel, some, doomed, start,
                batch, row, restarts, excused, undeleted>>

TypeOK ==
    /\ epoch \in 1..MaxEpoch
    /\ box \in [Uids -> Mails \cup {NoMail}]
    /\ live \subseteq Uids
    /\ rows \in [Uids -> Rows]
    /\ validity \in 0..MaxEpoch
    /\ pc \in [Tasks -> Steps]
    /\ snap \in [Tasks -> 0..MaxEpoch]
    /\ sel \in [Tasks -> 0..MaxEpoch]
    /\ some \in [Tasks -> BOOLEAN]
    /\ doomed \in [Tasks -> SUBSET Uids]
    /\ start \in [Tasks -> 0..(MaxUid + 1)]
    /\ batch \in [Tasks -> [Uids -> Mails \cup {NoMail}]]
    /\ row \in [Tasks -> Knowledge]
    /\ restarts \in 0..MaxRestarts
    /\ excused \subseteq (1..MaxEpoch) \X Uids
    /\ undeleted \subseteq Uids

EmptyBox == [u \in Uids |-> NoMail]

\* The folder has just been inserted: uid_validity is NULL in its row and in the
\* Folder value sync_folders hands to the worker.
Init ==
    /\ epoch = 1
    /\ box = EmptyBox
    /\ live = {}
    /\ rows = [u \in Uids |-> NoRow]
    /\ validity = 0
    /\ pc = [t \in Tasks |-> "idle"]
    /\ snap = [t \in Tasks |-> 0]
    /\ sel = [t \in Tasks |-> 0]
    /\ some = [t \in Tasks |-> FALSE]
    /\ doomed = [t \in Tasks |-> {}]
    /\ start = [t \in Tasks |-> 0]
    /\ batch = [t \in Tasks |-> EmptyBox]
    /\ row = [t \in Tasks |-> "none"]
    /\ restarts = 0
    /\ excused = {}
    /\ undeleted = {}

Cached == {u \in Uids : rows[u] # NoRow}

\* MAX of a set of numbers, 0 when there is none.
Top(S) == IF S = {} THEN 0 ELSE CHOOSE u \in S : \A v \in S : v <= u

-----------------------------------------------------------------------------
(***************************************************************************)
(* The server and the user.                                                 *)
(***************************************************************************)
Given == {u \in Uids : box[u] # NoMail}

Arrive(m) ==
    /\ Top(Given) < MaxUid
    /\ \A u \in Given : box[u] # m
    /\ box' = [box EXCEPT ![Top(Given) + 1] = m]
    /\ live' = live \cup {Top(Given) + 1}
    /\ UNCHANGED <<epoch, tableVars, pc, localVars, restarts, excused, undeleted>>

Expunge(u) ==
    /\ u \in live
    /\ live' = live \ {u}
    /\ UNCHANGED <<epoch, box, tableVars, pc, localVars, restarts, excused, undeleted>>

\* The mailbox is rebuilt: its messages get new UIDs, in any order.
Renumber ==
    /\ epoch < MaxEpoch
    /\ epoch' = epoch + 1
    /\ live' = 1..Cardinality(live)
    /\ \E order \in [live' -> live] :
        /\ \A u, v \in live' : order[u] = order[v] => u = v
        /\ box' = [u \in Uids |-> IF u \in live' THEN box[order[u]] ELSE NoMail]
    /\ UNCHANGED <<tableVars, pc, localVars, restarts, excused, undeleted>>


\* The messages task t has still to store, and the one it is at: replies to a
\* FETCH come in the order of UIDs and are stored in the order they came.
Pending(t) == {u \in Uids : batch[t][u] # NoMail}
At(t) == CHOOSE u \in Pending(t) : \A v \in Pending(t) : u <= v

Storing(t, u) == pc[t] \in {"upsert", "attach"} /\ u = At(t)

\* Row u goes away: nobody has it listed any more, and a task that found or
\* inserted it holds an id that does not exist.
Remove(u) ==
    /\ rows' = [rows EXCEPT ![u] = NoRow]
    /\ doomed' = [t \in Tasks |-> doomed[t] \ {u}]
    /\ row' = [t \in Tasks |->
                IF Storing(t, u) /\ row[t] \in {"found", "own"} THEN "gone" ELSE row[t]]
    /\ undeleted' = undeleted \ {u}

\* The delete button of the GUI: the local row and nothing else.  Of a row that an
\* invalidation left, it also is the end of what made syncs begin above it.
DeleteLocally(u) ==
    /\ u \in Cached
    /\ Remove(u)
    /\ excused' = excused \cup {<<epoch, v>> : v \in IF u \in undeleted THEN 1..u ELSE {u}}
    /\ UNCHANGED <<serverVars, validity, pc, snap, sel, some, start, batch, restarts>>

-----------------------------------------------------------------------------
(***************************************************************************)
(* SyncEngine::sync_folder, run by task t.                                  *)
(***************************************************************************)
GoTo(t, where) == pc' = [pc EXCEPT ![t] = where]

\* sync_folder returns.  A worker keeps its Folder value, a request's is dropped.
Return(t) ==
    /\ GoTo(t, "idle")
    /\ snap' = [snap EXCEPT ![t] = IF t \in Workers THEN @ ELSE 0]
    /\ sel' = [sel EXCEPT ![t] = 0]
    /\ some' = [some EXCEPT ![t] = FALSE]
    /\ doomed' = [doomed EXCEPT ![t] = {}]
    /\ start' = [start EXCEPT ![t] = 0]
    /\ batch' = [batch EXCEPT ![t] = EmptyBox]
    /\ row' = [row EXCEPT ![t] = "none"]

\* With start_uid known: a mailbox with messages is fetched.
From(t, u) ==
    /\ start' = [start EXCEPT ![t] = u]
    /\ GoTo(t, IF some[t] THEN "fetch" ELSE "save")
    /\ UNCHANGED <<serverVars, tableVars, snap, sel, some, doomed, batch, row, restarts, excused, undeleted>>

\* The loop goes on with the next message, whatever became of this one.
NextFetch(t) ==
    /\ batch' = [batch EXCEPT ![t][At(t)] = NoMail]
    /\ row' = [row EXCEPT ![t] = "none"]
    /\ GoTo(t, IF Pending(t) = {At(t)} THEN "save" ELSE "lookup")

-----------------------------------------------------------------------------
(***************************************************************************)
(* Broken variants of the actions below, not part of Next: mistakes that    *)
(* are easily made in sync_folder, to show that a property notices them.    *)
(***************************************************************************)

\* UIDVALIDITY is not looked at.
SelectUnchecked(t) ==
    /\ pc[t] = "select"
    /\ sel' = [sel EXCEPT ![t] = epoch]
    /\ some' = [some EXCEPT ![t] = live # {}]
    /\ GoTo(t, "max")
    /\ UNCHANGED <<serverVars, tableVars, snap, doomed, start, batch, row, restarts, excused, undeleted>>

\* 1 is added to the highest UID twice.
FindStartTooHigh(t) ==
    /\ pc[t] = "max"
    /\ From(t, Top(Cached) + 2)

\* uid <= start_uid is skipped instead of uid < start_uid.
FetchAbove(t) ==
    /\ pc[t] = "fetch"
    /\ epoch = sel[t]
    /\ batch' = [batch EXCEPT ![t] =
                    [u \in Uids |-> IF u \in live /\ u > start[t] THEN box[u] ELSE NoMail]]
    /\ GoTo(t, IF \E u \in live : u > start[t] THEN "lookup" ELSE "save")
    /\ UNCHANGED <<serverVars, tableVars, snap, sel, some, doomed, start, row, restarts, excused, undeleted>>

\* Attachments are added only to a row that was there.
InsertRowAlone(t) ==
    /\ pc[t] = "upsert"
    /\ row[t] \in {"none", "gone"}
    /\ rows[At(t)] = NoRow
    /\ rows' = [rows EXCEPT ![At(t)] =
                    [head |-> batch[t][At(t)], body |-> batch[t][At(t)], files |-> FALSE]]
    /\ NextFetch(t)
    /\ UNCHANGED <<serverVars, validity, snap, sel, some, doomed, start, restarts, excused, undeleted>>

-----------------------------------------------------------------------------
(***************************************************************************)
(* The statements and commands of sync_folder.                              *)
(***************************************************************************)

\* The worker connects or is pushed; a request reads the folder's row.
StartSync(t) ==
    /\ pc[t] = "idle"
    /\ snap' = [snap EXCEPT ![t] = IF t \in Workers THEN @ ELSE validity]
    /\ GoTo(t, "select")
    /\ UNCHANGED <<serverVars, tableVars, sel, some, doomed, start, batch, row, restarts, excused, undeleted>>

\* SELECT, and the comparison of UIDVALIDITY with the Folder value: both known
\* and different means that the cache is invalidated.
Select(t) ==
    /\ pc[t] = "select"
    /\ sel' = [sel EXCEPT ![t] = epoch]
    /\ some' = [some EXCEPT ![t] = live # {}]
    /\ GoTo(t, IF snap[t] \notin {0, epoch} THEN "list" ELSE "max")
    /\ UNCHANGED <<serverVars, tableVars, snap, doomed, start, batch, row, restarts, excused, undeleted>>

\* list_messages_summary with its limit; what the limit leaves out depends on dates.
ListRows(t) ==
    /\ pc[t] = "list"
    /\ \E S \in SUBSET Cached :
        /\ S = Cached \/ Cardinality(S) = ListLimit
        /\ Cardinality(S) <= ListLimit
        /\ doomed' = [doomed EXCEPT ![t] = S]
        /\ undeleted' = undeleted \cup (Cached \ S)
    /\ GoTo(t, "delete")
    /\ UNCHANGED <<serverVars, tableVars, snap, sel, some, start, batch, row, restarts, excused>>

DeleteRow(t) ==
    /\ pc[t] = "delete"
    /\ \E u \in doomed[t] : Remove(u)
    /\ UNCHANGED <<serverVars, validity, pc, snap, sel, some, start, batch, restarts, excused>>

\* The error of a delete is ignored.
DeleteRowFails(t) ==
    /\ "delete" \in Faults
    /\ pc[t] = "delete"
    /\ \E u \in doomed[t] :
        /\ doomed' = [doomed EXCEPT ![t] = @ \ {u}]
        /\ undeleted' = undeleted \cup {u}
    /\ UNCHANGED <<serverVars, tableVars, pc, snap, sel, some, start, batch, row, restarts, excused>>

Invalidated(t) ==
    /\ pc[t] = "delete"
    /\ doomed[t] = {}
    /\ From(t, 1)

\* get_max_uid_for_folder.
FindStart(t) ==
    /\ pc[t] = "max"
    /\ From(t, Top(Cached) + 1)

\* UID FETCH start:*.  A range past the end also returns the last message, which
\* is skipped.  A session does not outlive the UIDVALIDITY it selected.
Fetch(t) ==
    /\ pc[t] = "fetch"
    /\ epoch = sel[t]
    /\ batch' = [batch EXCEPT ![t] =
                    [u \in Uids |-> IF u \in live /\ u >= start[t] THEN box[u] ELSE NoMail]]
    /\ GoTo(t, IF \E u \in live : u >= start[t] THEN "lookup" ELSE "save")
    /\ UNCHANGED <<serverVars, tableVars, snap, sel, some, doomed, start, row, restarts, excused, undeleted>>

\* An error that sync_folder propagates: a command, or a statement outside the loop.
SyncFails(t) ==
    /\ \/ "network" \in Faults /\ pc[t] \in {"select", "fetch"}
       \/ pc[t] = "fetch" /\ epoch # sel[t]
       \/ "storage" \in Faults /\ pc[t] \in {"list", "max", "save"}
    /\ Return(t)
    /\ UNCHANGED <<serverVars, tableVars, restarts, excused, undeleted>>

\* An error in the loop is only counted, in stats.errors.
StoreFails(t) ==
    /\ NextFetch(t)
    /\ excused' = excused \cup {<<sel[t], At(t)>>}
    /\ UNCHANGED <<serverVars, tableVars, snap, sel, some, doomed, start, restarts, undeleted>>

\* parse_email_message, then the SELECT of insert_or_update_message.
Lookup(t) ==
    /\ pc[t] = "lookup"
    /\ row' = [row EXCEPT ![t] = IF rows[At(t)] = NoRow THEN "none" ELSE "found"]
    /\ GoTo(t, "upsert")
    /\ UNCHANGED <<serverVars, tableVars, snap, sel, some, doomed, start, batch, restarts, excused, undeleted>>

StoreError(t) ==
    /\ "storage" \in Faults
    /\ pc[t] \in {"lookup", "upsert", "attach"}
    /\ StoreFails(t)

\* INSERT ... ON CONFLICT(id) DO UPDATE: the row found is updated in part.
UpdateRow(t) ==
    /\ pc[t] = "upsert"
    /\ row[t] = "found"
    /\ rows' = [rows EXCEPT ![At(t)].body = batch[t][At(t)]]
    /\ IF batch[t][At(t)] \in WithFiles
       THEN GoTo(t, "attach") /\ UNCHANGED <<batch, row>>
       ELSE NextFetch(t)
    /\ UNCHANGED <<serverVars, validity, snap, sel, some, doomed, start, restarts, excused, undeleted>>

\* No row was found, or it is gone: a row is inserted, in the latter case with the
\* id found, which is not the id the attachments refer to.
InsertRow(t) ==
    /\ pc[t] = "upsert"
    /\ row[t] \in {"none", "gone"}
    /\ rows[At(t)] = NoRow
    /\ rows' = [rows EXCEPT ![At(t)] =
                    [head |-> batch[t][At(t)], body |-> batch[t][At(t)], files |-> FALSE]]
    /\ IF batch[t][At(t)] \in WithFiles
       THEN /\ GoTo(t, "attach")
            /\ row' = [row EXCEPT ![t] = IF @ = "none" THEN "own" ELSE "found"]
            /\ UNCHANGED batch
       ELSE NextFetch(t)
    /\ UNCHANGED <<serverVars, validity, snap, sel, some, doomed, start, restarts, excused, undeleted>>

\* Another task inserted the row since the lookup: UNIQUE(folder_id, uid).
InsertClashes(t) ==
    /\ pc[t] = "upsert"
    /\ row[t] \in {"none", "gone"}
    /\ rows[At(t)] # NoRow
    /\ StoreFails(t)

\* add_attachment refers to the id of the parsed message, which is the id of the
\* row only if this task inserted it.
Attach(t) ==
    /\ pc[t] = "attach"
    /\ row[t] = "own"
    /\ rows' = [rows EXCEPT ![At(t)].files = TRUE]
    /\ NextFetch(t)
    /\ UNCHANGED <<serverVars, validity, snap, sel, some, doomed, start, restarts, excused, undeleted>>

AttachClashes(t) ==
    /\ pc[t] = "attach"
    /\ row[t] # "own"
    /\ StoreFails(t)

\* update_folder_uid_state (the counts that follow are for display only).
SaveState(t) ==
    /\ pc[t] = "save"
    /\ validity' = sel[t]
    /\ Return(t)
    /\ UNCHANGED <<serverVars, rows, restarts, excused, undeleted>>

\* The supervisor ends and starts again; the new worker gets the folder's row.
Restart ==
    /\ "restart" \in Faults
    /\ restarts < MaxRestarts
    /\ restarts' = restarts + 1
    /\ pc' = [t \in Tasks |-> "idle"]
    /\ snap' = [t \in Tasks |-> IF t \in Workers THEN validity ELSE 0]
    /\ sel' = [t \in Tasks |-> 0]
    /\ some' = [t \in Tasks |-> FALSE]
    /\ doomed' = [t \in Tasks |-> {}]
    /\ start' = [t \in Tasks |-> 0]
    /\ batch' = [t \in Tasks |-> EmptyBox]
    /\ row' = [t \in Tasks |-> "none"]
    /\ excused' = excused \cup {<<sel[t], At(t)>> : t \in {r \in Tasks : pc[r] = "attach"}}
    /\ UNCHANGED <<serverVars, tableVars, undeleted>>

-----------------------------------------------------------------------------
Server ==
    \/ \E m \in Mails : Arrive(m)
    \/ \E u \in Uids : Expunge(u)
    \/ Renumber

SyncStep(t) ==
    \/ Select(t) \/ ListRows(t) \/ DeleteRow(t) \/ DeleteRowFails(t) \/ Invalidated(t)
    \/ FindStart(t) \/ Fetch(t) \/ SyncFails(t)
    \/ Lookup(t) \/ StoreError(t) \/ UpdateRow(t) \/ InsertRow(t) \/ InsertClashes(t)
    \/ Attach(t) \/ AttachClashes(t) \/ SaveState(t)

Next ==
    \/ Server
    \/ \E u \in Uids : DeleteLocally(u)
    \/ \E t \in Tasks : StartSync(t) \/ SyncStep(t)
    \/ Restart

Spec == Init /\ [][Next]_vars

\* Tasks are scheduled by tokio, and a folder is synchronized again and again: on
\* every push to the worker, and whenever the user opens it.
FairSpec ==
    /\ Spec
    /\ \A t \in Tasks : WF_vars(StartSync(t)) /\ WF_vars(SyncStep(t))

-----------------------------------------------------------------------------
\* A row is one message: its subject and sender are those of the message whose body it
\* shows, although an upsert rewrites only the second half of the columns; a row that an
\* invalidation did not get rid of is the exception.
OneMailPerRow == \A u \in Cached \ undeleted : rows[u].head = rows[u].body

\* A cache marked with the UIDVALIDITY of the server's mailbox shows, under each UID, the
\* message that has this UID there, except in rows an invalidation has left.
CacheMatchesServer ==
    validity = epoch =>
        \A u \in Cached \ undeleted : rows[u].head = box[u] /\ rows[u].body = box[u]

\* A sync starts above the highest UID it knows, so a message skipped below it is never
\* fetched again: none is, unless an error was counted for it, the user deleted it, or the
\* highest UID is that of a row an invalidation has left.
NoSilentGap ==
    validity = epoch =>
        \A u \in live \ Cached : u < Top(Cached) =>
            <<epoch, u>> \in excused \/ \E v \in undeleted : u < v

\* A message with attachments has them in the cache, except while a task is about to add
\* them or after an error or a restart that came between.
FilesAreComplete ==
    \A u \in Cached :
        rows[u].body \in WithFiles /\ ~ rows[u].files =>
            \/ \E e \in 1..MaxEpoch : <<e, u>> \in excused
            \/ \E t \in Tasks : pc[t] = "attach" /\ u = At(t)

\* A message that stays in the mailbox gets into the cache, unless an error is counted for
\* it, the user deletes it, or a row an invalidation has left stands at its UID or above.
CatchesUp ==
    \A u \in Uids :
        <>[](u \in live) =>
            []<>(\/ rows[u].head = box[u]
                 \/ <<epoch, u>> \in excused
                 \/ \E v \in undeleted : u <= v)
=============================================================================
