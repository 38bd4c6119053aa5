------------------------------ MODULE MailWindow ------------------------------
(***************************************************************************)
(* The main window: what it shows, and the tasks that load it.              *)
(*                                                                          *)
(* A click changes the selection at once and starts a task that reads or    *)
(* writes the database; the task answers through a queue, and the window    *)
(* takes the answer for what is selected by then. Tasks run beside each     *)
(* other, and no answer says what was asked. The supervisor stores mail in  *)
(* the same database and tells of it through a ring of events, from which   *)
(* one task relays to the window. The window looks at its queues only when  *)
(* it is drawn, which news and input cause and answers do not.              *)
(***************************************************************************)
EXTENDS Naturals, FiniteSets, Sequences, SequencesExt

CONSTANTS
    Accounts, Folders, Messages,
    Owner,      \* account of a folder
    In,         \* folder of a message
    Inboxes,    \* folders with the role of the inbox
    Matching,   \* messages that a search finds
    None,
    Settings    \* what a behaviour may be: a set of records with
                \*   known    folders in the database when the window opens
                \*   uses     what the user does: "navigate", "search", "flags", "delete",
                \*            "refresh"
                \*   patient  whether the user waits for the answer to each click
                \*   inOrder  whether tasks end in the order of their start
                \*   faults   "db" (a task finds the database busy)
                \*   ring     events that the ring holds
    \*   clicks   how often the user clicks, and
    \*   mail     how many messages the supervisor stores (bounds of the model)

ASSUME MailWindowAssumption ==
    /\ Owner \in [Folders -> Accounts]
    /\ In \in [Messages -> Folders]
    /\ Inboxes \subseteq Folders
    /\ Matching \subseteq Messages
    /\ None \notin Accounts \cup Folders \cup Messages
    /\ IsFiniteSet(Folders)
    /\ \A s \in Settings :
         /\ s.known \subseteq Folders
         /\ s.uses \subseteq {"navigate", "search", "flags", "delete", "refresh"}
         /\ s.patient \in BOOLEAN /\ s.inOrder \in BOOLEAN
         /\ s.faults \subseteq {"db"}
         /\ s.ring \in Nat \ {0}
         /\ s.clicks \in Nat /\ s.mail \in Nat

VARIABLES
    setting,
    \* the database
    stored, known, flags,
    \* the window
    account, folder, folders, list, message, detail, searching, awake,
    \* its tasks and queues
    tasks, answers, news,
    \* the supervisor: events that the relay has still to take, whether there is a relay,
    \* accounts whose folders it reads
    ring, relay, refresh,
    \* bounds, and histories: folders whose synchronization was asked for, with the
    \* account it was asked of; the flags the user wants; whether the ring was overrun
    clicks, mail, asked, wish, overrun

db == <<stored, known, flags>>
shown == <<account, folder, folders, list, message, detail, searching>>
supervisor == <<ring, relay, refresh, mail, overrun>>
histories == <<clicks, asked, wish>>
vars == <<setting, db, shown, awake, tasks, answers, news, supervisor, histories>>

Flags == SUBSET {"seen", "flagged"}
Entries == [id : Messages, flags : Flags]
Events == {"new", "updated"} \X Folders

\* data is what a task has read: a set of accounts, folders or entries.
Task(kind, of) == [kind |-> kind, of |-> of, flags |-> {}, data |-> {}, read |-> FALSE]

Kinds == {"accounts", "folders", "list", "search", "detail", "flags", "delete"}
IsTask(t) ==
    /\ t.kind \in Kinds
    /\ t.of \in Accounts \cup Folders \cup Messages \cup {None}
    /\ t.flags \in Flags
    /\ t.data \subseteq Accounts \/ t.data \subseteq Folders \/ t.data \subseteq Entries
    /\ t.read \in BOOLEAN

TypeOK ==
    /\ setting \in Settings
    /\ stored \subseteq Messages /\ known \subseteq Folders
    /\ flags \in [Messages -> Flags]
    /\ account \in Accounts \cup {None} /\ folder \in Folders \cup {None}
    /\ folders \subseteq Folders
    /\ list \subseteq Entries /\ detail \subseteq Entries
    /\ \A e, d \in list : e.id = d.id => e = d
    /\ \A e, d \in detail : e = d
    /\ message \in Messages \cup {None}
    /\ searching \in BOOLEAN /\ awake \in BOOLEAN
    /\ \A i \in DOMAIN tasks : IsTask(tasks[i])
    /\ \A i \in DOMAIN answers : IsTask(answers[i]) /\ answers[i].read
    /\ news \in Seq(Events) /\ ring \in Seq(Events)
    /\ relay \in BOOLEAN /\ overrun \in BOOLEAN
    /\ refresh \subseteq Accounts
    /\ clicks \in 0..setting.clicks /\ mail \in 0..setting.mail
    /\ asked \subseteq Accounts \X Folders
    /\ wish \in [Messages -> Flags]

\* The window has started to load the accounts.
Init ==
    /\ setting \in Settings
    /\ stored = {} /\ known = setting.known
    /\ flags = [m \in Messages |-> {}]
    /\ account = None /\ folder = None /\ folders = {}
    /\ list = {} /\ message = None /\ detail = {}
    /\ searching = FALSE /\ awake = TRUE
    /\ tasks = <<Task("accounts", None)>> /\ answers = <<>> /\ news = <<>>
    /\ ring = <<>> /\ relay = TRUE /\ refresh = {}
    /\ clicks = 0 /\ mail = 0 /\ asked = {} /\ overrun = FALSE
    /\ wish = [m \in Messages |-> {}]

Start(t) == tasks' = Append(tasks, t)
Entry(m) == [id |-> m, flags |-> flags[m]]
Ids(entries) == {e.id : e \in entries}
FoldersOf(a) == {f \in known : Owner[f] = a}
MailIn(f) == {m \in stored : In[m] = f}

-----------------------------------------------------------------------------
(***************************************************************************)
(* Tasks.                                                                   *)
(***************************************************************************)

MayRun(i) == i \in DOMAIN tasks /\ (setting.inOrder => i = 1)

Result(t) ==
    CASE t.kind = "accounts" -> Accounts
      [] t.kind = "folders"  -> FoldersOf(t.of)
      [] t.kind = "list"     -> {Entry(m) : m \in MailIn(t.of)}
      [] t.kind = "search"   -> {Entry(m) : m \in {n \in stored \cap Matching : Owner[In[n]] = t.of}}
      [] t.kind = "detail"   -> {Entry(m) : m \in stored \cap {t.of}}
      [] OTHER               -> {}

\* The task reads, or it writes a row that it may not find any more.
Access(i) ==
    /\ MayRun(i)
    /\ ~tasks[i].read
    /\ LET t == tasks[i] IN
         /\ tasks' = [tasks EXCEPT ![i].read = TRUE, ![i].data = Result(t)]
         /\ stored' = IF t.kind = "delete" THEN stored \ {t.of} ELSE stored
         /\ flags' = IF t.kind = "flags" /\ t.of \in stored
                       THEN [flags EXCEPT ![t.of] = t.flags] ELSE flags
    /\ UNCHANGED <<setting, known, shown, awake, answers, news, supervisor, histories>>


\* Nothing asks for the window to be drawn.
Answer(i) ==
    /\ MayRun(i)
    /\ tasks[i].read
    /\ answers' = Append(answers, tasks[i])
    /\ tasks' = RemoveAt(tasks, i)
    /\ UNCHANGED <<setting, db, shown, awake, news, supervisor, histories>>

\* The error is shown in the status line.
TaskFails(i) ==
    /\ "db" \in setting.faults
    /\ MayRun(i)
    /\ ~tasks[i].read
    /\ tasks' = RemoveAt(tasks, i)
    /\ UNCHANGED <<setting, db, shown, awake, answers, news, supervisor, histories>>

-----------------------------------------------------------------------------
(***************************************************************************)
(* The window is drawn: it takes news and answers from its queues.          *)
(***************************************************************************)

Take(kind) ==
    /\ awake
    /\ answers # <<>>
    /\ Head(answers).kind = kind
    /\ answers' = Tail(answers)
    /\ UNCHANGED <<setting, db, awake, news, supervisor, histories>>

AccountsLoaded ==
    /\ Take("accounts")
    /\ LET loaded == Head(answers).data IN
         \/ /\ account \notin loaded
            /\ \E first \in loaded : account' = first /\ Start(Task("folders", first))
         \/ (loaded = {} \/ account \in loaded) /\ UNCHANGED <<account, tasks>>
    /\ UNCHANGED <<folder, folders, list, message, detail, searching>>

\* Whatever account they are of. The inbox, or else the first, is selected unless the
\* selected folder is among them.
FoldersLoaded ==
    /\ Take("folders")
    /\ folders' = Head(answers).data
    /\ LET candidates == IF folders' \cap Inboxes # {} THEN folders' \cap Inboxes ELSE folders' IN
         \/ /\ folder \notin folders'
            /\ \E f \in candidates : folder' = f /\ Start(Task("list", f))
         \/ (folders' = {} \/ folder \in folders') /\ UNCHANGED <<folder, tasks>>
    /\ UNCHANGED <<account, list, message, detail, searching>>

\* Of a folder or of a search, whatever is selected.
MessagesLoaded ==
    /\ Take("list") \/ Take("search")
    /\ list' = Head(answers).data
    /\ UNCHANGED <<account, folder, folders, message, detail, searching, tasks>>

DetailLoaded ==
    /\ Take("detail")
    /\ detail' = Head(answers).data
    /\ UNCHANGED <<account, folder, folders, list, message, searching, tasks>>

WithFlags(entries, m, fl) == {IF e.id = m THEN [e EXCEPT !.flags = fl] ELSE e : e \in entries}

\* Broken variant, not part of Next: only the open message is updated.
FlagsUpdatedInDetail ==
    /\ Take("flags")
    /\ detail' = WithFlags(detail, Head(answers).of, Head(answers).flags)
    /\ UNCHANGED <<list, account, folder, folders, message, searching, tasks>>

FlagsUpdated ==
    /\ Take("flags")
    /\ list' = WithFlags(list, Head(answers).of, Head(answers).flags)
    /\ detail' = WithFlags(detail, Head(answers).of, Head(answers).flags)
    /\ UNCHANGED <<account, folder, folders, message, searching, tasks>>

MessageDeleted ==
    /\ Take("delete")
    /\ LET m == Head(answers).of IN
         /\ list' = {e \in list : e.id # m}
         /\ message' = IF message = m THEN None ELSE message
         /\ detail' = IF message = m THEN {} ELSE detail
    /\ UNCHANGED <<account, folder, folders, searching, tasks>>

TakeNews(kind, f) ==
    /\ awake
    /\ news # <<>>
    /\ Head(news) = <<kind, f>>
    /\ news' = Tail(news)
    /\ UNCHANGED <<setting, db, shown, awake, answers, supervisor, histories>>


NewMessages(f) ==
    /\ TakeNews("new", f)
    /\ IF account = Owner[f] /\ folder = f /\ ~searching
         THEN Start(Task("list", f))
         ELSE UNCHANGED tasks

\* The counts beside the folder's name, if it is shown.
FolderUpdated(f) ==
    /\ TakeNews("updated", f)
    /\ UNCHANGED tasks

\* The window has been drawn, and waits.
Drawn ==
    /\ awake
    /\ news = <<>>
    /\ answers = <<>>
    /\ awake' = FALSE
    /\ UNCHANGED <<setting, db, shown, tasks, answers, news, supervisor, histories>>

\* The user moves the pointer over the window.
Touch ==
    /\ ~awake
    /\ answers # <<>>
    /\ awake' = TRUE
    /\ UNCHANGED <<setting, db, shown, tasks, answers, news, supervisor, histories>>

-----------------------------------------------------------------------------
(***************************************************************************)
(* The user clicks.                                                         *)
(***************************************************************************)

Click(use) ==
    /\ use \in setting.uses
    /\ clicks < setting.clicks
    /\ clicks' = clicks + 1
    /\ setting.patient => tasks = <<>> /\ answers = <<>>
    /\ awake' = TRUE
    /\ UNCHANGED <<setting, db, answers, news, ring, relay, mail, overrun>>

\* Broken variant, not part of Next: the folders stay those of the other account.
SelectAccountOnly(a) ==
    /\ Click("navigate")
    /\ account # None
    /\ account' = a /\ folder' = None /\ list' = {} /\ message' = None /\ detail' = {}
    /\ UNCHANGED <<folders, searching, refresh, asked, wish, tasks>>

\* Broken variant, not part of Next: the open message stays.
SelectAccountOnTop(a) ==
    /\ Click("navigate")
    /\ account # None
    /\ account' = a /\ folder' = None /\ list' = {} /\ message' = None
    /\ Start(Task("folders", a))
    /\ UNCHANGED <<folders, detail, searching, refresh, asked, wish>>

\* The folders shown stay until those of the account have been loaded.
SelectAccount(a) ==
    /\ Click("navigate")
    /\ account # None
    /\ account' = a /\ folder' = None /\ list' = {} /\ message' = None /\ detail' = {}
    /\ Start(Task("folders", a))
    /\ UNCHANGED <<folders, searching, refresh, asked, wish>>

\* The list stays until that of the folder has been loaded, and a search goes on.
SelectFolder(f) ==
    /\ Click("navigate")
    /\ f \in folders
    /\ folder' = f /\ message' = None /\ detail' = {}
    /\ Start(Task("list", f))
    /\ UNCHANGED <<account, folders, list, searching, refresh, asked, wish>>

SelectMessage(e) ==
    /\ Click("navigate")
    /\ e \in list
    /\ message' = e.id
    /\ Start(Task("detail", e.id))
    /\ UNCHANGED <<account, folder, folders, list, detail, searching, refresh, asked, wish>>

\* The button is there while the selected folder is shown.
SyncFolder ==
    /\ Click("navigate")
    /\ account # None
    /\ folder \in folders
    /\ asked' = asked \cup {<<account, folder>>}
    /\ UNCHANGED <<shown, tasks, refresh, wish>>

SyncAllFolders ==
    /\ Click("refresh")
    /\ account # None
    /\ refresh' = refresh \cup {account}
    /\ UNCHANGED <<shown, tasks, asked, wish>>

Search ==
    /\ Click("search")
    /\ searching' = TRUE
    /\ IF account # None THEN Start(Task("search", account)) ELSE UNCHANGED tasks
    /\ UNCHANGED <<account, folder, folders, list, message, detail, refresh, asked, wish>>

ClearSearch ==
    /\ Click("search")
    /\ searching
    /\ searching' = FALSE
    /\ IF folder # None THEN Start(Task("list", folder)) ELSE UNCHANGED tasks
    /\ UNCHANGED <<account, folder, folders, list, message, detail, refresh, asked, wish>>

\* Broken variant, not part of Next: the other flags are cleared.
ToggleAlone(e, flag) ==
    /\ Click("flags")
    /\ e \in list \cup detail
    /\ LET wanted(fl) == IF flag \in e.flags THEN fl \ {flag} ELSE fl \cup {flag}
       IN /\ Start([Task("flags", e.id) EXCEPT !.flags = wanted({})])
          /\ wish' = [wish EXCEPT ![e.id] = wanted(@)]
    /\ UNCHANGED <<shown, refresh, asked>>

\* A flag of a message in the list or of the open one. The other flags are those in the
\* list, or none if the message is not there.
Toggle(e, flag) ==
    /\ Click("flags")
    /\ e \in list \cup detail
    /\ LET others == (UNION {d.flags : d \in {l \in list : l.id = e.id}}) \ {flag}
           wanted(fl) == IF flag \in e.flags THEN fl \ {flag} ELSE fl \cup {flag}
       IN /\ Start([Task("flags", e.id) EXCEPT !.flags = wanted(others)])
          /\ wish' = [wish EXCEPT ![e.id] = wanted(@)]
    /\ UNCHANGED <<shown, refresh, asked>>

Delete(e) ==
    /\ Click("delete")
    /\ e \in list \cup detail
    /\ Start(Task("delete", e.id))
    /\ UNCHANGED <<shown, refresh, asked, wish>>

-----------------------------------------------------------------------------
(***************************************************************************)
(* The supervisor.                                                          *)
(***************************************************************************)

\* Nobody is told once the relay has ended.
Broadcast(events) ==
    /\ ring' = IF relay THEN ring \o events ELSE <<>>
    /\ overrun' = (overrun \/ Len(ring') > setting.ring)

\* A synchronization stores a message, perhaps one that was deleted here, and then tells.
Store(m) ==
    /\ m \notin stored
    /\ In[m] \in known
    /\ mail < setting.mail
    /\ mail' = mail + 1
    /\ stored' = stored \cup {m}
    /\ flags' = [flags EXCEPT ![m] = {}]
    /\ wish' = [wish EXCEPT ![m] = {}]
    /\ Broadcast(<< <<"new", In[m]>>, <<"updated", In[m]>> >>)
    /\ UNCHANGED <<setting, known, shown, awake, tasks, answers, news, relay, refresh, clicks, asked>>

FindFolders(a) ==
    /\ a \in refresh
    /\ refresh' = refresh \ {a}
    /\ LET all == {f \in Folders : Owner[f] = a} IN
         known' = known \cup all /\ Broadcast(SetToSeq({<<"updated", f>> : f \in all}))
    /\ UNCHANGED <<setting, stored, flags, shown, awake, tasks, answers, news, relay, mail, histories>>

\* Broken variant: a full ring counts as overrun.
FullIsOverrun == Len(ring) >= setting.ring
Overrun == Len(ring) > setting.ring

\* News has the window drawn. A relay that finds that events were overwritten ends, and
\* nothing starts another.
Relay ==
    /\ relay
    /\ ring # <<>>
    /\ relay' = ~Overrun
    /\ IF Overrun
         THEN ring' = <<>> /\ UNCHANGED <<news, awake>>
         ELSE ring' = Tail(ring) /\ news' = Append(news, Head(ring)) /\ awake' = TRUE
    /\ UNCHANGED <<setting, db, shown, tasks, answers, refresh, mail, overrun, histories>>

-----------------------------------------------------------------------------
Work == \E i \in DOMAIN tasks : Access(i) \/ Answer(i)

Draw ==
    \/ AccountsLoaded \/ FoldersLoaded \/ MessagesLoaded \/ DetailLoaded
    \/ FlagsUpdated \/ MessageDeleted
    \/ \E f \in Folders : NewMessages(f) \/ FolderUpdated(f)

User ==
    \/ \E a \in Accounts : SelectAccount(a)
    \/ \E f \in Folders : SelectFolder(f)
    \/ \E e \in Entries : SelectMessage(e) \/ Delete(e)
    \/ \E e \in Entries, flag \in {"seen", "flagged"} : Toggle(e, flag)
    \/ SyncFolder \/ SyncAllFolders \/ Search \/ ClearSearch

Supervisor ==
    \/ \E a \in Accounts : FindFolders(a)
    \/ Relay

Next ==
    \/ Work
    \/ \E i \in DOMAIN tasks : TaskFails(i)
    \/ Draw \/ Drawn \/ Touch
    \/ User
    \/ Supervisor
    \/ \E m \in Messages : Store(m)

Spec == Init /\ [][Next]_vars

\* Tasks, the supervisor and a window that is to be drawn go on; somebody uses the window,
\* and the pointer moves over it again and again.
FairSpec ==
    /\ Spec
    /\ WF_vars(Work) /\ WF_vars(Draw) /\ WF_vars(Supervisor)
    /\ WF_vars(Touch)

-----------------------------------------------------------------------------
(***************************************************************************)
(* Properties.                                                              *)
(***************************************************************************)

Quiet == tasks = <<>> /\ answers = <<>> /\ news = <<>> /\ ring = <<>> /\ refresh = {}

\* Tasks end in the order of their start, and do what they are asked.
Orderly == setting.inOrder /\ setting.faults = {}

\* Once nothing is on its way the window shows what the database has. If tasks end in order:
\*   - the list shows no message that was deleted, whatever has failed meanwhile: a list
\*     read before the deletion does not bring it back;
\*   - if none fails, the list is that of the selected folder, flags included, and no late
\*     answer of another click, of a deletion or of news stays in it, however fast the
\*     user clicks, unless more events were sent at once than the ring holds;
\*   - if none fails, the folders are those of the selected account, unless the list of
\*     folders has been refreshed.
\* And if the user waits for each answer, in whatever order tasks end, the open message is
\* the selected one (handle_responses and handle_incoming_ipc).
WindowSettles ==
    Quiet =>
        /\ setting.inOrder => Ids(list) \subseteq stored
        /\ Orderly /\ ~searching /\ ~overrun /\ folder \in folders =>
             list = {Entry(m) : m \in MailIn(folder)}
        /\ Orderly /\ "refresh" \notin setting.uses /\ account # None =>
             folders = FoldersOf(account)
        /\ setting.patient /\ setting.faults = {} => Ids(detail) \subseteq {message}

\* If the user waits for each answer and no task fails: a folder is synchronized with its
\* own account, never filled from the mailbox of the same name of another one, in whatever
\* order tasks end (TopBarAction::SyncFolder).
SyncsOwnFolder ==
    setting.patient /\ setting.faults = {} =>
        \A pair \in asked : Owner[pair[2]] = pair[1]

\* If the user waits for each answer, does not search, and tasks end in order without
\* failing: once nothing is on its way, each flag of a message is as the user last set it;
\* setting one does not undo another (ToggleFlag and ToggleRead).
FlagsAsWished ==
    setting.patient /\ "search" \notin setting.uses /\ Orderly /\ Quiet =>
        \A m \in stored : flags[m] = wish[m]

\* If tasks end in order and none fails: mail that arrives in the folder that is open appears
\* in the list without a click, unless the folder is left, a search begins or the message is
\* deleted. A burst that fills the ring does not change that; once the relay has fallen
\* further behind, nothing is promised for ever (run_supervisor's relay, NewMessages).
NewMailShows ==
    \A m \in Messages :
        (Orderly /\ m \in stored /\ folder = In[m] /\ account = Owner[In[m]] /\ ~searching)
            ~> (m \in Ids(list) \/ m \notin stored \/ folder # In[m] \/ account # Owner[In[m]]
                  \/ searching \/ overrun)
=============================================================================
