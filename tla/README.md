# edvige: verification

edvige is a mail client written in Rust: a **supervisor** process that lives in
the tray, keeps one background worker per account and sends queued mail, and a
**window** process that reads the same SQLite database and asks the supervisor
for work over a Unix socket. This directory holds TLA+ models of its core logic,
the TLC configurations that model-check them on small instances, and theorems
about them with proofs that TLAPS checks.

1. [The system](#1-the-system)
2. [Modules](#2-modules)
3. [How the code is modelled](#3-how-the-code-is-modelled)
4. [What the runs show](#4-what-the-runs-show)
5. [Fairness](#5-fairness)
6. [What is proved](#6-what-is-proved)
7. [What the code does not promise](#7-what-the-code-does-not-promise)
8. [What is not modelled](#8-what-is-not-modelled)
9. [Plan](#9-plan)

To repeat everything, in this directory:

    tlc -workers 2 -config outbox_serial.cfg MCOutboxSerial.tla     # and the other runs
    tlapm OutboxProofs.tla                                          # and the other *Proofs

`PROJECT.json` lists the runs with their modules, the source lines each
definition stands for (`map`), the broken variants that show each property to be
sensitive (`mutants`), and the places where this code can go wrong in ways a
unit test hardly reaches (`hazards`).

## 1. The system

Paths are relative to `src/crates/`.

| Component | State | Operations | Talks to |
|---|---|---|---|
| Outbox pipeline (`edvige-gui/src/app.rs`, `edvige-smtp/src/dispatcher.rs`, `edvige-storage/src/db/outbox.rs`) | table `outbox_messages` (status, retry_count), snapshot and connection of each dispatch | save, request a dispatch, peek, mark sending / sent / failed | window → socket → supervisor → SMTP session → table |
| SMTP session and text (`edvige-smtp/src/client.rs`, `builder.rs`) | exchange, TLS, transaction of the server | connect, log in, build the text, send, quit | dispatcher, mail server |
| IMAP connection (`edvige-imap/src/connection.rs`, `client.rs`, `protocol/`) | tag, lines and literals still to read, what a reply has brought so far | write a command, read up to its answer, parse a line, list, select, fetch, store | IMAP server, folder synchronization, account workers |
| Folder synchronization (`edvige-imap/src/sync/engine.rs`, `edvige-storage/src/db/messages.rs`) | tables `messages`, `attachments`, column `uid_validity`, what each task has listed and fetched | select, invalidate, fetch above the highest UID, upsert, attach, save | IMAP server, database, blobs |
| IDLE worker (`edvige-imap/src/sync/idle.rs`) | session, selected mailbox, unread lines, retry delay, shutdown channel | synchronize, carry out changes, IDLE, leave it, reconnect | IMAP server, folder synchronization, mutation queue |
| Mutation queue (`edvige-storage/src/db/mutations.rs`, `process_mutations` in `engine.rs`) | table `mutations` (status, retry_count), message on the server | enqueue, mark in flight, STORE / MOVE / COPY, complete, fail | IDLE worker, IMAP server |
| Account workers (`edvige-gui/src/engine/coordinator.rs`, `main.rs`) | map of workers, tables `accounts` and `folders` | start, add an account, synchronize the list of folders, shut down | windows, IDLE workers |
| Single instance lock (`edvige-gui/src/ipc.rs`) | socket path, listeners | connect, unlink, bind, accept | starts of the program |
| Supervisor windows (`edvige-gui/src/main.rs`, `ipc.rs`) | slot of the connected window, child of record | surface or spawn, greet, quit | tray, command line, notifications, window processes |
| Blob store (`edvige-storage/src/blob.rs`, `edvige-imap/src/mime.rs`) | files named for their hash, temporary files | write, read | message storing tasks, the disk |
| Main window (`edvige-gui/src/app.rs`, `state.rs`, `ui/`) | selection, lists, open message, queue of answers | click, load, take answers and news, draw | database, supervisor |
| Composer (`edvige-gui/src/app.rs`, `ui/composer.rs`) | one set of fields for all messages | compose, answer, forward, write, attach, send, save, cancel | main window, outbox pipeline |
| Engine events (`edvige-gui/src/engine/events.rs`) | broadcast ring | emit, relay to the window in the slot | workers, window |

What makes these parts hard, and what would make them correct:

* **Nothing is locked across statements.** Every SQL statement is autocommitted
  and every request to the supervisor runs in a task of its own, so two
  dispatches, two synchronizations of one folder or two of the list of folders
  interleave statement by statement. Correct means: statuses tell the truth, no
  mail is skipped, rows and attachments agree, tasks that collide do not all fail.
* **Progress is remembered by side effects** (a status, the highest UID, a map
  entry, a file name). A crash, a refused command or an error between two of them
  leaves a trace that nothing takes up again. Correct means: what is left behind
  has a named cause, and what the table says was really done.
* **Servers answer late, twice or not at all.** A reply may be lost after the
  server has acted, a push may cross the end of IDLE, UIDVALIDITY may change
  between two sessions. Correct means: copies multiply only in doubt, pushes that
  are read bring in everything, a UID never shows another message.
* **Processes come and go**: socket files outlive them, windows outlive a
  supervisor that crashes, and close between a look at the slot and the send.
  Correct means: one supervisor, one window of its own, and every request ends
  with a window in front or for a named reason.
* **The window takes an answer for whatever is selected when it arrives.**
  Correct means: once nothing is on its way, the window shows what the database
  has, and what is written there goes out once, from the right account.

## 2. Modules

| Module | Models | Theorems | Runs |
|---|---|---|---|
| `Outbox` | composer task, requests, dispatch tasks, table, SMTP exchanges, restarts | `OutboxProofs` | `outbox_concurrent` |
| `MailQueue` | abstract: what an outbox promises its user | | |
| `OutboxSerial` | `Outbox` with one dispatch at a time, and its refinement of `MailQueue` | `OutboxProofs` | `outbox_serial` |
| `SmtpSession` | the session of one dispatch, client and server | `SmtpSessionProofs` | `smtp` |
| `MessageText` | the MIME structure of a message, dot-stuffing, and what a reader makes of them (no state) | `SmtpSessionProofs` | `smtp` |
| `ImapConnection` | commands, lines, literals and names of an IMAP session, client and server | `ImapConnectionProofs` | `imap` |
| `FolderSync` | synchronization of one folder by several tasks, the server's mailbox, its UIDs and UIDVALIDITY | `FolderSyncProofs` | `sync_renumber`, `sync_overlap` |
| `MutationQueue` | local changes carried out by the worker, and its refinement of `ChangeQueue` | `MutationQueueProofs` | `mutations` |
| `ChangeQueue` | abstract: what a queue of changes promises its user | | |
| `IdleWorker` | the worker's session and its loop | `AccountWorkersProofs` | `idle` |
| `AccountWorkers` | the engine, the map of workers, `sync_folders` | `AccountWorkersProofs` | `workers` |
| `SingleInstance` | starts of the program and the socket | `DesktopProofs` | `desktop` |
| `Supervisor` | requests for a window, slot and child of record of each supervisor, windows and their connections | `DesktopProofs` | `desktop` |
| `Desktop` | `SingleInstance` and `Supervisor` together | `DesktopProofs` | `desktop` |
| `BlobStore` | blobs, the tasks that write them, the disk | `FolderSyncProofs` | `blobs` |
| `MailWindow` | the window, its tasks and answers, the ring of events and its relay | `ComposerProofs` | `window` |
| `Composer` | the composer beside the window | `ComposerProofs` | `window` |

`MC<Module>` instantiates a module for TLC; the values of its constants are in
the `.cfg` of the run.

How they fit together: `OutboxSerial` extends `Outbox` and instantiates
`MailQueue` with a refinement mapping, `MutationQueue` does so with `ChangeQueue`.
`Desktop` extends `SingleInstance` and
instantiates `Supervisor`: a start that finds a supervisor makes a request there,
one that finds none becomes a supervisor and makes it to itself, and a window
connects to whoever answers at the path; that each part still behaves as its own
module says is proved. `Composer` extends `MailWindow` (an answer is to the message
shown there), and `SmtpSession` extends `MessageText`. The others meet at the database or at a
call and abstract what lies beyond it: `Outbox` takes an SMTP exchange as
*accepted*, *failed* or *accepted with the reply lost*, which `SmtpSession` looks
into; the workers take a command and its answer as one step, which `ImapConnection`
looks into; `IdleWorker` takes a synchronization as "stores what the session knows of",
which `FolderSync` looks into, and a pass over the changes as "leaves some mailbox
selected", which `MutationQueue` looks into; `AccountWorkers` ends where
`IdleWorker` begins; `MailWindow` has the supervisor store mail and tell of it.

## 3. How the code is modelled

One SQL statement, one command to a server, one system call or one message taken
from a queue is one step: those are the points at which tasks, processes and
servers meet. What lies between two of them is local and part of the step. The
variable `pc` of a task names the statement it is about to issue.

**Outbox.** `Compose` is the click on *Send* or *Save draft*; the composer
forgets the message at once and leaves the rest to a task (`SaveMessage`,
`RequestDispatch`). `SpawnDispatch` is the arm of the supervisor's command loop
that spawns a task per `DispatchOutbox` and does not wait for it. A task peeks
(`PeekQueued`), connects, and for each row of its snapshot marks it sending,
builds, sends, and writes the outcome. `NextMessage` and `Return` are the loop
and its ways out; `MarkSentFails` is the `?` that leaves it. `FailRead` and
`FailWrite` are the two statements of `mark_outbox_failed`. Histories record what
the server took (`accepted`), took while the client saw an error (`lost`), failed
attempts, outcomes never written (`unrecorded`) and dispatches that ended before
they tried a row (`refused`).

**SmtpSession.** `pc` is the exchange, `awaiting` whether its reply is read.
`Expected`, `Proceed` and `Fail` are the checks of `client.rs`, the loop of the
dispatcher included: a failed message is settled and the next begins on the same
connection. The server keeps the transaction (`from`, `to`) and refuses a `MAIL`
inside one; it may refuse any command, split a reply over lines and close. The text of
a message comes from `MessageText`: `Build` is `MimeBuilder::build`, `Stuff` what is
written after DATA. The server reads what it gets up to the lone dot (`Received`) and
takes what follows for commands (`Beyond`); a reader parses the parts (`Read`), and
`Intended` is what it should find. Of a line only its leading dots and its role are kept.

**ImapConnection.** What comes over the wire is a sequence of lines; a literal is a
number of lines of any content, announced on the line before. `ReadLine`,
`ReadLiteral` and `Handle` are the loop of `execute`, `Breaks` the end of the
connection at each point of it, `ParseName` and `NamesFolder` the parts of the line
parser that decide what is taken for what. Names are sequences of characters, since
quoting is what can go wrong with them; all else about a line is abstracted.

**FolderSync.** A row is `head` (columns an upsert does not rewrite), `body`
(those it does) and `files` (rows of `attachments`). `Select` compares
UIDVALIDITY with the Folder value of the task, `ListRows`, `DeleteRow` and
`Invalidated` are the invalidation, `FindStart`, `Fetch` the fetch above the
highest UID, `Lookup` to `AttachClashes` the statements of `upsert_message` and
`save_attachments`, `SaveState` the last update of the folder. The server's side
(`Arrive`, `Expunge`, `Renumber`) is external.

**MutationQueue.** `Pass` peeks a batch between two IDLEs; each row is marked,
its folders looked up, its mailbox selected, and one to three commands follow.
`Command` gives each its three outcomes: done, refused, connection lost before or
after the effect. The whole queue is about one message, so that changes collide.
`ChangeQueue` knows neither table nor batch nor command: a row that is pending or in
flight is *waiting*, a change is done when its last command took effect (or, if it asks
for nothing, when it is made), and the marking, the lookups, the `SELECT`, the copy that
goes before a deletion, a restart and a reconnection are not seen.

**IdleWorker.** `wire` are lines the worker has not read. `ReadLine`,
`TimerRunsOut` and `ChannelChanges` are the arms of the `select!` in IDLE;
`StopIdle` reads up to the tagged answer and drops what it finds. `reported` is
what the server has told the session, which it does not tell again.

**AccountWorkers.** Tasks are numbered in the order they are spawned. `StartKnown`
and `HandleAdded` share the map; `ReadFolders` to `InsertClashes` are
`sync_folders`, in which a clash on `UNIQUE(account_id, remote_name)` fails the
whole task; `StopWatching` is where a worker looks at its channel.

**SingleInstance**, **Supervisor** and **Desktop.** A start connects to the path, or
unlinks it and binds a socket of its own. A request for a window goes to the slot or
kills the child of record and spawns another; clicks on notifications run on threads,
all else in the main loop; each connection has a task that sets the slot when it
reads Hello and clears it at the end, whoever is in it. `Supervisor` has many
supervisors, one after the other or, if starts overlap, side by side: a request
belongs to the one it was made to (`by`), a window is spawned by one and may connect
to another (`host`). In `Desktop`, `Command` and `EnterLoop` are the requests of
starts, `Open` connects to the listener of `SingleInstance`, and `End` is a process
that ends, by quitting or not.

**BlobStore.** `Exists`, `Missing`, `Create`, `Fill`, `Rename` are
`BlobStore::write`; `WriteBack` and `PowerFails` the operating system, which may
keep a renamed file's content from the disk.

**MailWindow.** A click changes the selection and starts a task; `Access` and
`Answer` are the task; `AccountsLoaded` to `MessageDeleted` are
`handle_responses`, `NewMessages` and `FolderUpdated` `handle_incoming_ipc`, run
when the window is drawn (`awake`), which answers do not cause. `ring` is what the
relay has not taken yet; the code's ring overwrites the oldest event instead, which
the relay learns only at its next look (`Relay`): `Overrun` is that look.

**Composer.** A field holds the number of the message it was written for. `Begin`,
`Write`, `Send`, `SaveDraft` and `Cancel` are the clicks, with what each clears,
overwrites or leaves; the main window goes on beside them.

Broken variants ("not part of Next") stand beside the definition they vary. Each
is a plausible mistake, and with it in place TLC finds the property it belongs to
violated.

## 4. What the runs show

| Run | States | Shows |
|---|---|---|
| `outbox_serial` | 2.4 M | `FailuresAreBounded`, `ImplementsMailQueue` |
| `outbox_concurrent` | 131 k | `StatusIsTrue`, `SendingHasOwner`, `QueuedIsSettled` |
| `sync_renumber` | 47 k | `CacheMatchesServer`, `CatchesUp` |
| `sync_overlap` | 426 k | `NoSilentGap`, `FilesAreComplete` |
| `desktop` | 102 k | `OneSupervisor`, `ChildIsTheWindow`, `QuitClosesWindow`, `RequestIsServed`, `StartShowsWindow` |
| `smtp` | 94 k | `ArrivesWhole`, `OutcomeIsTrue`, `LoginIsCovered` |
| `imap` | 699 k | `OutcomeIsTheAnswer`, `FetchIsExact`, `FoldersAreMailboxes`, `SessionEnds` |
| `mutations` | 1.9 M | `NeitherLostNorMultiplied`, `NewestWins`, `ChangesSettle`, `ImplementsChangeQueue` |
| `workers` | 865 k | `OneWorker`, `LastOneFinishes`, `AccountIsWatched` |
| `idle` | 206 k | `MailIsStored`, `PushCatchesUp`, `LinesMatch`, `StopsWhenTold` |
| `blobs` | 1.3 M | `RowsHaveBlobs`, `SafeStays` |
| `window` | 1.5 M | `WindowSettles`, `SyncsOwnFolder`, `FlagsAsWished`, `NewMailShows`, `NothingSentTwice`, `AnswersFromOwnAccount` |

`TypeOK` of each module documents the types of its variables, and is what the
proofs start from. It is left out of the runs: it holds in all of them, and says
little that the properties do not.

* **`outbox_serial`**: three messages (so that a snapshot of two leaves one), mail,
  drafts and mail without recipient, two failures before giving up, network and
  storage errors at every step, one restart of either process. No message is tried
  too often, and what the user is told follows the abstract `MailQueue`: final
  reports, no draft sent, a second copy only when all earlier ones are in doubt.
* **`outbox_concurrent`**: two dispatches of one account at the same time. What
  survives is that a status is true (sent was accepted, failed has failed as often
  as promised), that a row in *sending* has an owner or a named cause, and that
  queued mail is settled unless a failure, a refused dispatch or a restart came
  between. Two tasks and two rows suffice for every pair of statements to cross,
  and a snapshot of two lets a task take a row another has already settled.
* **`sync_renumber`**: UIDVALIDITY changes once, messages arrive, are expunged and
  deleted locally; three UIDs leave room for a gap below a cached message in both
  epochs; `ListLimit` 2 lets an invalidation leave a row. Rows an invalidation has
  left are named in the properties.
* **`sync_overlap`**: the worker and a request synchronize together, with network
  and storage errors and a restart, while UIDVALIDITY stays.
* **`desktop`**: two starts, the second hidden, and a request of the tray or of a
  notification. The starts do not overlap; the second may find the first, follow it,
  or follow a crash of it, so that a window is left over from another life; the open
  of the storage, the listener and a spawn may fail. Two lives and three requests are
  enough for a window to connect to a supervisor that did not spawn it and for a
  connection to end after the next has set the slot.
* **`smtp`**: every security mode, with and without login, batches up to three
  messages, one without recipients and one with a refused recipient, texts with dots,
  two bodies and files; replies of one or two lines; each subset of {refusals, closing}.
* **`imap`**: three scripts of three and four commands, one of which selects again after
  its fetch; four mailboxes (a space, a quote, a backslash, a name that begins with NIL), two
  messages that quote the end of the session they are fetched in; every subset of six habits of the
  server. Tags run up to the length of the script, so that a quoted tag can match.
* **`mutations`**: three kinds of behaviour (`MCSettings`): nothing fails or
  commands are refused, three changes; everything fails, two. Batches of two, so
  that order across batches matters. `MaxRetries` is the real 3. The message is neither
  lost nor multiplied, and what the table says follows `ChangeQueue`: a change is entered
  once, done only if carried out, given up only after enough failures, for good; and if
  nothing worse than refusals happens, it takes effect at most once, not after it failed for
  the last time, and never before an older one that was not tried.
* **`workers`**: one known account, with one or two of its two folders in the
  table, and a new one; five tasks; two turns of the user, which are a start and a
  click, or two starts around a crash. Two tasks race for two folders.
* **`idle`**: every subset of four habits of server and user, two messages, six
  lost connections (so that the delay reaches its limit of 60 seconds).
* **`blobs`**: three messages that share an attachment, two of them the same message
  fetched twice; two crashes or power failures.
* **`window`**: seven settings: a hasty user, a patient one with tasks that overtake
  each other, one who sets flags, tasks that fail, a ring of two events that the mail
  overruns, and two users who write. Two accounts, three folders, two messages, at
  most four clicks in the window and five in the composer; a property names the
  settings it needs. The ring of the code holds 512: the model's holds four, the events
  of all the mail there is, and two.

Deadlock is not an error in any run: each bounds what its environment does, and
when that is used up the system rests.

## 5. Fairness

Weak fairness stands for the tokio runtime, which polls every task that is ready,
and for the scheduler of processes. Beyond it:

* A server answers or the connection breaks (`ServerStep` of `Outbox`, the
  `Server...` actions of `IdleWorker`, `Answer` and `Close` of `ImapConnection`, the commands of `FolderSync`,
  `MutationQueue` and `AccountWorkers`). The clients have no timeouts: against a
  server that keeps a connection open and never answers, no liveness property
  holds.
* `FolderSync` is synchronized again and again (`StartSync`): the worker does so
  on every push, and the user by opening the folder.
* `MutationQueue` is looked at again and again: IDLE ends with its heartbeat.
* `MailWindow` needs a pointer that moves over it now and then (`Touch`): without
  input or news it is not drawn and takes no answers.
* `Desktop` has one fairness condition, on `Scheduled`, for all processes, tasks and
  windows: every step of it uses something up, so that none can be taken for ever in
  place of another.
* No user has to click, to start or to quit, nothing has to fail, and the timer of
  IDLE is not needed.

Weak fairness is enough everywhere. Where it is put on a disjunction (`TaskStep`,
`Draw`), the disjuncts are steps of one sequential task; where the disjunction
ranges over several tasks or accounts (`MailWindow`'s `Work` and `Supervisor`,
`EngineStep`), only the whole is assumed to go on, which is weaker than fairness
to each task.

## 6. What is proved

The theorems hold for every value of the constants, from the named assumption of
the module (`OutboxAssumption`, ...), which says what kind of values they are and
that bounds of the code which are never zero are not zero (`PeekLimit`,
`MaxRetries`), and of `MailWindow` that there are finitely many folders: it tells of
them one after the other. `ImapConnectionAssumption` says besides that a session has a
command, that a message has a line, and that there are finitely many mailboxes, and
`SmtpSessionAssumption` that no text or file has a boundary of its message in it. What
more is assumed is a hypothesis of the theorem and said below.

**`OutboxProofs`** (any number of messages, tasks, retries, restarts):
`TypeCorrect`; `StatusesAreTrue`, which is `StatusIsTrue` from
`SentMailWasAccepted` and `NoMailIsGivenUpEarly`; `SendingRowsHaveOwners`;
`DraftsStayLocal`. The inductive invariant is `OutboxInv = RowInv /\ TaskInv /\
RetryInv /\ SendingHasOwner`. `RowInv` and `TaskInv` connect statuses with what
happened: a task past the server's answer works on an accepted row. That a row is
given up late enough although two tasks may read the same count is `RetryInv`:
the stored count, and each count on its way into the table, together with the
number of tasks that have failed and not yet read, is at most the number of
failures. A lost update makes the count too small, never too large.

The second part takes `OneTask` as a hypothesis (dispatches do not overlap):
`BoundedFailures`, `OneCopy`, `SettledRowsAreFinal`, and
`OutboxImplementsMailQueue`, the refinement. `SerialInv = FreshSnapshot /\ CopyInv
/\ CountInv`: the snapshot is still true of the table, a copy is confirmed between
the answer and the report, and the count is exact while no outcome was lost. The
refinement maps queued and sending to *pending*; marking, connecting and reading
are stutters, and each other step is one of the queue.

**`SmtpSessionProofs`** (any batch of messages, any replies, lines and faults):
`LoginCovered`, `OutcomesAreTrue`, `AcceptedWhole` and `TypeCorrect`, from
`SessionInvariance`. The invariant `SessionInv` has five parts beside the types.
`DialogInv`: the client reads the reply to its last command and no other, since a
reply ends with its only last line; the whole session rests on it, because no reply
names its command. `LoginInv`: the stages that show credentials come after TLS.
`Transaction`: what the server has of the message is what the client has been told
it has, so that DATA is asked for with all recipients in place. `AcceptedInv` and
`SentInv`: what was accepted is the message at hand, or one before it that was
recorded as sent, unless the connection broke. `CauseInv`: without a fault, whatever
fails, and a transaction left open, has a bad recipient behind it. That the text arrives as it was meant is proved
line by line: `StuffLines`, `DataEnds` (no stuffed line ends the data),
`NothingBeyond` and `ReceivedAsWritten` hold for every text. That what is built is
such a text, and that a reader of it gets what was meant, is `BatchIsRead`, for texts
and files of any length. `FlattenSeq` and `InOrder` (the boundaries in their order) are
recursive or chosen functions, so what they do is shown by a least counterexample:
`FlatIs`, `OrderIs`. `SplitIs` gets the parts back from between the boundaries, `LeafIs`
and `MultipartIs` read one part and several, `ContentReads` and `FilesRead` put them
together. They rest on `SmtpSessionAssumption`: texts and files are lines, none of which
is a boundary of the same message (`IsContent`; each boundary has a new UUID in it).

**`FolderSyncProofs`**: `TypeCorrect` with `LiveInv` (what is live was given a
UID), `OpenInv` (a task past SELECT knows the UIDVALIDITY), `BusyInv` (a task that
stores has something to store) and `KnowInv` (what a task believes of its row is
so). `FilesFollow`, in every epoch: a row that lacks its attachments has an excuse, or
the task that is adding them. Assuming `MaxEpoch = 1` (UIDVALIDITY stays):
`StableMailbox`, by `MirrorInv` (rows and fetched batches show the server's message
under each UID), and `NothingSkipped`, by `GapInv` (below the highest UID known, each
live one is cached, about to be stored by a task that has it, or excused).

If UIDVALIDITY may change at any step, a UID names different messages at different
times, and what is cached is right only for syncs that do not overlap (`OneAtATime`).
`RequestsMatchServer` and `RequestsSkipNothing` prove `CacheMatchesServer` and
`NoSilentGap` for requests, each of which reads the folder's row first, if no sync is
interrupted by an error of the database or a restart; `OneRequest` is the case of one task
(that of `sync_renumber`, with any bounds), where syncs cannot overlap.
`RenumberedMailbox` and `RenumberedSkipsNothing` allow workers, restarts and all faults.
They need instead that a task knows what the folder is marked with (`FolderValueKnown`:
it has no UIDVALIDITY only if the folder has none; for gaps `FolderValueFresh`: it has the
folder's) and that the server keeps its UIDs until the first sync is completed
(`FirstUndisturbed`). Section 7 says what happens otherwise. The invariants are `EpochInv` and
`GapEpoch`. Both say of a task that has selected the mailbox (`InEpoch`, `GapAt`): as long
as the epoch it has selected is the server's, the rows shown are those of the server and
nothing below them is passed over, from the moment its invalidation is over; if that epoch
is past, the folder is not marked with the server's, and the task cannot do so.
`Virgin` and `Fresh` are about the time before a first sync is completed, when there are
rows that no UIDVALIDITY stands for.

The same module proves about `BlobStore`, which looks into the storing: `BlobTypes`;
`BlobsAreThere` (`RowsHaveBlobs`, `WrittenCanBeRead`), by `BlobInv`: names stand for
whole contents since only whole files are renamed, but for files a power failure
damaged (`cut`), and what a task is done with is there whoever wrote it; and
`SafeBlobsStay` (`SafeStays`), by `TmpInv`.

**`ImapConnectionProofs`** (any scripts, any mailboxes with names over any characters,
any number of messages of any lines): `TypeCorrect`, `OutcomesAreAnswers`,
`FetchesAreExact` and `FoldersStandForMailboxes`, all by one invariant, `Inv`. Its core is
`Order`: while a command is under way, either nothing has come but what is said in
between (`Waiting`), or what is still to be read, and what a cut has taken from its end,
is a sequence of whole frames and then the tagged line (`Answered`). A `Frame` is a line
that is not tagged, with the literal it announces and the rest of it. Reading takes a
frame off the front and adds what it stands for to the responses, so that those read
and those to come are the server's answer throughout (`Serves`); no line of a literal is
read as a line, whatever it looks like, and the tagged line that is read is the server's,
with the tag of the command. `History` keeps for the commands that have ended what the
properties say of them, as long as no later listing or SELECT has taken its place
(`Since`). Folders rest on `UnquoteQuote`, a fact about names of any characters, and on
`ParseListed`, which is the reason plain names are excepted. The functions these
facts are about are recursive (joining sequences, reading escapes); each fact is proved
by the least number for which it would fail, since the induction theorems of the library
cannot be applied.

**`MutationQueueProofs`** (any number of changes, of any kinds, and of failures):
`TypeCorrect` with `BatchInv` (only the change at hand is marked, and the command at
hand is one of its kind). `OutcomesAreTrue`, by `Recorded`: who completes has carried
out, and the count written lags behind the failures, however statements fail.
`MessageIsKept`, by `Kept`: the original is live, or there is a copy, or a deletion was
asked for; and both are there only while the move is at hand, or after one that failed
or was left in flight. `NewestChangeWins`, by `Calm`: while nothing went wrong, what
waits is newer than what was done. `MutationsImplementChangeQueue` maps each step to one
of the abstract queue or to none (`CommandMaps`, `CompleteMaps`, `FailReadMaps`,
`FailWriteMaps`, `MakeMaps`). That an end is true rests on `Recorded`; what is promised
while commands are at worst refused, on `Smooth`: only the row at hand is marked, what took
effect is recorded next, and of two waiting changes the older is in the batch or was tried
before, since a batch is the oldest of what waits and a row that goes back has failed.
`OutcomesAreTrue` is what the refinement says of the ends, in the terms of the table.

**`AccountWorkersProofs`** (any number of tasks, accounts, folders): `TypeCorrect`;
`OneWorkerEach`; `OneCompletes`, by `LastInv`. Folders are inserted in the order of
the server's list, so that those in the table are the first few (`InOrder`); a task has
all that precedes its folder in the table (`Placed`); and whoever inserted a folder goes
on to the next one, unless that is there already or its life is over (`Follows`). Hence
of the tasks that race, the one that inserts the last folder has lost no race.
`LinesAlwaysMatch` is about the session of a worker and proves `LinesMatch` of
`IdleWorker`, for any amount of mail, of lines without news and of failures, by
`SessionInv`: what each stage of the worker may find on the wire and where the server
is. What is still to be read while IDLE goes on has no line that ends a command; after
DONE it has one, and that is the last, so that reading up to it reads all.

**`DesktopProofs`** begins with the parts. Starts: `StartsApart` (assuming `~ Overlap`),
by `LockInv = Fresh /\ (Deaf \/ Lock)`: one process at a time is starting, a supervisor
has its socket at the path, and a start past its question has found that there is none.
Windows, for any number of supervisors, requests and windows: `OneWindow` and
`NoWindowLeft`, by `Windows` (`ChildIsTheWindow`, `SlotIsOpen`: the slot leads to a
task that delivers, and what a window has not reached yet) and `MainLoopEnded` (after
the main loop only clicks spawn). The whole implements its parts.
`DesktopImplementsStarts`: each step is one of `SingleInstance` or leaves it alone.
`DesktopImplementsWindows`: each is one of `Supervisor`, which needs `TypeOK` of the
starts, since a window connects to whoever has the path and a start asks its peer. From
these, `OneWindowEach` and `QuitTakesWindow` carry the two theorems over.

**`ComposerProofs`** (any clicks, answers, tasks, mail and keystrokes). `SentApart`, by
`WritingInv`: what was sent was written before and is in no field any more
(`GoneForGood`), and an answer that is being written has its own recipient and text
(`Addressed`). `SyncsOwn` and `AnswersOwn`, by `OwnEverywhere`: if the user waits for
each answer and no task fails, whatever is shown or on its way is of the account that is
selected (`OwnShown`, `FitsAccount`), but for the folders until those of the account
have been loaded (`OwnFolders`), and until then no folder is selected that could be
synchronized. What one message answers is kept with the account it was begun under
(`BegunOwn`).

`SettlesWindow` proves `WindowSettles`. If tasks end in order, the answers followed by
the tasks are one line (`Line`): a task joins it at the end, reads when all before it
have read, and leaves at the front, into the window. The invariant `SettleInv` looks at
each list that has been read, the one in the window or one in the line. `View` says of
its entries that they are as in the database, or that the change which makes the
difference, a deletion or new flags, was read later and so comes behind in the line.
`Fresh` says of the last list in the line that it is of the selected folder and has all
its mail, unless news of the rest is on its way (`Told`), which `EventsInv` follows
through ring and queue for as long as the ring is not overrun. `FoldersInv` says that the
last folders asked for are those of the selected account. `DetailInv` is for a user who
waits for each answer, in whatever order tasks end: what is shown is of the open message,
or what is has been asked for. When nothing is on its way the line is empty, and what is
left of these is the property.

`SetsFlagsAsWished` proves `FlagsAsWished`, by `WishInv` on top of `SettleInv`. A user
who waits for each answer has at most one task in the line, at the front; all behind it
are lists of the selected folder that news have started (`Arranged`). The open message is
stored and in every list that has been read, until it is itself deleted (`OpenKept`); so a
click finds the flags of its message, in the list, as they are in the database, and keeps
those it does not change. Each flag is as wished, or on its way at the front (`Wished`).

Only model-checked: all liveness, which TLAPS does not do with fairness.

## 7. What the code does not promise

The models show these behaviours of the code; no document of the repository claims
otherwise, so they are assumptions or exceptions of the properties, not findings.

* Overlapping dispatches send a message twice, and one may take a row already sent
  back to *sending*. With more rows than a dispatch takes, two of them may leave
  the rest queued without a request.
* A refused connection leaves mail queued until the next message is sent. An error
  of `mark_outbox_sent` drops the rest of the snapshot. Rows in *sending* when a
  process ends are never taken up again.
* After a refused recipient the session is not reset: the messages that follow on
  it fail, since the server is still in the old transaction.
* A worker keeps the Folder value it was started with: for a new account it never
  sees a UIDVALIDITY to compare with. A first synchronization that is interrupted
  leaves rows under a NULL `uid_validity`, which a change of UIDVALIDITY does not
  invalidate. A message whose storing failed is not fetched again.
* A change whose SELECT fails stays *in flight* for ever; a retried change may
  overwrite a newer one; the fallback of a move marks the message deleted and does
  not expunge it.
* A worker whose first connection fails, or that loses the race for a folder's row,
  ends, and its entry in the map keeps another from starting.
* IDLE overlooks mail that is reported outside IDLE, that crosses its heartbeat or
  other lines, or that arrives while a change has another mailbox selected; the
  next push brings it in.
* Starts that overlap may both become supervisors, as may a start after a listener
  has stopped. A second start with `--hidden` shows a window.
* A request sent to a window that has just been closed is lost. A window that has
  connected between the look at the slot and the spawn is replaced. A click on a
  notification may open a window that outlives the supervisor. A window that is left
  over from a crash connects to nobody again, or, if it had not connected yet, to the
  next supervisor, whose slot it takes and whose own window then opens beside it. A
  start answered by a supervisor that is quitting opens nothing.
* A UID that follows its message in a FETCH, or a message that is no literal, leaves the
  message without UID or text: it is passed over without an error. A folder whose name
  has a quote or a backslash is listed under another name than is selected, one sent as
  a literal is dropped, one that begins with NIL is empty. `list_folders` says in a
  comment that `\Noselect` folders are not to be listed as selectable
  (`client.rs:68`), and lists them all.
* A file is not synchronized before it is renamed; what a power failure damages is
  never written again, since the name exists.
* In the window: after a hasty click on another account, *Sync* may fill a folder
  from the mailbox of the same name of the other account; tasks that overtake each
  other leave an old list; refreshing the list of folders does not show new ones;
  setting a flag on the open message clears the others once a search has replaced
  the list; answers wait for input.
* The relay of events ends after it has lagged behind the ring once; from then on no
  window hears of new mail until the supervisor starts anew. Mail that a synchronization
  stores before it fails is not told of at all.
* A message that is written belongs to the account that is selected when it is sent, be
  it an answer to mail of another one. The fields of a cancelled message stay: its
  copies and attachments go out with the next answer. A draft is saved without copies
  and attachments. The fields are cleared before the message has been saved.

## 8. What is not modelled

* Conversions below the level of lines: base64 and quoted-printable, the encoding of
  headers, numbers and dates, the flags and status codes of IMAP. What is parsed from a
  message (`mime.rs`) comes from a library; the search is SQLite's.
* Rendering, tray menus, notifications: output. The fields of the account form, the
  saving of attachments, the limit of 100 listed messages.
* TLS and certificates, timeouts (there are none), SQLite's own locking.
* `BlobStore::delete`, `update_account`, `delete_account`, `stop_account_worker`
  and `delete_outbox_message` have no callers. Nothing enqueues a change yet either;
  `MutationQueue` takes changes as the tests make them, since the worker that
  carries them out runs.
* Packaging, examples.

## 9. Plan

Done, in this order: the outbox with its abstract queue and proofs; folder
synchronization with proofs; single instance and windows with proofs; SMTP session,
mutation queue, account workers and IDLE worker; blobs with proofs; the window; the
text of messages; the IMAP connection; the desktop, which composes starts and windows,
with proofs; the ring of events; the composer; the proofs about accounts' workers,
changes, IDLE, the SMTP session, the composer, the window and the IMAP connection;
folder synchronization across changes of UIDVALIDITY; the abstract queue of changes.

Next:

1. Mailboxes that cannot be selected (`\Noselect`), and folders that disappear, in
   `AccountWorkers`; changes of flags on the server in `FolderSync`.
