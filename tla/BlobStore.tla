------------------------------ MODULE BlobStore ------------------------------
(***************************************************************************)
(* The store of blobs, and the tasks that save messages in it.              *)
(*                                                                          *)
(* A blob is a file named for the hash of its content, so content and name  *)
(* are one here. It is written to a temporary file of its own and renamed,  *)
(* unless a file of that name is there already. A message refers to several *)
(* blobs, which it may share with others; its row is inserted after all of  *)
(* them. No file is ever synchronized to the disk by the program. Deleting  *)
(* a blob is left out: nothing does it.                                     *)
(***************************************************************************)
EXTENDS Naturals

CONSTANTS
    Contents,
    Messages,
    Parts,      \* the contents of a message: its source and its attachments
    Nothing,
    MaxCrashes,
    Failures      \* "write" (a file operation fails), "crash", "power" (the machine stops)

ASSUME BlobStoreAssumption ==
    /\ Parts \in [Messages -> SUBSET Contents]
    /\ Nothing \notin Contents
    /\ MaxCrashes \in Nat
    /\ Failures \subseteq {"write", "crash", "power"}

VARIABLES
    file,       \* what is found under the name of a content
    onDisk,     \* files the system has written back
    saved,       \* messages in the database
    stage,         \* of the task that saves a message
    left,       \* contents it has still to write
    now,        \* the one it writes
    tmp,        \* its temporary file
    crashes,
    confirmed,  \* history: contents whose write succeeded since the program started
    cut         \* history: contents whose file a power failure took or damaged

disk == <<file, onDisk>>
task == <<stage, left, now, tmp>>
history == <<confirmed, cut>>
blobVars == <<disk, saved, task, crashes, history>>

BlobTypeOK ==
    /\ file \in [Contents -> {"none", "whole", "damaged"}]
    /\ onDisk \subseteq Contents
    /\ saved \subseteq Messages
    /\ stage \in [Messages -> {"idle", "next", "check", "create", "fill", "rename", "failed"}]
    /\ left \in [Messages -> SUBSET Contents]
    /\ now \in [Messages -> Contents \cup {Nothing}]
    /\ tmp \in [Messages -> {"none", "damaged", "whole"}]
    /\ crashes \in 0..MaxCrashes
    /\ confirmed \subseteq Contents
    /\ cut \subseteq Contents
    /\ \A m \in Messages :
         /\ now[m] \in left[m] \/ now[m] = Nothing
         /\ now[m] # Nothing <=> stage[m] \in {"check", "create", "fill", "rename"}
         /\ tmp[m] # "none" <=> stage[m] \in {"fill", "rename"}

BlobInit ==
    /\ file = [c \in Contents |-> "none"]
    /\ onDisk = {}
    /\ saved = {}
    /\ stage = [m \in Messages |-> "idle"]
    /\ left = [m \in Messages |-> {}]
    /\ now = [m \in Messages |-> Nothing]
    /\ tmp = [m \in Messages |-> "none"]
    /\ crashes = 0
    /\ confirmed = {}
    /\ cut = {}

Goto(m, step) == stage' = [stage EXCEPT ![m] = step]

-----------------------------------------------------------------------------
(***************************************************************************)
(* Saving a message: its blobs one after the other, then its row.           *)
(***************************************************************************)

\* A message is fetched, for the first time or again.
Begin(m) ==
    /\ stage[m] \in {"idle", "failed"}
    /\ m \notin saved
    /\ Goto(m, "next")
    /\ left' = [left EXCEPT ![m] = Parts[m]]
    /\ UNCHANGED <<disk, saved, now, tmp, crashes, history>>

\* The source comes first and the attachments in their order, which matters to nobody.
NextBlob(m) ==
    /\ stage[m] = "next"
    /\ \E c \in left[m] : now' = [now EXCEPT ![m] = c]
    /\ Goto(m, "check")
    /\ UNCHANGED <<disk, saved, left, tmp, crashes, history>>

Wrote(m) ==
    /\ left' = [left EXCEPT ![m] = @ \ {now[m]}]
    /\ now' = [now EXCEPT ![m] = Nothing]
    /\ tmp' = [tmp EXCEPT ![m] = "none"]
    /\ confirmed' = confirmed \cup {now[m]}
    /\ Goto(m, "next")

\* Broken variants, not part of BlobNext: the row does not wait for the blobs; the file is
\* written in place.
InsertEarly(m) ==
    /\ stage[m] = "next"
    /\ saved' = saved \cup {m}
    /\ Goto(m, "idle")
    /\ UNCHANGED <<disk, left, now, tmp, crashes, history>>
CreateInPlace(m) ==
    /\ stage[m] = "create"
    /\ tmp' = [tmp EXCEPT ![m] = "damaged"]
    /\ file' = [file EXCEPT ![now[m]] = "damaged"]
    /\ Goto(m, "fill")
    /\ UNCHANGED <<onDisk, saved, left, now, crashes, history>>
\* A file of that name is taken for the content.
Exists(m) ==
    /\ stage[m] = "check"
    /\ file[now[m]] # "none"
    /\ Wrote(m)
    /\ UNCHANGED <<disk, saved, crashes, cut>>

Missing(m) ==
    /\ stage[m] = "check"
    /\ file[now[m]] = "none"
    /\ Goto(m, "create")
    /\ UNCHANGED <<disk, saved, left, now, tmp, crashes, history>>

Create(m) ==
    /\ stage[m] = "create"
    /\ tmp' = [tmp EXCEPT ![m] = "damaged"]
    /\ Goto(m, "fill")
    /\ UNCHANGED <<disk, saved, left, now, crashes, history>>

Fill(m) ==
    /\ stage[m] = "fill"
    /\ tmp' = [tmp EXCEPT ![m] = "whole"]
    /\ Goto(m, "rename")
    /\ UNCHANGED <<disk, saved, left, now, crashes, history>>

\* The file replaces one that another task has renamed meanwhile.
Rename(m) ==
    /\ stage[m] = "rename"
    /\ file' = [file EXCEPT ![now[m]] = tmp[m]]
    /\ onDisk' = onDisk \ {now[m]}
    /\ cut' = cut \ {now[m]}
    /\ Wrote(m)
    /\ UNCHANGED <<saved, crashes>>

\* The message is given up with what it has written; the temporary file stays behind.
WriteFails(m) ==
    /\ "write" \in Failures
    /\ stage[m] \in {"create", "fill", "rename"}
    /\ Goto(m, "failed")
    /\ left' = [left EXCEPT ![m] = {}]
    /\ now' = [now EXCEPT ![m] = Nothing]
    /\ tmp' = [tmp EXCEPT ![m] = "none"]
    /\ UNCHANGED <<disk, saved, crashes, history>>

InsertMessage(m) ==
    /\ stage[m] = "next"
    /\ left[m] = {}
    /\ saved' = saved \cup {m}
    /\ Goto(m, "idle")
    /\ UNCHANGED <<disk, left, now, tmp, crashes, history>>

-----------------------------------------------------------------------------
(***************************************************************************)
(* The machine.                                                             *)
(***************************************************************************)

\* The system writes a file back in its own time.
WriteBack(c) ==
    /\ "power" \in Failures
    /\ file[c] = "whole"
    /\ onDisk' = onDisk \cup {c}
    /\ UNCHANGED <<file, saved, task, crashes, history>>

TasksEnd ==
    /\ crashes < MaxCrashes
    /\ crashes' = crashes + 1
    /\ stage' = [m \in Messages |-> "idle"]
    /\ left' = [m \in Messages |-> {}]
    /\ now' = [m \in Messages |-> Nothing]
    /\ tmp' = [m \in Messages |-> "none"]
    /\ confirmed' = {}

Crash ==
    /\ "crash" \in Failures
    /\ TasksEnd
    /\ UNCHANGED <<disk, saved, cut>>

\* A file that was not written back may be gone, or be there without its content, or be
\* whole; the rows of the messages may have been lost as well.
PowerFails ==
    /\ "power" \in Failures
    /\ TasksEnd
    /\ \E after \in [Contents -> {"none", "damaged", "whole"}] :
         /\ \A c \in Contents : c \in onDisk \/ file[c] = "none" => after[c] = file[c]
         /\ \A c \in Contents : file[c] = "damaged" => after[c] = "damaged"
         /\ file' = after
         /\ onDisk' = {c \in Contents : after[c] # "none"}
         /\ cut' = cut \cup {c \in Contents : after[c] # file[c]}
    /\ saved' \in SUBSET saved

BlobNext ==
    \/ \E m \in Messages :
         \/ Begin(m) \/ NextBlob(m) \/ Exists(m) \/ Missing(m) \/ Create(m) \/ Fill(m)
         \/ Rename(m) \/ WriteFails(m) \/ InsertMessage(m)
    \/ \E c \in Contents : WriteBack(c)
    \/ Crash
    \/ PowerFails

BlobSpec == BlobInit /\ [][BlobNext]_blobVars

-----------------------------------------------------------------------------
(***************************************************************************)
(* Properties.                                                              *)
(***************************************************************************)

\* A message in the database finds its source and its attachments, although it may owe
\* them to a task that wrote the same content at the same time, or to one that failed or
\* was cut short; only a power failure takes a file from it (parse_email_message and
\* BlobStore::write).
RowsHaveBlobs ==
    \A m \in saved : \A c \in Parts[m] \ cut : file[c] = "whole"

\* What was written can be read: the file is there and its checksum is right, unless a
\* power failure damaged the file that write found and took for the content
\* (BlobStore::write and BlobStore::read).
WrittenCanBeRead ==
    \A c \in confirmed \ cut : file[c] = "whole"

\* A blob that has reached the disk stays whole, whatever fails: a task that still writes
\* the same content does so beside it (the temporary file of BlobStore::write).
SafeStays ==
    [][\A c \in onDisk : file[c] = "whole" => file'[c] = "whole"]_blobVars
=============================================================================
