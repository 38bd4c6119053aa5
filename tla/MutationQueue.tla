---------------------------- MODULE MutationQueue ----------------------------
(***************************************************************************)
(* Local changes on their way to the IMAP server.                           *)
(*                                                                          *)
(* Changes wait in the table mutations. The IDLE worker of the account, the *)
(* only one that reads them, takes a batch between two IDLEs, marks a row   *)
(* in flight, carries it out with one or more commands and records the      *)
(* outcome. All changes here are to one message of one mailbox, so that     *)
(* they can collide. Each statement and each command is a step.             *)
(***************************************************************************)
EXTENDS Naturals, FiniteSets

CONSTANTS
    NumMutations,   \* changes in one behaviour (bound of the model)
    Kinds,          \* what a change may be, see below
    PeekLimit,      \* rows of one pass (20 in engine.rs)
    MaxRetries,     \* failed attempts before giving up (3 in engine.rs)
    MaxRestarts,    \* restarts in one behaviour (bound of the model)
    Settings        \* what a behaviour may be: a set of what may go wrong, out of "refuse"
                    \* (a command), "network", "select" (a refused SELECT), "storage",
                    \* "restart", and how many changes there are at most

\* read, unread: add or remove \Seen; swap: add \Seen, then remove \Flagged; move, delete;
\* bare: flags of a message without UID; lost: a move or deletion without UID or folder.
AllKinds == {"read", "unread", "swap", "move", "delete", "bare", "lost"}

ASSUME MutationQueueAssumption ==
    /\ NumMutations \in Nat /\ MaxRestarts \in Nat
    /\ PeekLimit \in Nat \ {0} /\ MaxRetries \in Nat \ {0}
    /\ Kinds \subseteq AllKinds
    /\ Settings \subseteq (SUBSET {"refuse", "network", "select", "storage", "restart"})
                            \X (0..NumMutations)

\* Ids and created_at follow the order in which changes are made.
Mutations == 1..NumMutations

Stages == {"idle", "mark", "folder", "select", "add", "remove", "move", "copy", "store",
           "complete", "failRead", "failWrite", "broken"}

VARIABLES
    faults,     \* what may go wrong
    limit,      \* how many changes there are at most (bound of the model)
    hasMove,    \* the server knows UID MOVE
    made,       \* changes made so far
    kind,       \* what change m is
    status,     \* column status
    retries,    \* column retry_count
    pc,         \* the statement or command the worker is about to make
    todo,       \* rows of the batch it has still to handle
    conn,       \* its connection is usable
    readCount,  \* the retry count it has computed
    restarts,   \* restarts so far
    box,        \* the server's: the message in its mailbox, its flags, copies elsewhere
    attempts,   \* history: failed attempts at m
    carried,    \* history: changes whose last command took effect
    lastSeen    \* history: the change that last set or removed \Seen, 0 if none

rows    == <<status, retries>>
worker  == <<pc, todo, conn, readCount>>
history == <<attempts, carried, lastSeen>>
world   == <<faults, limit, hasMove>>
vars    == <<world, made, kind, rows, worker, restarts, box, history>>

TypeOK ==
    /\ <<faults, limit>> \in Settings /\ hasMove \in BOOLEAN
    /\ made \in 0..NumMutations
    /\ kind \in [Mutations -> AllKinds]
    /\ status \in [Mutations -> {"absent", "pending", "in_flight", "completed", "failed"}]
    /\ retries \in [Mutations -> 0..MaxRetries]
    /\ pc \in Stages
    /\ todo \subseteq 1..made
    /\ pc \notin {"idle", "broken"} => todo # {}
    /\ conn \in BOOLEAN
    /\ readCount \in 0..MaxRetries
    /\ restarts \in 0..MaxRestarts
    /\ box \in [src : {"live", "deleted", "gone"}, seen : BOOLEAN, flagged : BOOLEAN,
                copies : Nat]
    /\ attempts \in [Mutations -> Nat]
    /\ carried \subseteq Mutations
    /\ lastSeen \in 0..NumMutations

Init ==
    /\ \E s \in Settings : faults = s[1] /\ limit = s[2]
    /\ hasMove \in BOOLEAN
    /\ made = 0
    /\ kind = [m \in Mutations |-> "bare"]
    /\ status = [m \in Mutations |-> "absent"]
    /\ retries = [m \in Mutations |-> 0]
    /\ pc = "idle"
    /\ todo = {}
    /\ conn = TRUE
    /\ readCount = 0
    /\ restarts = 0
    /\ box = [src |-> "live", seen |-> FALSE, flagged |-> TRUE, copies |-> 0]
    /\ attempts = [m \in Mutations |-> 0]
    /\ carried = {}
    /\ lastSeen = 0

-----------------------------------------------------------------------------
Oldest(set) == {m \in set : Cardinality({n \in set : n < m}) < PeekLimit}
Pending == {m \in Mutations : status[m] = "pending"}
\* Broken variant: the newest row comes first.
CurrentNewest == CHOOSE m \in todo : \A n \in todo : n <= m
Current == CHOOSE m \in todo : \A n \in todo : m <= n

\* The next row of the batch, or back to IDLE.
NextRow ==
    /\ todo' = todo \ {Current}
    /\ pc' = IF todo' = {} THEN "idle" ELSE "mark"

\* An error that process_mutations returns: the session ends, the batch is forgotten.
Break == pc' = "broken" /\ todo' = {}

-----------------------------------------------------------------------------
(***************************************************************************)
(* The server: what a command does to the message, if it is still there.    *)
(***************************************************************************)
Present == box.src # "gone"

AddSeen      == IF Present THEN [box EXCEPT !.seen = TRUE] ELSE box
RemoveSeen   == IF Present THEN [box EXCEPT !.seen = FALSE] ELSE box
RemoveFlag   == IF Present THEN [box EXCEPT !.flagged = FALSE] ELSE box
MarkDeleted  == IF Present THEN [box EXCEPT !.src = "deleted"] ELSE box
\* A copy of a deleted message is deleted too.
CopyOver     == IF box.src = "live" THEN [box EXCEPT !.copies = @ + 1] ELSE box
MoveOver     == IF Present THEN [CopyOver EXCEPT !.src = "gone"] ELSE box

\* A command that leaves the message as `new` and, when it is the last one of the change,
\* carries the change out. It succeeds, is refused, or the connection breaks before or
\* after it took effect.
Takes(new, final) ==
    /\ box' = new
    /\ carried' = IF final THEN carried \cup {Current} ELSE carried
    /\ lastSeen' = IF new.seen # box.seen \/ (final /\ kind[Current] \in {"read", "unread"})
                   THEN Current ELSE lastSeen

NoEffect == UNCHANGED <<box, carried, lastSeen>>

Succeeds(new, final) == conn /\ Takes(new, final) /\ UNCHANGED conn

CommandFails(new, final) ==
    \/ "refuse" \in faults /\ conn /\ NoEffect /\ UNCHANGED conn
    \/ "network" \in faults /\ conn /\ conn' = FALSE /\ (NoEffect \/ Takes(new, final))
    \/ ~ conn /\ NoEffect /\ UNCHANGED conn

\* One exchange with the server, and where it leads.
Command(stage, new, final, then, otherwise) ==
    /\ pc = stage
    /\ \/ Succeeds(new, final) /\ pc' = then
       \/ CommandFails(new, final) /\ pc' = otherwise
    /\ UNCHANGED <<world, made, kind, rows, todo, readCount, restarts, attempts>>

-----------------------------------------------------------------------------
(***************************************************************************)
(* Broken variants, not part of Next.                                       *)
(***************************************************************************)

\* The error of the COPY is not noticed.
CopyIgnoringErrors == Command("copy", CopyOver, FALSE, "store", "store")

\* The bound is compared with >, not >=.
FailWriteLate ==
    /\ pc = "failWrite"
    /\ status' = [status EXCEPT ![Current] =
            IF readCount > MaxRetries THEN "failed" ELSE "pending"]
    /\ retries' = [retries EXCEPT ![Current] = readCount]
    /\ NextRow
    /\ UNCHANGED <<world, made, kind, conn, readCount, restarts, box, history>>

\* The outcome of a failed attempt is only logged.
FailWriteNothing ==
    /\ pc = "failWrite"
    /\ NextRow
    /\ UNCHANGED <<world, made, kind, rows, conn, readCount, restarts, box, history>>


-----------------------------------------------------------------------------
\* A change is made: enqueue_mutation, of a new row.
Make(k) ==
    /\ made < limit
    /\ made' = made + 1
    /\ kind' = [kind EXCEPT ![made + 1] = k]
    /\ status' = [status EXCEPT ![made + 1] = "pending"]
    /\ UNCHANGED <<world, retries, worker, restarts, box, history>>

\* Between two IDLEs the worker reads what is pending.
Pass ==
    /\ pc = "idle"
    /\ Pending # {}
    /\ pc' = "mark"
    /\ todo' = Oldest(Pending)
    /\ UNCHANGED <<world, made, kind, rows, conn, readCount, restarts, box, history>>

Mark ==
    /\ pc = "mark"
    /\ status' = [status EXCEPT ![Current] = "in_flight"]
    /\ pc' = "folder"
    /\ UNCHANGED <<world, made, kind, retries, todo, conn, readCount, restarts, box, history>>

\* Both folders are looked up; a change without UID needs none if it is about flags.
FindFolder ==
    /\ pc = "folder"
    /\ pc' = CASE kind[Current] = "bare" -> "complete"
               [] kind[Current] = "lost" -> "failRead"
               [] OTHER -> "select"
    /\ UNCHANGED <<world, made, kind, rows, todo, conn, readCount, restarts, box, history>>

\* SELECT of the folder of the message; its error ends the session.
Select ==
    /\ pc = "select"
    /\ \/ /\ conn
          /\ pc' = CASE kind[Current] \in {"read", "swap"} -> "add"
                     [] kind[Current] = "unread" -> "remove"
                     [] kind[Current] = "move" -> "move"
                     [] kind[Current] = "delete" -> "store"
          /\ UNCHANGED <<todo, conn>>
       \/ /\ ~ conn \/ "select" \in faults
          /\ Break
          /\ UNCHANGED conn
       \/ /\ conn /\ "network" \in faults
          /\ Break
          /\ conn' = FALSE
    /\ UNCHANGED <<world, made, kind, rows, readCount, restarts, box, history>>

Add == Command("add", AddSeen, kind[Current] = "read",
    IF kind[Current] = "swap" THEN "remove" ELSE "complete", "failRead")

Remove == Command("remove", IF kind[Current] = "swap" THEN RemoveFlag ELSE RemoveSeen, TRUE,
    "complete", "failRead")

\* Whatever goes wrong with UID MOVE, the message is copied and marked instead.
Move ==
    IF hasMove
    THEN Command("move", MoveOver, TRUE, "complete", "copy")
    ELSE /\ pc = "move"
         /\ pc' = "copy"
         /\ UNCHANGED <<world, made, kind, rows, todo, conn, readCount, restarts, box, history>>

Copy == Command("copy", CopyOver, FALSE, "store", "failRead")

\* STORE +FLAGS (\Deleted): the end of a move without MOVE, and all of a deletion.
Store == Command("store", MarkDeleted, TRUE, "complete", "failRead")

Complete ==
    /\ pc = "complete"
    /\ status' = [status EXCEPT ![Current] = "completed"]
    /\ NextRow
    /\ UNCHANGED <<world, made, kind, retries, conn, readCount, restarts, box, history>>

\* mark_mutation_failed reads the count, then writes count and status.
FailRead ==
    /\ pc = "failRead"
    /\ readCount' = retries[Current] + 1
    /\ attempts' = [attempts EXCEPT ![Current] = @ + 1]
    /\ pc' = "failWrite"
    /\ UNCHANGED <<world, made, kind, rows, todo, conn, restarts, box, carried, lastSeen>>

FailWrite ==
    /\ pc = "failWrite"
    /\ status' = [status EXCEPT ![Current] =
            IF readCount >= MaxRetries THEN "failed" ELSE "pending"]
    /\ retries' = [retries EXCEPT ![Current] = readCount]
    /\ NextRow
    /\ UNCHANGED <<world, made, kind, conn, readCount, restarts, box, history>>

\* A statement fails: the outcome of a failed attempt is dropped, any other ends the session.
StorageFails ==
    /\ "storage" \in faults
    /\ \/ pc \in {"mark", "folder", "complete"} /\ Break
       \/ pc \in {"failRead", "failWrite"} /\ NextRow
    /\ UNCHANGED <<world, made, kind, rows, conn, readCount, restarts, box, history>>

\* The worker connects anew; so does an idle one whose connection is gone.
Reconnect ==
    /\ pc = "broken" \/ (pc = "idle" /\ ~ conn)
    /\ pc' = "idle"
    /\ conn' = TRUE
    /\ UNCHANGED <<world, made, kind, rows, todo, readCount, restarts, box, history>>

Restart ==
    /\ "restart" \in faults
    /\ restarts < MaxRestarts
    /\ restarts' = restarts + 1
    /\ pc' = "idle"
    /\ todo' = {}
    /\ conn' = TRUE
    /\ UNCHANGED <<world, made, kind, rows, readCount, box, history>>

Work ==
    \/ Pass \/ Mark \/ FindFolder \/ Select
    \/ Add \/ Remove \/ Move \/ Copy \/ Store
    \/ Complete \/ FailRead \/ FailWrite \/ Reconnect

Next ==
    \/ \E k \in Kinds : Make(k)
    \/ Work
    \/ StorageFails
    \/ Restart

Spec == Init /\ [][Next]_vars

\* The worker runs, and IDLE ends at the latest with its heartbeat, after 28 minutes.
FairSpec == Spec /\ WF_vars(Work)

-----------------------------------------------------------------------------
Has(m, k) == m <= made /\ kind[m] = k

\* The message is neither lost nor multiplied: it stays where it was or has a copy, unless
\* it was to be deleted, and a second copy is made only after a move that failed or was
\* interrupted on its way (the fallback of move_message, and its retries).
NeitherLostNorMultiplied ==
    /\ box.src = "live" \/ box.copies > 0 \/ \E m \in Mutations : Has(m, "delete")
    /\ box.copies > 1 => \E m \in Mutations :
         Has(m, "move") /\ (attempts[m] > 0 \/ (status[m] = "in_flight" /\ m \notin todo))

\* When nothing goes wrong, changes take effect in the order in which they were made,
\* across batches: the message ends as its newest change says.
NewestWins ==
    faults = {} => \A m \in Mutations :
        status[m] = "completed" /\ kind[m] \in {"read", "unread"} /\ Present => lastSeen >= m

\* Commands may be refused, but the connection, the SELECTs and the disk work, and the
\* worker is not restarted.
OnlyRefusals == faults \subseteq {"refuse"}

\* What the table says of a finished change is true: a completed one has been carried out,
\* and one is given up after its third failure and not before; no failure is counted twice
\* and, as long as the disk works, none is forgotten (mark_mutation_failed).
OutcomeIsTrue ==
    \A m \in Mutations :
        /\ status[m] = "completed" /\ kind[m] # "bare" => m \in carried
        /\ status[m] = "failed" => attempts[m] >= MaxRetries
        /\ OnlyRefusals => attempts[m] <= MaxRetries

\* Under the same conditions every change comes to an end.
ChangesSettle ==
    OnlyRefusals => \A m \in Mutations :
        status[m] = "pending" ~> status[m] \in {"completed", "failed"}

-----------------------------------------------------------------------------
\* What a status tells the user: a row that waits and one in flight are "on its way".
Told(s) ==
    CASE s = "absent" -> "none"
      [] s \in {"pending", "in_flight"} -> "waiting"
      [] s = "completed" -> "done"
      [] OTHER -> s

Promise == INSTANCE ChangeQueue WITH
    Changes  <- Mutations,
    Patience <- MaxRetries,
    orderly  <- OnlyRefusals,
    told     <- [m \in Mutations |-> Told(status[m])],
    done     <- carried \cup {m \in Mutations : Has(m, "bare")},
    tries    <- attempts

\* The table, the batches and the commands implement the queue of changes (peek, mark,
\* carry out, record): an end is final and true, and while commands are at worst refused a
\* change takes effect once, is tried no more than it should, and older ones come first.
ImplementsChangeQueue == Promise!ChangeSpec
=============================================================================
