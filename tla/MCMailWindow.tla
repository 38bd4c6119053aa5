----------------------------- MODULE MCMailWindow -----------------------------
(* A small instance of the main window and the composer. *)
EXTENDS Composer, TLC

CONSTANTS home, work, homeInbox, homeOld, workInbox, m1, m2

\* Two accounts, one of them with a second folder, and a message in each folder of that one.
OwnerOfFolder == homeInbox :> home @@ homeOld :> home @@ workInbox :> work
TwoInFolders == m1 :> homeInbox @@ m2 :> homeOld

\* A user who clicks fast; one who waits while tasks overtake each other; one who sets
\* flags; tasks that fail; mail that arrives faster than the relay tells of it; a user who
\* writes and answers. A ring of four holds the events of all the mail.
MCSettings ==
    {[known |-> Folders, uses |-> {"navigate", "search", "flags", "delete"}, patient |-> FALSE,
      inOrder |-> TRUE, faults |-> {}, ring |-> 4, clicks |-> 2, mail |-> 2, strokes |-> 0],
     [known |-> Inboxes, uses |-> {"navigate", "search", "delete", "refresh"}, patient |-> TRUE,
      inOrder |-> FALSE, faults |-> {}, ring |-> 4, clicks |-> 3, mail |-> 2, strokes |-> 0],
     [known |-> Folders, uses |-> {"navigate", "flags", "delete"}, patient |-> TRUE,
      inOrder |-> TRUE, faults |-> {}, ring |-> 4, clicks |-> 4, mail |-> 2, strokes |-> 0],
     [known |-> Folders, uses |-> {"navigate", "delete"}, patient |-> FALSE,
      inOrder |-> TRUE, faults |-> {"db"}, ring |-> 4, clicks |-> 2, mail |-> 2, strokes |-> 0],
     [known |-> Folders, uses |-> {"navigate"}, patient |-> FALSE,
      inOrder |-> TRUE, faults |-> {}, ring |-> 2, clicks |-> 1, mail |-> 2, strokes |-> 0],
     [known |-> Folders, uses |-> {"navigate"}, patient |-> TRUE,
      inOrder |-> FALSE, faults |-> {}, ring |-> 2, clicks |-> 2, mail |-> 1, strokes |-> 3],
     [known |-> Inboxes, uses |-> {"navigate"}, patient |-> TRUE,
      inOrder |-> TRUE, faults |-> {}, ring |-> 2, clicks |-> 1, mail |-> 1, strokes |-> 5]}
=============================================================================
