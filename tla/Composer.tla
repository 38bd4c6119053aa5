------------------------------- MODULE Composer -------------------------------
(***************************************************************************)
(* The window in which a message is written, beside the main window.        *)
(*                                                                          *)
(* There is one set of fields. To cancel, or to close the window, hides     *)
(* them; only a message that is sent clears them. A message leaves from the *)
(* account that is selected when it is sent, and the main window can be     *)
(* used meanwhile. Of a field the model keeps for which message, counted    *)
(* from one, its text was written: 0 stands for an empty field.             *)
(***************************************************************************)
EXTENDS MailWindow

\* Every setting has, besides,
\*   strokes  how often the user clicks or writes in the composer (bound of the model)
ASSUME ComposerAssumption == \A s \in Settings : s.strokes \in Nat

VARIABLES
    show, to, text, copies, attachments,
    \* the messages handed to a task that saves them, to be sent or as a draft
    letters,
    \* bound, and history: the message being written, what it answers or forwards, and the
    \* account that was selected when it was begun
    strokes, begun

fields == <<to, text, copies, attachments>>
composing == <<show, fields, letters, strokes, begun>>
window == <<setting, db, shown, tasks, answers, news, supervisor, histories>>

Written == 0..begun.nr
Begun == [nr : Nat, kind : {"new", "reply", "forward"}, of : Messages \cup {None},
          at : Accounts \cup {None}]
Letter(queued) ==
    [begun |-> begun, queued |-> queued, from |-> account, to |-> to, text |-> text,
     copies |-> IF queued THEN copies ELSE 0, attachments |-> IF queued THEN attachments ELSE {}]

ComposerTypeOK ==
    /\ show \in BOOLEAN
    /\ to \in Written /\ text \in Written /\ copies \in Written
    /\ attachments \subseteq Written \ {0}
    /\ \A l \in letters : l.begun \in Begun /\ l.from \in Accounts
    /\ strokes \in 0..setting.strokes
    /\ begun \in Begun

ComposerInit ==
    /\ Init
    /\ show = FALSE
    /\ to = 0 /\ text = 0 /\ copies = 0 /\ attachments = {}
    /\ letters = {} /\ strokes = 0
    /\ begun = [nr |-> 0, kind |-> "new", of |-> None, at |-> None]

\* The user clicks or writes.
Stroke ==
    /\ strokes < setting.strokes
    /\ strokes' = strokes + 1
    /\ setting.patient => tasks = <<>> /\ answers = <<>>
    /\ awake' = TRUE
    /\ UNCHANGED window

Begin(kind, of) ==
    /\ Stroke
    /\ show' = TRUE
    /\ begun' = [nr |-> begun.nr + 1, kind |-> kind, of |-> of, at |-> account]
    /\ UNCHANGED letters

\* The fields are those of the message that was cancelled, if one was.
Compose ==
    /\ Begin("new", None)
    /\ ~show
    /\ UNCHANGED fields

\* The copies and the attachments are those of the message that was cancelled.
Reply(e) ==
    /\ e \in detail
    /\ Begin("reply", e.id)
    /\ to' = begun'.nr /\ text' = begun'.nr
    /\ UNCHANGED <<copies, attachments>>

Forward(e) ==
    /\ e \in detail
    /\ Begin("forward", e.id)
    /\ to' = 0 /\ text' = begun'.nr
    /\ UNCHANGED <<copies, attachments>>

Edit == Stroke /\ show /\ UNCHANGED <<show, letters, begun>>

WriteTo     == Edit /\ to' = begun.nr /\ UNCHANGED <<text, copies, attachments>>
WriteText   == Edit /\ text' = begun.nr /\ UNCHANGED <<to, copies, attachments>>
WriteCopies == Edit /\ copies' = begun.nr /\ UNCHANGED <<to, text, attachments>>

PickAttachment ==
    Edit /\ attachments' = attachments \cup {begun.nr} /\ UNCHANGED <<to, text, copies>>
RemoveAttachment(n) ==
    Edit /\ n \in attachments /\ attachments' = attachments \ {n} /\ UNCHANGED <<to, text, copies>>

HandOver(queued) ==
    /\ Stroke
    /\ show
    /\ account # None
    /\ letters' = letters \cup {Letter(queued)}

\* Broken variant, not part of ComposerNext: the copies are not cleared.
SendKeepingCopies ==
    /\ HandOver(TRUE)
    /\ show' = FALSE
    /\ to' = 0 /\ text' = 0 /\ attachments' = {}
    /\ UNCHANGED <<copies, begun>>

\* The fields are cleared whether or not the message will be saved.
Send ==
    /\ HandOver(TRUE)
    /\ show' = FALSE
    /\ to' = 0 /\ text' = 0 /\ copies' = 0 /\ attachments' = {}
    /\ UNCHANGED begun

\* A row of its own each time, without copies and attachments; the composer stays open.
SaveDraft ==
    /\ HandOver(FALSE)
    /\ UNCHANGED <<show, fields, begun>>

Cancel ==
    /\ Stroke
    /\ show
    /\ show' = FALSE
    /\ UNCHANGED <<fields, letters, begun>>

Write == WriteTo \/ WriteText \/ WriteCopies \/ PickAttachment \/ \E n \in Written : RemoveAttachment(n)

ComposerNext ==
    \/ Next /\ UNCHANGED composing
    \/ Compose
    \/ \E e \in Entries : Reply(e) \/ Forward(e)
    \/ Write \/ Send \/ SaveDraft \/ Cancel

ComposerSpec == ComposerInit /\ [][ComposerNext]_<<vars, composing>>

\* As in FairSpec; nobody has to write or send.
ComposerFairSpec ==
    /\ ComposerSpec
    /\ WF_vars(Work) /\ WF_vars(Draw) /\ WF_vars(Supervisor)
    /\ WF_vars(Touch)

-----------------------------------------------------------------------------
(***************************************************************************)
(* Properties.                                                              *)
(***************************************************************************)

Sent == {l \in letters : l.queued}
Parts(l) == ({l.to, l.text, l.copies} \cup l.attachments) \ {0}

\* Nothing that was written for one message and sent with it goes out with another: no text,
\* no attachment and no hidden recipient. And an answer does not go to the recipients of a
\* message that was cancelled, though its copies may (ComposerAction::Send, Reply, Forward).
NothingSentTwice ==
    /\ \A k, l \in Sent : k # l => Parts(k) \cap Parts(l) = {}
    /\ \A l \in Sent : l.begun.kind = "reply" => {l.to, l.text} = {l.begun.nr}
    /\ \A l \in Sent : l.begun.kind = "forward" => l.to \in {0, l.begun.nr}

\* If the user waits for each answer and no task fails: an answer that is sent while the
\* account is selected that was when it was begun leaves from the account whose mail it
\* answers, in whatever order tasks end (selected_account).
AnswersFromOwnAccount ==
    setting.patient /\ setting.faults = {} =>
        \A l \in letters : l.begun.of # None /\ l.from = l.begun.at => l.from = Owner[In[l.begun.of]]
=============================================================================
