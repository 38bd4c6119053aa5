--------------------------- MODULE ImapConnection ---------------------------
(***************************************************************************)
(* The commands of an IMAP session and what the client makes of the         *)
(* replies: the loop of ImapConnection::execute, literals, and the line     *)
(* parser as far as it decides what is taken for what.                      *)
(*                                                                          *)
(* What comes over the wire is a sequence of lines. A literal is a number   *)
(* of lines of any content, announced at the end of another line; a message *)
(* may well quote a whole IMAP session.                                     *)
(***************************************************************************)
EXTENDS Integers, Sequences, SequencesExt

CONSTANTS
    Scripts,    \* sequences of commands: "list", "select", "fetch", "store"
    Characters,
    Mailboxes,  \* names on the server, as sequences of characters
    Texts,      \* messages, as sequences of lines
    MaxFetch,   \* messages in one answer (bound of the model)
    Habits      \* what the server may do: "refuse" (a command), "close" (the connection),
                \* "chatter" (lines nobody asked for), "late" (a UID that follows its
                \* message), "inline" (a message without a literal), "literal" (a name as one)

Commands == {"list", "select", "fetch", "store"}

DQuote == "\""
Backslash == "\\"

\* A line, as far as the parser tells lines apart; it announces "literal" lines.
Line ==
    [kind : {"none", "tagged", "fetch", "list", "status", "exists", "continuation", "text", "rest"},
     tag : Nat, ok : BOOLEAN, uid : Nat, inline : BOOLEAN, literal : Nat,
     name : Seq(Characters), form : {"none", "quoted", "atom", "literal"},
     of : Seq(Characters)]

\* A session is opened to send commands, and a message has a line at least.
ASSUME ImapConnectionAssumption ==
    /\ Scripts \subseteq Seq(Commands) \ {<<>>}
    /\ {DQuote, Backslash} \subseteq Characters
    /\ Mailboxes \subseteq Seq(Characters) /\ IsFiniteSet(Mailboxes)
    /\ Texts \subseteq Seq(Line) \ {<<>>}
    /\ MaxFetch \in Nat
    /\ Habits \subseteq {"refuse", "close", "chatter", "late", "inline", "literal"}

-----------------------------------------------------------------------------
(***************************************************************************)
(* Lines. A line of a message is a line like any other.                     *)
(***************************************************************************)
Piece(kind) ==
    [kind |-> kind, tag |-> 0, ok |-> FALSE, uid |-> 0, inline |-> FALSE, literal |-> 0,
     name |-> <<>>, form |-> "none", of |-> <<>>]

Tagged(k, ok) == [Piece("tagged") EXCEPT !.tag = k, !.ok = ok]
Fetch(uid, n) == [Piece("fetch") EXCEPT !.uid = uid, !.literal = n]
FetchInline(uid) == [Piece("fetch") EXCEPT !.uid = uid, !.inline = TRUE]

\* Broken: quotes and backslashes are sent as they are.
QuoteNothing(name) == name

\* escape_quote, and what the other side makes of a quoted string.
Quote(name) ==
    FlattenSeq([k \in DOMAIN name |->
        IF name[k] \in {DQuote, Backslash} THEN <<Backslash, name[k]>> ELSE <<name[k]>>])

Unquote(text) ==
    LET read[k \in 0..Len(text)] ==
            IF k = 0 THEN [name |-> <<>>, escape |-> FALSE]
            ELSE IF text[k] = Backslash /\ ~ read[k - 1].escape
                 THEN [name |-> read[k - 1].name, escape |-> TRUE]
                 ELSE [name |-> Append(read[k - 1].name, text[k]), escape |-> FALSE]
    IN read[Len(text)].name

\* A line of LIST: a name that is quoted, an atom or a literal.
Listed(name, form) ==
    [Piece("list") EXCEPT !.of = name, !.form = form,
                          !.name = IF form = "quoted" THEN Quote(name) ELSE name,
                          !.literal = IF form = "literal" THEN 1 ELSE 0]

\* parse_quoted_string stops at the first quote, escaped or not, and undoes no escape;
\* an atom that begins with NIL is taken for NIL, the empty name.
ParseName(line) ==
    IF line.form = "quoted"
    THEN LET stop == SelectInSeq(line.name, LAMBDA c : c = DQuote)
         IN IF stop = 0 THEN line.name ELSE SubSeq(line.name, 1, stop - 1)
    ELSE IF line.name # <<>> /\ line.name[1] = "NIL" THEN <<>>
    ELSE line.name

\* A name that is a literal is none of the forms the parser knows: the line is dropped.
NamesFolder(line) == line.kind = "list" /\ line.form \in {"quoted", "atom"}

-----------------------------------------------------------------------------
VARIABLES
    script,
    at,         \* the command the client is at; its tag
    pc,         \* "write", "read", "literal" or "ended"
    held,       \* the line whose literal is being read
    got,        \* untagged responses to the command so far
    outcome,    \* of each command: "none", "ok", "failed" or "broken"
    fetched,    \* the messages each command has brought in
    folders,    \* names in the table, each with the mailbox it stands for (history)
    opened,     \* the folder whose mailbox the client has selected, as far as it knows
    wire,       \* lines written by the server and not read
    owed,       \* the command the server has to answer, or ""
    wanted,     \* the text of the argument of SELECT
    mailbox,    \* the mailbox selected on the server: a set of at most one
    answered,   \* history: how the server answered each command
    served,     \* history: the messages in its answers
    spelled,    \* history: the names it has sent as literals
    closed      \* the server has closed the connection

client == <<at, pc, held, got, outcome, fetched, folders, opened>>
server == <<wire, owed, wanted, mailbox, answered, served, spelled, closed>>
vars   == <<script, client, server>>

Tags == DOMAIN script

TypeOK ==
    /\ script \in Scripts
    /\ at \in 1..(Len(script) + 1)
    /\ pc \in {"write", "read", "literal", "ended"}
    /\ pc \in {"write", "read", "literal"} => at \in Tags
    /\ outcome \in [Tags -> {"none", "ok", "failed", "broken"}]
    /\ answered \in [Tags -> {"none", "ok", "failed"}]
    /\ \A f \in folders \cup opened : f.of \in Mailboxes
    /\ owed \in Commands \cup {""}
    /\ mailbox \subseteq Mailboxes /\ spelled \subseteq Mailboxes
    /\ closed \in BOOLEAN

Init ==
    /\ script \in Scripts
    /\ at = 1 /\ pc = "write" /\ held = Piece("none") /\ got = <<>>
    /\ outcome = [k \in Tags |-> "none"]
    /\ fetched = [k \in Tags |-> <<>>]
    /\ folders = {} /\ opened = {}
    /\ wire = <<>> /\ owed = "" /\ wanted = <<>> /\ mailbox = {}
    /\ answered = [k \in Tags |-> "none"]
    /\ served = [k \in Tags |-> <<>>]
    /\ spelled = {}
    /\ closed = FALSE

-----------------------------------------------------------------------------
(***************************************************************************)
(* Broken variants, not part of Next.                                       *)
(***************************************************************************)

\* The message is read as lines.
ReadLiteralAsLines ==
    /\ pc = "literal"
    /\ pc' = "read"
    /\ got' = Append(got, [line |-> held, body |-> {<<>>}])
    /\ UNCHANGED <<script, at, held, outcome, fetched, folders, opened, server>>

\* A fetch of flags counts as a message.
FetchedAny(m) == m.uid # 0

\* The end of the connection is noticed between lines only.
BreaksBetween == closed /\ (pc = "write" \/ (pc = "read" /\ wire = <<>>))

-----------------------------------------------------------------------------
(***************************************************************************)
(* The client.                                                              *)
(***************************************************************************)

\* A command with the next tag; a folder is selected by the name in the table.
Write ==
    /\ pc = "write"
    /\ ~ closed
    /\ pc' = "read"
    /\ got' = <<>>
    /\ owed' = script[at]
    /\ IF script[at] = "select"
       THEN \E f \in folders : wanted' = Quote(f.name) /\ opened' = {f}
       ELSE UNCHANGED <<wanted, opened>>
    /\ UNCHANGED <<script, at, held, outcome, fetched, folders, wire, mailbox, answered,
                   served, spelled, closed>>

\* The next command, if there is one: an error of a change to a message is recorded and
\* the session goes on, any other ends it.
GoOn(result) ==
    /\ outcome' = [outcome EXCEPT ![at] = result]
    /\ at' = at + 1
    /\ pc' = IF \/ at = Len(script)
                \/ result = "broken"
                \/ result = "failed" /\ script[at] # "store"
                \/ script[at] = "list" /\ folders' = {}
             THEN "ended" ELSE "write"

\* sync_folder stores what has a UID and a body.
IsMessage(m) == m.uid # 0 /\ m.body # {}

Messages(responses) ==
    FlattenSeq([k \in DOMAIN responses |->
        LET m == [uid |-> responses[k].line.uid, body |-> responses[k].body]
        IN IF IsMessage(m) THEN <<m>> ELSE <<>>])

\* What the callers take from the untagged responses of a command that has succeeded:
\* list_folders the names, sync_folder the messages that have a UID and a body.
Take(result) ==
    /\ folders' = IF script[at] = "list" /\ result = "ok"
                  THEN {[name |-> ParseName(got[k].line), of |-> got[k].line.of] :
                            k \in {j \in DOMAIN got : NamesFolder(got[j].line)}}
                  ELSE folders
    /\ fetched' = IF script[at] = "fetch" /\ result = "ok"
                  THEN [fetched EXCEPT ![at] = Messages(got)]
                  ELSE fetched

\* A line without a literal, or with one that is no message.
Handle(line) ==
    IF line.kind = "tagged" /\ line.tag = at
    THEN LET result == IF line.ok THEN "ok" ELSE "failed"
         IN Take(result) /\ GoOn(result) /\ UNCHANGED got
    ELSE /\ pc' = "read"
         /\ got' = IF line.kind \in {"fetch", "list"}
                   THEN Append(got, [line |-> line, body |-> {}]) ELSE got
         /\ UNCHANGED <<at, outcome, fetched, folders>>

ReadLine ==
    /\ pc = "read"
    /\ wire # <<>>
    /\ wire' = Tail(wire)
    /\ IF Head(wire).literal > 0
       THEN /\ pc' = "literal"
            /\ held' = Head(wire)
            /\ UNCHANGED <<at, got, outcome, fetched, folders>>
       ELSE Handle(Head(wire)) /\ UNCHANGED held
    /\ UNCHANGED <<script, opened, owed, wanted, mailbox, answered, served, spelled,
                   closed>>

\* The lines of the literal, whatever they look like, and the rest of the line that
\* announced it, which is dropped.
ReadLiteral ==
    LET n == held.literal
    IN /\ pc = "literal"
       /\ Len(wire) > n \/ (closed /\ Len(wire) = n)
       /\ wire' = SubSeq(wire, n + 2, Len(wire))
       /\ IF held.kind = "fetch"
          THEN /\ pc' = "read"
               /\ got' = Append(got, [line |-> held, body |-> {SubSeq(wire, 1, n)}])
               /\ UNCHANGED <<at, outcome, fetched, folders>>
          ELSE Handle(held)
       /\ UNCHANGED <<script, held, opened, owed, wanted, mailbox, answered, served, spelled,
                   closed>>

\* The command cannot be written, or the connection ends before its reply.
Breaks ==
    /\ closed
    /\ \/ pc = "write"
       \/ pc = "read" /\ wire = <<>>
       \/ pc = "literal" /\ Len(wire) < held.literal

Broken ==
    /\ Breaks
    /\ UNCHANGED folders
    /\ GoOn("broken")
    /\ UNCHANGED <<script, held, got, fetched, opened, server>>

-----------------------------------------------------------------------------
(***************************************************************************)
(* The server. It answers a command at once, in lines the client reads as   *)
(* it likes.                                                                *)
(***************************************************************************)
Reply(lines, ok) ==
    /\ wire' = wire \o Append(lines, Tagged(at, ok))
    /\ owed' = ""
    /\ answered' = [answered EXCEPT ![at] = IF ok THEN "ok" ELSE "failed"]
    /\ UNCHANGED <<script, client, wanted, closed>>

Forms(name) ==
    {"quoted"}
        \cup (IF \A k \in DOMAIN name : name[k] \notin {DQuote, Backslash, " "}
              THEN {"atom"} ELSE {})
        \cup (Habits \cap {"literal"})

\* A literal is followed by the rest of its line.
List ==
    /\ owed = "list"
    /\ \E form \in [Mailboxes -> {"quoted", "atom", "literal"}] :
        /\ \A b \in Mailboxes : form[b] \in Forms(b)
        /\ Reply(FlattenSeq([k \in DOMAIN SetToSeq(Mailboxes) |->
                    LET b == SetToSeq(Mailboxes)[k]
                    IN IF form[b] = "literal"
                       THEN <<Listed(b, "literal"), Piece("text"), Piece("text")>>
                       ELSE <<Listed(b, form[b])>>]), TRUE)
        /\ spelled' = {b \in Mailboxes : form[b] = "literal"}
    /\ UNCHANGED <<mailbox, served>>

\* A mailbox that does not exist leaves none selected.
Select ==
    /\ owed = "select"
    /\ LET b == Unquote(wanted)
       IN /\ mailbox' = {b} \cap Mailboxes
          /\ Reply(<<Piece("status")>>, b \in Mailboxes)
    /\ UNCHANGED <<served, spelled>>

\* How a server may send a message: UID before the text or after it, or no literal.
Ways == {"literal"} \cup (Habits \cap {"late", "inline"})

Sent(uid, way, text) ==
    CASE way = "literal" -> <<Fetch(uid, Len(text))>> \o text \o <<Piece("rest")>>
      [] way = "late" -> <<Fetch(0, Len(text))>> \o text \o <<Piece("rest")>>
      [] way = "inline" -> <<FetchInline(uid)>>

FetchMessages ==
    /\ owed = "fetch" /\ mailbox # {}
    /\ \E n \in 0..MaxFetch :
        \E text \in [1..n -> Texts], way \in [1..n -> Ways] :
            /\ served' = [served EXCEPT ![at] =
                            [k \in 1..n |-> [uid |-> k, way |-> way[k], body |-> {text[k]}]]]
            /\ Reply(FlattenSeq([k \in 1..n |-> Sent(k, way[k], text[k])]), TRUE)
    /\ UNCHANGED <<mailbox, spelled>>

\* The new flags of the message are sent along.
Store ==
    /\ owed = "store" /\ mailbox # {}
    /\ Reply(<<Fetch(1, 0)>>, TRUE)
    /\ UNCHANGED <<mailbox, served, spelled>>

Refuse ==
    /\ owed # ""
    /\ "refuse" \in Habits \/ (owed \in {"fetch", "store"} /\ mailbox = {})
    /\ mailbox' = IF owed = "select" THEN {} ELSE mailbox
    /\ Reply(<<>>, FALSE)
    /\ UNCHANGED <<served, spelled>>

\* Lines nobody has asked for: flags changed elsewhere, a count, a continuation.
Chatter ==
    /\ "chatter" \in Habits
    /\ owed # "" /\ wire = <<>> /\ got = <<>>
    /\ \E line \in {Fetch(2, 0), Piece("exists"), Piece("continuation")} : wire' = <<line>>
    /\ UNCHANGED <<script, client, owed, wanted, mailbox, answered, served, spelled,
                   closed>>

\* The connection ends; what was on its way may be cut anywhere.
Close ==
    /\ "close" \in Habits
    /\ ~ closed
    /\ closed' = TRUE
    /\ owed' = ""
    /\ \E n \in 0..Len(wire) : wire' = SubSeq(wire, 1, n)
    /\ UNCHANGED <<script, client, wanted, mailbox, answered, served, spelled>>

Client == Write \/ ReadLine \/ ReadLiteral \/ Broken

Answer == List \/ Select \/ FetchMessages \/ Store \/ Refuse

Next == Client \/ Answer \/ Chatter \/ Close

Spec == Init /\ [][Next]_vars

\* The client is scheduled and the server answers, or the connection ends.
FairSpec == Spec /\ WF_vars(Client) /\ WF_vars(Answer)

-----------------------------------------------------------------------------
\* Whatever a message quotes and whatever is said in between, an outcome is the answer to
\* the command it is noted for (ImapConnection::execute).
OutcomeIsTheAnswer ==
    \A k \in Tags : outcome[k] \in {"none", "broken", answered[k]}

\* A fetch that has succeeded has brought in the messages the server sent, whole, in their
\* order, under their UIDs, and nothing else: neither flags nor what a message quotes. It
\* passes over a message that is not a literal or whose UID comes after it.
FetchIsExact ==
    \A k \in Tags :
        script[k] = "fetch" /\ outcome[k] = "ok" =>
            fetched[k] = FlattenSeq([j \in DOMAIN served[k] |->
                LET m == served[k][j]
                IN IF m.way = "literal" THEN <<[uid |-> m.uid, body |-> m.body]>> ELSE <<>>])

\* A name that comes back as it was sent.
Plain(name) ==
    /\ \A k \in DOMAIN name : name[k] \notin {DQuote, Backslash}
    /\ name = <<>> \/ name[1] # "NIL"

\* Such a command has been sent since the answer to k.
Since(k, command) ==
    \E j \in Tags :
        j > k /\ script[j] = command /\ (j < at \/ (j = at /\ pc \in {"read", "literal"}))

\* A folder goes to the server under the name it has in the table, and one with a plain
\* name is listed and selected as the mailbox it stands for; so messages of one mailbox do
\* not end up in the folder of another (parse_quoted_string, escape_quote).
FoldersAreMailboxes ==
    /\ \A k \in Tags : script[k] = "list" /\ outcome[k] = "ok" /\ ~ Since(k, "list") =>
        \A b \in Mailboxes :
            Plain(b) => b \in spelled \/ [name |-> b, of |-> b] \in folders
    /\ \A f \in opened : Unquote(wanted) = f.name
    /\ \A k \in Tags : script[k] = "fetch" /\ outcome[k] = "ok" /\ ~ Since(k, "select") =>
        \A f \in opened : Plain(f.of) => mailbox = {f.of}

\* Every session ends, with a connection that is cut inside a message too.
SessionEnds == <>(pc = "ended")
=============================================================================
