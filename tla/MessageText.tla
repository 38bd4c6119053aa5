----------------------------- MODULE MessageText -----------------------------
(***************************************************************************)
(* From a row of the outbox to the text a mail server takes: the MIME       *)
(* structure MimeBuilder writes and the dot-stuffing of send_mail.          *)
(*                                                                          *)
(* A text is a sequence of lines; of a line only its leading dots matter to *)
(* SMTP and only what it is (header, boundary, blank, content) to a reader. *)
(***************************************************************************)
EXTENDS Naturals, Sequences, SequencesExt

Line(dots, rest) == [dots |-> dots, rest |-> rest]

\* What both sides take for granted of a text.
IsText(lines) ==
    /\ Len(lines) \in Nat
    /\ lines = [k \in 1..Len(lines) |-> Line(lines[k].dots, lines[k].rest)]
    /\ \A k \in 1..Len(lines) : lines[k].dots \in Nat

Blank == Line(0, <<"">>)
Header(name, value) == Line(0, <<name, value>>)
Delimiter(boundary) == Line(0, <<"--", boundary>>)
FinalDelimiter(boundary) == Line(0, <<"--", boundary, "--">>)
Marks(boundary) == {Delimiter(boundary), FinalDelimiter(boundary)}
EndOfData == Line(1, <<"">>)

\* What the builder is given is a text without its boundaries: each has a new UUID in it.
IsContent(lines) ==
    /\ IsText(lines)
    /\ \A k \in 1..Len(lines) : lines[k] \notin Marks("alternative") \cup Marks("mixed")

\* All of them get a copy: To, Cc and Bcc.
Recipients(m) == m.to \o m.cc \o m.bcc

RecipientHeaders(m) ==
    (IF m.to # <<>> THEN <<Header("To", m.to)>> ELSE <<>>)
        \o (IF m.cc # <<>> THEN <<Header("Cc", m.cc)>> ELSE <<>>)

\* A text that is missing is written as an empty line.
Part(type, lines) ==
    <<Header("Content-Type", type), Blank>> \o (IF lines = <<>> THEN <<Blank>> ELSE lines)

Multipart(boundary) == <<Header("Multipart", boundary), Blank>>

Content(m) ==
    IF m.text # <<>> /\ m.html # <<>>
    THEN Multipart("alternative")
            \o <<Delimiter("alternative")>> \o Part("plain", m.text)
            \o <<Delimiter("alternative")>> \o Part("html", m.html)
            \o <<FinalDelimiter("alternative")>>
    ELSE IF m.html # <<>> THEN Part("html", m.html)
    ELSE Part("plain", m.text)

\* A file is the sequence of its base64 lines, none of which begins with a dot.
File(f) == <<Delimiter("mixed"), Header("Content-Type", "file"), Blank>> \o f

Build(m) ==
    RecipientHeaders(m) \o <<Header("Subject", m.subject)>> \o
        IF m.files = <<>> THEN Content(m)
        ELSE Multipart("mixed") \o <<Delimiter("mixed")>> \o Content(m)
                \o FlattenSeq([k \in DOMAIN m.files |-> File(m.files[k])])
                \o <<FinalDelimiter("mixed")>>

\* Broken variant: lines are sent as they are.
StuffNothing(lines) == Append(lines, EndOfData)

\* What is written after the reply to DATA.
Stuff(lines) ==
    Append([k \in DOMAIN lines |->
                IF lines[k].dots > 0 THEN Line(lines[k].dots + 1, lines[k].rest) ELSE lines[k]],
           EndOfData)

-----------------------------------------------------------------------------
(***************************************************************************)
(* What a server and a reader of mail make of it (RFC 5321, 2046): the data *)
(* end with the first line that is a single dot, and what follows is taken  *)
(* for commands.                                                            *)
(***************************************************************************)
DataEnd(data) == SelectInSeq(data, LAMBDA line : line = EndOfData)

Received(data) ==
    [k \in 1..(DataEnd(data) - 1) |->
        IF data[k].dots > 0 THEN Line(data[k].dots - 1, data[k].rest) ELSE data[k]]

Beyond(data) == SubSeq(data, DataEnd(data) + 1, Len(data))

HeaderEnd(lines) == SelectInSeq(lines, LAMBDA line : line = Blank)
HeadersOf(lines) == ToSet(SubSeq(lines, 1, HeaderEnd(lines) - 1))
BodyOf(lines) == SubSeq(lines, HeaderEnd(lines) + 1, Len(lines))

\* The elements of a finite set of numbers from the least to the greatest.
InOrder(S) ==
    CHOOSE f \in [1..Cardinality(S) -> S] :
        /\ \A i, j \in 1..Cardinality(S) : i < j => f[i] < f[j]
        /\ \A e \in S : \E i \in 1..Cardinality(S) : f[i] = e

\* What lies between one mark and the next.
Split(body, marks) ==
    LET at == InOrder({k \in DOMAIN body : body[k] \in marks})
    IN [k \in 1..(Len(at) - 1) |-> SubSeq(body, at[k] + 1, at[k + 1] - 1)]

\* The parts of a multipart text; any other text is its only part.
Parts(lines) ==
    LET types == {h \in HeadersOf(lines) : h.rest[1] = "Multipart"}
    IN IF types = {} THEN <<lines>>
       ELSE Split(BodyOf(lines), Marks((CHOOSE h \in types : TRUE).rest[2]))

\* The innermost parts: the builder nests two levels.
Leaves(lines) == FlattenSeq([k \in DOMAIN Parts(lines) |-> Parts(Parts(lines)[k])])

TypeOf(part) == (CHOOSE h \in HeadersOf(part) : h.rest[1] = "Content-Type").rest[2]

Read(lines) ==
    [shown |-> {h \in HeadersOf(lines) : h.rest[1] \in {"To", "Cc", "Bcc", "Subject"}},
     parts |-> [k \in DOMAIN Leaves(lines) |->
                    <<TypeOf(Leaves(lines)[k]), BodyOf(Leaves(lines)[k])>>]]

\* What the reader of m should see: a plain text, if only an empty one, unless there is
\* HTML alone, then the HTML, then the files; and of the recipients those not hidden.
Intended(m) ==
    [shown |-> {Header("Subject", m.subject)}
                    \cup (IF m.to # <<>> THEN {Header("To", m.to)} ELSE {})
                    \cup (IF m.cc # <<>> THEN {Header("Cc", m.cc)} ELSE {}),
     parts |-> (IF m.text # <<>> THEN <<<<"plain", m.text>>>>
                ELSE IF m.html = <<>> THEN <<<<"plain", <<Blank>>>>>> ELSE <<>>)
               \o (IF m.html # <<>> THEN <<<<"html", m.html>>>> ELSE <<>>)
               \o [k \in DOMAIN m.files |-> <<"file", m.files[k]>>]]
=============================================================================
