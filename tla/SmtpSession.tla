----------------------------- MODULE SmtpSession -----------------------------
(***************************************************************************)
(* The SMTP session of one dispatch of the outbox.                          *)
(*                                                                          *)
(* The dispatcher connects, logs in and sends the messages of its batch one *)
(* after the other on the same connection; a message that fails does not    *)
(* end the session. The client sends one command and reads one reply, which *)
(* may have several lines; the server keeps the state of the transaction.   *)
(* What is sent as the body is the text of MessageText.                     *)
(***************************************************************************)
EXTENDS Integers, MessageText

CONSTANTS
    Addrs,      \* recipients
    Batches,    \* batches of messages
    Bad,        \* recipients the server does not take
    Securities, \* "plain", "starttls", "tls"
    MaxLines,   \* lines of a reply (bound of the model)
    Faults      \* what may go wrong in a session, some or all of it: "refuse" (any command),
                \* "close" (the connection)

ASSUME SmtpSessionAssumption ==
    /\ \A b \in Batches :
         /\ b \in Seq(ToSet(b))
         /\ \A m \in DOMAIN b :
              /\ Recipients(b[m]) \in Seq(Addrs)
              /\ IsContent(b[m].text) /\ IsContent(b[m].html)
              /\ b[m].files \in Seq(ToSet(b[m].files))
              /\ \A k \in DOMAIN b[m].files : IsContent(b[m].files[k])
    /\ Bad \subseteq Addrs
    /\ Securities \subseteq {"plain", "starttls", "tls"}
    /\ MaxLines \in Nat \ {0}
    /\ Faults \subseteq {"refuse", "close"}

\* The exchanges of a session, each a command and its reply.
Sending == {"mail", "rcpt", "data", "body"}
Talk == Sending \cup {"ehlo", "starttls", "login", "user", "pass", "plain", "quit"}
Stages == Talk \cup {"greeting", "prepare", "done", "aborted"}

VARIABLES
    batch, security, withLogin,     \* what the session is for
    faults,     \* what may go wrong in it
    pc,         \* the exchange the client is at
    awaiting,   \* it has sent its command and reads the reply
    mail, rcpt, \* the message, and the recipient of it, the client is at
    tls,        \* it talks over TLS
    result,     \* how the dispatcher records each message
    asked,      \* the last command: its exchange, and what it is about
    pending,    \* the server has not answered it
    replies,    \* lines the server has written and the client has not read
    from, to,   \* the transaction of the server: a message or 0, its recipients so far
    closed,     \* the server has closed the connection
    accepted    \* history: what the server took responsibility for

given  == <<batch, security, withLogin, faults>>
client == <<pc, awaiting, mail, rcpt, tls, result>>
server == <<from, to, closed, accepted>>
vars   == <<given, client, asked, pending, replies, server>>

Mails == 1..Len(batch)
Rcpts(m) == Recipients(batch[m])
Command == [exchange : Talk \cup {"greeting"}, mail : Nat, rcpt : Nat]

TypeOK ==
    /\ batch \in Batches /\ security \in Securities /\ withLogin \in BOOLEAN
    /\ faults \in SUBSET Faults
    /\ pc \in Stages
    /\ awaiting \in BOOLEAN
    /\ mail \in Nat \ {0} /\ rcpt \in Nat \ {0}
    /\ pc \in Sending \cup {"prepare"} => mail \in Mails
    /\ pc = "rcpt" => rcpt \in DOMAIN Rcpts(mail)
    /\ tls \in BOOLEAN
    /\ result \in [Mails -> {"queued", "sent", "failed"}]
    /\ asked \in Command
    /\ pending \in BOOLEAN
    /\ replies \in Seq([code : Nat, last : BOOLEAN])
    /\ from \in Nat /\ to \subseteq Addrs
    /\ closed \in BOOLEAN
    /\ \A a \in accepted : a.envelope \in Nat /\ a.body \in Mails /\ a.to \subseteq Addrs

Init ==
    /\ batch \in Batches /\ security \in Securities /\ withLogin \in BOOLEAN
    /\ faults \in SUBSET Faults
    /\ pc = "greeting" /\ awaiting = TRUE
    /\ mail = 1 /\ rcpt = 1
    /\ tls = (security = "tls")
    /\ result = [m \in Mails |-> "queued"]
    /\ asked = [exchange |-> "greeting", mail |-> 1, rcpt |-> 1]
    /\ pending = TRUE
    /\ replies = <<>>
    /\ from = 0 /\ to = {}
    /\ closed = FALSE
    /\ accepted = {}

-----------------------------------------------------------------------------
(***************************************************************************)
(* The client.                                                              *)
(***************************************************************************)

\* Broken variant: a refused body passes for a sent one.
ExpectedLoose(exchange) ==
    CASE exchange \in {"greeting", "starttls"} -> {220}
      [] exchange \in {"ehlo", "mail"}         -> {250}
      [] exchange = "body"                     -> {250, 550}
      [] exchange \in {"login", "user"}        -> {334}
      [] exchange \in {"pass", "plain"}        -> {235}
      [] exchange = "rcpt"                     -> {250, 251}
      [] exchange = "data"                     -> {354}
      [] OTHER                                 -> {}


\* The codes with which the client goes on; after QUIT it reads none of them.
Expected(exchange) ==
    CASE exchange \in {"greeting", "starttls"} -> {220}
      [] exchange \in {"ehlo", "mail", "body"} -> {250}
      [] exchange \in {"login", "user"}        -> {334}
      [] exchange \in {"pass", "plain"}        -> {235}
      [] exchange = "rcpt"                     -> {250, 251}
      [] exchange = "data"                     -> {354}
      [] OTHER                                 -> {}

Goto(where) == pc' = where /\ UNCHANGED <<mail, rcpt, result>>

NextRcpt ==
    IF rcpt < Len(Rcpts(mail))
    THEN rcpt' = rcpt + 1 /\ UNCHANGED <<pc, mail, result>>
    ELSE Goto("data")

\* Message m, or the end of the batch.
Begin(m) ==
    /\ mail' = m
    /\ rcpt' = 1
    /\ pc' = IF m <= Len(batch) THEN "prepare" ELSE "quit"

Ready == Begin(1) /\ UNCHANGED result

Settle(outcome) ==
    /\ result' = [result EXCEPT ![mail] = outcome]
    /\ Begin(mail + 1)

\* Broken variant: a refused STARTTLS is passed over.
FailUnlessTls(code) ==
    CASE pc \in Sending -> Settle("failed")
      [] pc = "quit" -> Goto("done")
      [] pc = "login" /\ code # 0 -> Goto("plain")
      [] pc = "starttls" /\ code # 0 /\ withLogin -> Goto("login")
      [] OTHER -> Goto("aborted")


\* An error, code 0 when there is no reply, fails the message being sent; before the
\* first one it ends the dispatch, and at QUIT it is ignored. Whatever reply to AUTH
\* LOGIN but the prompt leads to AUTH PLAIN.
Fail(code) ==
    CASE pc \in Sending -> Settle("failed")
      [] pc = "quit" -> Goto("done")
      [] pc = "login" /\ code # 0 -> Goto("plain")
      [] OTHER -> Goto("aborted")

Proceed ==
    CASE pc \in {"greeting", "starttls"} -> Goto("ehlo")
      [] pc = "ehlo" ->
            IF security = "starttls" /\ ~ tls THEN Goto("starttls")
            ELSE IF withLogin THEN Goto("login")
            ELSE Ready
      [] pc = "login" -> Goto("user")
      [] pc = "user" -> Goto("pass")
      [] pc \in {"pass", "plain"} -> Ready
      [] pc = "mail" -> Goto("rcpt")
      [] pc = "rcpt" -> NextRcpt
      [] pc = "data" -> Goto("body")
      [] pc = "body" -> Settle("sent")

\* A message without recipients fails before anything is sent.
Prepare ==
    /\ pc = "prepare"
    /\ IF Rcpts(mail) = <<>> THEN Settle("failed") ELSE Goto("mail")
    /\ UNCHANGED <<given, awaiting, tls, asked, pending, replies, server>>

Send ==
    /\ pc \in Talk
    /\ ~ awaiting
    /\ ~ closed
    /\ awaiting' = TRUE
    /\ asked' = [exchange |-> pc, mail |-> mail, rcpt |-> rcpt]
    /\ pending' = TRUE
    /\ UNCHANGED <<given, pc, mail, rcpt, tls, result, replies, server>>

\* The command cannot be written, or the connection ends within the reply.
Broken ==
    /\ pc \in Talk \cup {"greeting"}
    /\ closed
    /\ awaiting => replies = <<>>
    /\ awaiting' = FALSE
    /\ pending' = FALSE
    /\ Fail(0)
    /\ UNCHANGED <<given, tls, asked, replies, server>>

\* A line that is not the last one is kept and the next is read; the code that counts is
\* that of the last. The handshake after STARTTLS may fail.
ReadLine ==
    /\ awaiting
    /\ replies # <<>>
    /\ replies' = Tail(replies)
    /\ LET line == Head(replies)
       IN IF ~ line.last
          THEN UNCHANGED client
          ELSE /\ awaiting' = FALSE
               /\ \/ /\ line.code \in Expected(pc)
                     /\ tls' = (tls \/ pc = "starttls")
                     /\ Proceed
                  \/ /\ \/ line.code \notin Expected(pc)
                        \/ pc = "starttls" /\ "close" \in faults
                     /\ UNCHANGED tls
                     /\ Fail(line.code)
    /\ UNCHANGED <<given, asked, pending, server>>

-----------------------------------------------------------------------------
(***************************************************************************)
(* The server.                                                              *)
(***************************************************************************)

Recipient == Rcpts(asked.mail)[asked.rcpt]

Body == Stuff(Build(batch[asked.mail]))

Refusal == IF "refuse" \in faults THEN {550} ELSE {}

\* A transaction stays open until its body is in: MAIL is out of sequence until then.
Codes ==
    CASE asked.exchange = "mail" /\ from # 0           -> {503}
      [] asked.exchange = "rcpt" /\ Recipient \in Bad  -> {550}
      [] asked.exchange = "rcpt" /\ Recipient \notin Bad -> {250, 251} \cup Refusal
      [] asked.exchange = "data" /\ to = {}            -> {554}
      [] asked.exchange = "login"                      -> {334, 504}
      [] asked.exchange = "quit"                       -> {221}
      [] OTHER -> Expected(asked.exchange) \cup Refusal

Reply(code, n) == [k \in 1..n |-> [code |-> code, last |-> k = n]]

\* Each line after the end of the data is a command, and not one of SMTP.
Surplus ==
    IF asked.exchange # "body" THEN <<>>
    ELSE [k \in DOMAIN Beyond(Body) |-> [code |-> 500, last |-> TRUE]]

Answer ==
    /\ pending
    /\ ~ closed
    /\ pending' = FALSE
    /\ \E code \in Codes, n \in 1..MaxLines :
        /\ replies' = replies \o Reply(code, n) \o Surplus
        /\ CASE asked.exchange = "mail" /\ code = 250 ->
                    from' = asked.mail /\ to' = {} /\ UNCHANGED accepted
             [] asked.exchange = "rcpt" /\ code \in {250, 251} ->
                    to' = to \cup {Recipient} /\ UNCHANGED <<from, accepted>>
             [] asked.exchange = "body" ->
                    /\ from' = 0 /\ to' = {}
                    /\ accepted' = IF code # 250 THEN accepted ELSE accepted \cup
                            {[envelope |-> from, body |-> asked.mail, to |-> to,
                              read |-> Read(Received(Body))]}
             [] OTHER -> UNCHANGED <<from, to, accepted>>
    /\ closed' = (asked.exchange = "quit")
    /\ UNCHANGED <<given, client, asked>>

\* The connection ends, with some of what was written.
Close ==
    /\ "close" \in faults
    /\ ~ closed
    /\ closed' = TRUE
    /\ \E k \in 0..Len(replies) : replies' = SubSeq(replies, 1, k)
    /\ UNCHANGED <<given, client, asked, pending, from, to, accepted>>

-----------------------------------------------------------------------------
Dialogue == Prepare \/ Send \/ Broken \/ ReadLine \/ Answer

Next == Dialogue \/ Close

Spec == Init /\ [][Next]_vars

\* Both sides go on while the connection lasts: a server that never answers is left out,
\* as the client would wait for it without end.
FairSpec == Spec /\ WF_vars(Dialogue)

-----------------------------------------------------------------------------
\* A message is accepted with all its recipients and no other, or not at all; and they read
\* what was written, whatever lines it has, with the files and the alternatives apart, and see
\* the recipients that are not hidden (send_mail with its dot-stuffing, MimeBuilder::build).
ArrivesWhole ==
    \A a \in accepted :
        /\ a.envelope = a.body /\ a.to = ToSet(Rcpts(a.body))
        /\ a.read = Intended(batch[a.body])

\* What is recorded is what the server has done, unless the connection broke. When nothing
\* else goes wrong, a message whose recipients are all good fails only after one that left
\* its transaction open: 251 is a success, and so is a reply of many lines.
OutcomeIsTrue ==
    \A m \in Mails :
        /\ result[m] = "sent" => \E a \in accepted : a.body = m
        /\ result[m] = "failed" /\ ~ closed => \A a \in accepted : a.body # m
        /\ faults = {} /\ result[m] = "failed" /\ Rcpts(m) # <<>> =>
             \E k \in 1..m : ToSet(Rcpts(k)) \cap Bad # {}

\* Credentials are not sent before the connection is as secure as configured.
LoginIsCovered ==
    asked.exchange \in {"login", "user", "pass", "plain"} => tls \/ security = "plain"
=============================================================================
