--------------------------- MODULE ComposerProofs ---------------------------
(***************************************************************************)
(* For any accounts, folders, messages and number of clicks and tasks:      *)
(* what is written for one message does not leave with another; and while   *)
(* the user waits for each answer, what is shown belongs to the account     *)
(* that is selected, in whatever order tasks end. If tasks end in order,    *)
(* the window settles on what the database has once nothing is on its way,  *)
(* and the flags on what the user set.                                      *)
(***************************************************************************)
EXTENDS Composer, TLAPS, SequenceTheorems, FiniteSetTheorems

-----------------------------------------------------------------------------
(***************************************************************************)
(* The composer.                                                            *)
(***************************************************************************)
\* What is in the fields.
InFields == ({to, text, copies} \cup attachments) \ {0}

WritingType ==
    /\ begun.nr \in Nat /\ (show => begun.nr # 0)
    /\ to \in Written /\ text \in Written /\ copies \in Written
    /\ attachments \subseteq Written \ {0}

\* What has been sent was written before, is not in the fields any more, and nothing can
\* be written for that message again.
GoneForGood ==
    \A l \in Sent : \A p \in Parts(l) :
        /\ p \in Nat /\ p <= begun.nr
        /\ show => p < begun.nr
        /\ p \notin InFields

\* The recipients of an answer that is being written.
Addressed ==
    /\ show /\ begun.kind = "reply" => to = begun.nr /\ text = begun.nr
    /\ show /\ begun.kind = "forward" => to \in {0, begun.nr}

WritingInv == WritingType /\ GoneForGood /\ Addressed /\ NothingSentTwice

LEMMA WritingKept == ASSUME WritingInv, UNCHANGED composing PROVE WritingInv'
<1>1. InFields' = InFields /\ Sent' = Sent /\ Written' = Written
  BY DEF composing, fields, InFields, Sent, Written
<1>2. QED
  BY <1>1 DEF WritingInv, WritingType, GoneForGood, Addressed, NothingSentTwice, composing,
              fields, Parts

\* A message is begun: what was sent has lower numbers.
LEMMA BeginKeeps ==
    ASSUME WritingInv, NEW kind, NEW of, Begin(kind, of), to' \in {0, to, begun'.nr},
           text' \in {text, begun'.nr}, UNCHANGED <<copies, attachments>>,
           kind = "reply" => to' = begun'.nr /\ text' = begun'.nr,
           kind = "forward" => to' = 0
    PROVE  WritingInv'
<1>1. /\ begun'.nr = begun.nr + 1 /\ begun'.kind = kind /\ show' /\ letters' = letters
      /\ begun.nr \in Nat
  BY DEF Begin, WritingInv, WritingType
<1>2. Written' = 0..(begun.nr + 1) /\ Written \subseteq Written'
  BY <1>1 DEF Written
<1>3. WritingType'
  BY <1>1, <1>2 DEF WritingInv, WritingType, Written
<1>4. InFields' \subseteq InFields \cup {begun.nr + 1}
  BY <1>1 DEF InFields
<1>5. Sent' = Sent /\ \A l \in Sent : Parts(l)' = Parts(l)
  BY <1>1 DEF Sent, Parts
<1>6. GoneForGood'
  <2> SUFFICES ASSUME NEW l \in Sent, NEW p \in Parts(l)
               PROVE  p \in Nat /\ p <= begun'.nr /\ p < begun'.nr /\ p \notin InFields'
    BY <1>1, <1>5 DEF GoneForGood, Parts, Sent
  <2>1. p \in Nat /\ p <= begun.nr /\ p \notin InFields
    BY DEF WritingInv, GoneForGood
  <2>2. QED
    BY <1>1, <1>4, <2>1
<1>7. Addressed'
  BY <1>1 DEF Addressed
<1>8. NothingSentTwice'
  BY <1>5 DEF WritingInv, NothingSentTwice, Parts, Sent
<1>9. QED
  BY <1>3, <1>6, <1>7, <1>8 DEF WritingInv

\* The user writes in a field.
LEMMA EditKeeps ==
    ASSUME WritingInv, Write
    PROVE  WritingInv'
<1>1. /\ show /\ UNCHANGED <<show, letters, begun>>
      /\ to' \in {to, begun.nr} /\ text' \in {text, begun.nr} /\ copies' \in {copies, begun.nr}
      /\ attachments' \subseteq attachments \cup {begun.nr}
      /\ begun.nr \in Nat \ {0}
  BY DEF Write, WriteTo, WriteText, WriteCopies, PickAttachment, RemoveAttachment, Edit,
         WritingInv, WritingType
<1>2. Written' = Written /\ begun.nr \in Written
  BY <1>1 DEF Written
<1>3. WritingType'
  BY <1>1, <1>2 DEF WritingInv, WritingType
<1>4. InFields' \subseteq InFields \cup {begun.nr}
  BY <1>1 DEF InFields
<1>5. Sent' = Sent /\ \A l \in Sent : Parts(l)' = Parts(l)
  BY <1>1 DEF Sent, Parts
<1>6. GoneForGood'
  <2> SUFFICES ASSUME NEW l \in Sent, NEW p \in Parts(l)
               PROVE  p \in Nat /\ p <= begun.nr /\ p < begun.nr /\ p \notin InFields'
    BY <1>1, <1>5 DEF GoneForGood, Parts, Sent
  <2>1. p \in Nat /\ p < begun.nr /\ p \notin InFields
    BY <1>1 DEF WritingInv, GoneForGood
  <2>2. QED
    BY <1>1, <1>4, <2>1
<1>7. Addressed'
  BY <1>1 DEF WritingInv, Addressed
<1>8. NothingSentTwice'
  BY <1>5 DEF WritingInv, NothingSentTwice, Parts, Sent
<1>9. QED
  BY <1>3, <1>6, <1>7, <1>8 DEF WritingInv

\* What leaves the fields is not in any message sent before.
LEMMA SendKeeps ==
    ASSUME WritingInv, Send
    PROVE  WritingInv'
<1> DEFINE new == Letter(TRUE)
<1>1. /\ show /\ ~ show' /\ letters' = letters \cup {new} /\ begun' = begun
      /\ to' = 0 /\ text' = 0 /\ copies' = 0 /\ attachments' = {}
      /\ begun.nr \in Nat
  BY DEF Send, HandOver, WritingInv, WritingType
<1>2. /\ new.queued /\ new.begun = begun /\ new.to = to /\ new.text = text
      /\ Parts(new) = InFields
  BY DEF Letter, Parts, InFields
<1>3. Sent' = Sent \cup {new} /\ \A l : Parts(l)' = Parts(l)
  BY <1>1, <1>2 DEF Sent, Parts
<1>4. WritingType' /\ InFields' = {}
  BY <1>1 DEF WritingType, Written, InFields
<1>5. InFields \subseteq Written
  BY DEF WritingInv, WritingType, InFields
<1>6. GoneForGood'
  <2> SUFFICES ASSUME NEW l \in Sent \cup {new}, NEW p \in Parts(l)
               PROVE  p \in Nat /\ p <= begun.nr
    BY <1>1, <1>3, <1>4 DEF GoneForGood, Parts
  <2>1. CASE l \in Sent
    BY <2>1 DEF WritingInv, GoneForGood
  <2>2. CASE l = new
    <3>1. p \in Written
      BY <1>2, <1>5, <2>2
    <3>2. QED
      BY <1>1, <3>1 DEF Written
  <2>3. QED
    BY <2>1, <2>2
<1>7. Addressed'
  BY <1>1 DEF Addressed
<1>8. NothingSentTwice'
  <2> HIDE DEF new
  <2>1. ASSUME NEW k \in Sent PROVE Parts(k) \cap InFields = {}
    BY DEF WritingInv, GoneForGood
  <2>2. \A k, l \in Sent \cup {new} : k # l => Parts(k) \cap Parts(l) = {}
    BY <1>2, <2>1 DEF WritingInv, NothingSentTwice
  <2>3. \A l \in Sent \cup {new} : l.begun.kind = "reply" => {l.to, l.text} = {l.begun.nr}
    BY <1>1, <1>2 DEF WritingInv, NothingSentTwice, Addressed
  <2>4. \A l \in Sent \cup {new} : l.begun.kind = "forward" => l.to \in {0, l.begun.nr}
    BY <1>1, <1>2 DEF WritingInv, NothingSentTwice, Addressed
  <2>5. QED
    BY <1>3, <2>2, <2>3, <2>4 DEF NothingSentTwice, Parts
<1>9. QED
  BY <1>4, <1>6, <1>7, <1>8 DEF WritingInv

\* A draft is another copy of what is in the fields, and they are hidden as they are.
LEMMA KeepKeeps ==
    ASSUME WritingInv, SaveDraft \/ Cancel
    PROVE  WritingInv'
<1>1. /\ (show' => show) /\ UNCHANGED <<fields, begun>>
      /\ letters' \in {letters, letters \cup {Letter(FALSE)}}
  BY DEF SaveDraft, Cancel, HandOver, WritingInv, WritingType
<1>2. Sent' = Sent /\ \A l : Parts(l)' = Parts(l)
  BY <1>1 DEF Sent, Parts, Letter
<1>3. InFields' = InFields /\ Written' = Written
  BY <1>1 DEF InFields, Written, fields
<1>4. WritingType' /\ Addressed'
  BY <1>1, <1>3 DEF WritingInv, WritingType, Addressed, fields
<1>5. GoneForGood' /\ NothingSentTwice'
  BY <1>1, <1>2, <1>3 DEF WritingInv, WritingType, GoneForGood, NothingSentTwice, Parts
<1>6. QED
  BY <1>4, <1>5 DEF WritingInv

\* No text, attachment or hidden recipient goes out with two messages, and an answer goes
\* where it should, however often messages are cancelled, begun anew and saved as drafts,
\* and whatever the main window does meanwhile (ComposerAction::Send, Reply, Forward).
THEOREM SentApart == ComposerSpec => []NothingSentTwice
<1>1. ComposerInit => WritingInv
  <2> SUFFICES ASSUME ComposerInit PROVE WritingInv
    OBVIOUS
  <2>1. Sent = {} /\ ~ show /\ to = 0 /\ text = 0 /\ copies = 0 /\ attachments = {} /\ begun.nr = 0
    BY DEF ComposerInit, Sent
  <2>2. QED
    BY <2>1 DEF WritingInv, WritingType, GoneForGood, Addressed, NothingSentTwice, Written,
                ComposerInit
<1>2. WritingInv /\ [ComposerNext]_<<vars, composing>> => WritingInv'
  <2> SUFFICES ASSUME WritingInv, [ComposerNext]_<<vars, composing>> PROVE WritingInv'
    OBVIOUS
  <2>1. CASE UNCHANGED composing
    BY <2>1, WritingKept
  <2>2. CASE Compose
    BY <2>2, BeginKeeps DEF Compose, fields
  <2>3. ASSUME NEW e \in Entries, Reply(e) PROVE WritingInv'
    BY <2>3, BeginKeeps DEF Reply
  <2>4. ASSUME NEW e \in Entries, Forward(e) PROVE WritingInv'
    BY <2>4, BeginKeeps DEF Forward
  <2>5. CASE Write \/ Send \/ SaveDraft \/ Cancel
    BY <2>5, EditKeeps, SendKeeps, KeepKeeps
  <2>6. QED
    BY <2>1, <2>2, <2>3, <2>4, <2>5 DEF ComposerNext
<1>3. WritingInv => NothingSentTwice
  BY DEF WritingInv
<1>4. QED
  BY <1>1, <1>2, <1>3, PTL DEF ComposerSpec

-----------------------------------------------------------------------------
(***************************************************************************)
(* Queues: what they hold after a step.                                     *)
(***************************************************************************)
LEMMA AppendHolds ==
    ASSUME NEW S, NEW s \in Seq(S), NEW x \in S
    PROVE  Append(s, x) \in Seq(S) /\ ToSet(Append(s, x)) = ToSet(s) \cup {x}
<1>1. /\ Append(s, x) \in Seq(S) /\ Len(Append(s, x)) = Len(s) + 1 /\ Len(s) \in Nat
      /\ \A i \in 1..Len(s) : Append(s, x)[i] = s[i]
      /\ Append(s, x)[Len(s) + 1] = x
  BY AppendProperties, LenProperties
<1>2. DOMAIN s = 1..Len(s) /\ DOMAIN Append(s, x) = 1..(Len(s) + 1)
  BY <1>1, LenProperties
<1>3. DOMAIN Append(s, x) = DOMAIN s \cup {Len(s) + 1}
  BY <1>1, <1>2
<1>4. QED
  BY <1>1, <1>2, <1>3 DEF ToSet

LEMMA RemoveAtHolds ==
    ASSUME NEW S, NEW s \in Seq(S), NEW i \in DOMAIN s
    PROVE  /\ RemoveAt(s, i) \in Seq(S)
           /\ Len(RemoveAt(s, i)) = Len(s) - 1
           /\ \A j \in 1..(Len(s) - 1) : RemoveAt(s, i)[j] = IF j < i THEN s[j] ELSE s[j + 1]
           /\ ToSet(RemoveAt(s, i)) \subseteq ToSet(s)
           /\ ToSet(s) = ToSet(RemoveAt(s, i)) \cup {s[i]}
<1>1. /\ Len(s) \in Nat /\ DOMAIN s = 1..Len(s) /\ i \in 1..Len(s)
      /\ \A j \in 1..Len(s) : s[j] \in S
  BY LenProperties, ElementOfSeq
<1> DEFINE a == SubSeq(s, 1, i - 1)
           b == SubSeq(s, i + 1, Len(s))
<1>2. a \in Seq(S) /\ Len(a) = i - 1 /\ \A j \in 1..(i - 1) : a[j] = s[j]
  <2>1. 1 \in Int /\ i - 1 \in Int /\ \A j \in 1..(i - 1) : s[j] \in S
    BY <1>1
  <2>2. QED
    BY <1>1, <2>1, SubSeqProperties
<1>3. b \in Seq(S) /\ Len(b) = Len(s) - i /\ \A j \in 1..(Len(s) - i) : b[j] = s[i + j]
  <2>1. i + 1 \in Int /\ Len(s) \in Int /\ \A j \in (i + 1)..Len(s) : s[j] \in S
    BY <1>1
  <2>2. /\ b \in Seq(S)
        /\ Len(b) = IF i + 1 <= Len(s) THEN Len(s) - (i + 1) + 1 ELSE 0
        /\ \A j \in 1..(Len(s) - (i + 1) + 1) : b[j] = s[i + 1 + j - 1]
    BY <2>1, SubSeqProperties
  <2>3. QED
    BY <1>1, <2>2
<1>4. RemoveAt(s, i) = a \o b
  BY DEF RemoveAt
<1> HIDE DEF a, b
<1>5. /\ RemoveAt(s, i) \in Seq(S)
      /\ Len(RemoveAt(s, i)) = Len(a) + Len(b)
      /\ \A j \in 1..(Len(a) + Len(b)) :
            RemoveAt(s, i)[j] = IF j <= Len(a) THEN a[j] ELSE b[j - Len(a)]
  BY <1>2, <1>3, <1>4, ConcatProperties
<1>6. /\ Len(RemoveAt(s, i)) = Len(s) - 1
      /\ \A j \in 1..(Len(s) - 1) : RemoveAt(s, i)[j] = IF j < i THEN s[j] ELSE s[j + 1]
  <2>1. Len(a) + Len(b) = Len(s) - 1
    BY <1>1, <1>2, <1>3
  <2>2. ASSUME NEW j \in 1..(Len(s) - 1), j < i PROVE RemoveAt(s, i)[j] = s[j]
    BY <1>1, <1>2, <1>5, <2>1, <2>2
  <2>3. ASSUME NEW j \in 1..(Len(s) - 1), ~ (j < i) PROVE RemoveAt(s, i)[j] = s[j + 1]
    <3>1. j - Len(a) \in 1..(Len(s) - i) /\ i + (j - Len(a)) = j + 1 /\ ~ (j <= Len(a))
      BY <1>1, <1>2, <2>3
    <3>2. RemoveAt(s, i)[j] = b[j - Len(a)]
      BY <1>5, <2>1, <3>1
    <3>3. QED
      BY <1>3, <3>1, <3>2
  <2>4. QED
    BY <1>5, <2>1, <2>2, <2>3
<1>7. DOMAIN RemoveAt(s, i) = 1..(Len(s) - 1)
  BY <1>5, <1>6, LenProperties
<1>8. ToSet(RemoveAt(s, i)) \subseteq ToSet(s)
  BY <1>1, <1>6, <1>7 DEF ToSet
<1>9. ASSUME NEW j \in 1..Len(s), j # i PROVE s[j] \in ToSet(RemoveAt(s, i))
  <2>1. CASE j < i
    BY <1>1, <1>6, <1>7, <2>1 DEF ToSet
  <2>2. CASE j > i
    <3>1. j - 1 \in 1..(Len(s) - 1) /\ RemoveAt(s, i)[j - 1] = s[j]
      BY <1>1, <1>6, <2>2
    <3>2. QED
      BY <1>7, <3>1 DEF ToSet
  <2>3. QED
    BY <1>1, <1>9, <2>1, <2>2
<1>10. s[i] \in ToSet(s)
  BY <1>1 DEF ToSet
<1>11. ASSUME NEW x \in ToSet(s) PROVE x \in ToSet(RemoveAt(s, i)) \cup {s[i]}
  <2>1. PICK j \in DOMAIN s : x = s[j]
    BY DEF ToSet
  <2>2. QED
    BY <1>1, <1>9, <2>1
<1>12. QED
  BY <1>5, <1>6, <1>8, <1>10, <1>11

LEMMA TailHolds ==
    ASSUME NEW S, NEW s \in Seq(S), s # <<>>
    PROVE  /\ Tail(s) \in Seq(S)
           /\ Head(s) \in S
           /\ ToSet(s) = ToSet(Tail(s)) \cup {Head(s)}
<1>1. /\ Head(s) \in S /\ Tail(s) \in Seq(S) /\ Len(Tail(s)) = Len(s) - 1
      /\ \A i \in 1..Len(Tail(s)) : Tail(s)[i] = s[i + 1]
      /\ Len(s) \in Nat \ {0} /\ Head(s) = s[1]
  BY HeadTailProperties, EmptySeq, LenProperties
<1>2. DOMAIN s = 1..Len(s) /\ DOMAIN Tail(s) = 1..(Len(s) - 1)
  BY <1>1, LenProperties
<1>3. \A i \in DOMAIN s : s[i] \in ToSet(Tail(s)) \cup {Head(s)}
  <2> SUFFICES ASSUME NEW i \in DOMAIN s, i # 1 PROVE s[i] \in ToSet(Tail(s))
    BY <1>1
  <2>1. i - 1 \in DOMAIN Tail(s) /\ Tail(s)[i - 1] = s[i]
    BY <1>1, <1>2
  <2>2. QED
    BY <2>1 DEF ToSet
<1>4. \A i \in DOMAIN Tail(s) : Tail(s)[i] \in ToSet(s)
  BY <1>1, <1>2 DEF ToSet
<1>5. Head(s) \in ToSet(s)
  BY <1>1, <1>2 DEF ToSet
<1>6. QED
  BY <1>3, <1>4, <1>5 DEF ToSet

-----------------------------------------------------------------------------
(***************************************************************************)
(* Typing of the window.                                                    *)
(***************************************************************************)
Targets == Accounts \cup Folders \cup Messages \cup {None}

\* A task and what it may have read.
IsJob(t) ==
    /\ t.kind = "accounts" => t.data \subseteq Accounts
    /\ t.kind = "folders" => t.of \in Accounts /\ t.data \subseteq Folders
    /\ t.kind = "list" => t.of \in Folders
    /\ t.kind = "search" => t.of \in Accounts
    /\ t.kind \in {"detail", "flags", "delete"} => t.of \in Messages
    /\ t.kind \in {"list", "search", "detail"} => t.data \subseteq Entries

Jobs == {t \in [kind : Kinds, of : Targets, flags : Flags,
                data : SUBSET (Accounts \cup Folders \cup Entries), read : BOOLEAN] : IsJob(t)}

DatabaseType ==
    /\ stored \subseteq Messages /\ known \subseteq Folders
    /\ flags \in [Messages -> Flags]

ShownType ==
    /\ account \in Accounts \cup {None} /\ folder \in Folders \cup {None}
    /\ folders \subseteq Folders
    /\ list \subseteq Entries /\ detail \subseteq Entries
    /\ message \in Messages \cup {None}

QueuesType ==
    /\ tasks \in Seq(Jobs) /\ answers \in Seq(Jobs)
    /\ \A t \in ToSet(answers) : t.read

WindowType == setting \in Settings /\ DatabaseType /\ ShownType /\ QueuesType

OnTheWay == ToSet(tasks) \cup ToSet(answers)

LEMMA InQueue ==
    ASSUME NEW S, NEW s \in Seq(S)
    PROVE  ToSet(s) \subseteq S
<1>1. DOMAIN s = 1..Len(s)
  BY LenProperties
<1>2. QED
  BY <1>1, ElementOfSeq DEF ToSet

LEMMA EmptyQueue == ToSet(<<>>) = {}
BY DEF ToSet

\* A task that has been started.
LEMMA NewJob ==
    ASSUME NEW kind \in Kinds, NEW of \in Targets, NEW fl \in Flags,
           kind = "folders" => of \in Accounts,
           kind = "list" => of \in Folders,
           kind = "search" => of \in Accounts,
           kind \in {"detail", "flags", "delete"} => of \in Messages
    PROVE  /\ Task(kind, of) \in Jobs
           /\ [Task(kind, of) EXCEPT !.flags = fl] \in Jobs
BY DEF Task, Jobs, IsJob, Flags

LEMMA EntryType == DatabaseType => \A m \in Messages : Entry(m) \in Entries /\ Entry(m).id = m
BY DEF DatabaseType, Entry, Entries

\* What a task reads.
LEMMA ReadJob ==
    ASSUME DatabaseType, NEW t \in Jobs, NEW u,
           u = [t EXCEPT !.read = TRUE, !.data = Result(t)]
    PROVE  /\ u \in Jobs
           /\ u.kind = t.kind /\ u.of = t.of /\ u.flags = t.flags
           /\ u.read /\ u.data = Result(t)
<1>1. t \in [kind : Kinds, of : Targets, flags : Flags,
             data : SUBSET (Accounts \cup Folders \cup Entries), read : BOOLEAN] /\ IsJob(t)
  BY DEF Jobs
<1>2. /\ t.kind = "accounts" => Result(t) \subseteq Accounts
      /\ t.kind = "folders" => Result(t) \subseteq Folders
      /\ t.kind \in {"list", "search", "detail"} => Result(t) \subseteq Entries
      /\ t.kind \in {"flags", "delete"} => Result(t) = {}
  <2>1. CASE t.kind \in {"accounts", "folders"}
    BY <2>1 DEF Result, FoldersOf, DatabaseType
  <2>2. CASE t.kind \in {"list", "search", "detail"}
    BY <2>2, EntryType DEF Result, MailIn, DatabaseType
  <2>3. CASE t.kind \in {"flags", "delete"}
    BY <2>3 DEF Result
  <2>4. QED
    BY <2>1, <2>2, <2>3
<1>3. Result(t) \subseteq Accounts \cup Folders \cup Entries
  BY <1>1, <1>2 DEF Kinds
<1>4. /\ u.kind = t.kind /\ u.of = t.of /\ u.flags = t.flags /\ u.read = TRUE /\ u.data = Result(t)
      /\ u \in [kind : Kinds, of : Targets, flags : Flags,
                data : SUBSET (Accounts \cup Folders \cup Entries), read : BOOLEAN]
  BY <1>1, <1>3
<1>5. IsJob(u)
  BY <1>1, <1>2, <1>4 DEF IsJob
<1>6. QED
  BY <1>4, <1>5 DEF Jobs

-----------------------------------------------------------------------------
(***************************************************************************)
(* What the steps do to the queues.                                         *)
(***************************************************************************)
LEMMA StartEffect ==
    ASSUME QueuesType, NEW t \in Jobs, Start(t)
    PROVE  tasks' \in Seq(Jobs) /\ ToSet(tasks)' = ToSet(tasks) \cup {t}
BY AppendHolds DEF QueuesType, Start

LEMMA AccessEffect ==
    ASSUME WindowType, NEW i \in DOMAIN tasks, Access(i)
    PROVE  \E t \in OnTheWay, u \in Jobs :
              /\ QueuesType'
              /\ t = tasks[i] /\ u = [t EXCEPT !.read = TRUE, !.data = Result(t)]
              /\ OnTheWay' \subseteq OnTheWay \cup {u}
              /\ OnTheWay \subseteq OnTheWay' \cup {t}
              /\ u \in OnTheWay'
              /\ u.kind = t.kind /\ u.of = t.of /\ u.read /\ u.data = Result(t)
              /\ tasks' = [tasks EXCEPT ![i] = u]
<1>1. tasks \in Seq(Jobs) /\ tasks[i] \in Jobs /\ tasks[i] \in OnTheWay
  BY LenProperties, ElementOfSeq DEF WindowType, QueuesType, OnTheWay, ToSet
<1> DEFINE u == [tasks[i] EXCEPT !.read = TRUE, !.data = Result(tasks[i])]
<1>2. /\ u \in Jobs /\ u.kind = tasks[i].kind /\ u.of = tasks[i].of /\ u.read
      /\ u.data = Result(tasks[i])
  BY <1>1, ReadJob DEF WindowType
<1>3. tasks' = [tasks EXCEPT ![i] = u] /\ answers' = answers
  BY DEF Access
<1>4. /\ tasks' \in Seq(Jobs)
      /\ ToSet(tasks)' \subseteq ToSet(tasks) \cup {u}
      /\ ToSet(tasks) \subseteq ToSet(tasks)' \cup {tasks[i]}
      /\ u \in ToSet(tasks)'
  <2>1. PICK v \in Jobs : v = u
    BY <1>2
  <2> HIDE DEF u
  <2>2. tasks \in Seq(Jobs) /\ tasks' = [tasks EXCEPT ![i] = v]
    BY <1>1, <1>3, <2>1
  <2>3. tasks' \in Seq(Jobs)
    BY <2>2, ExceptSeq, LenProperties
  <2>4. /\ DOMAIN tasks' = DOMAIN tasks /\ tasks'[i] = v
        /\ \A j \in DOMAIN tasks \ {i} : tasks'[j] = tasks[j]
    BY <2>2
  <2>5. /\ ToSet(tasks') \subseteq ToSet(tasks) \cup {v}
        /\ ToSet(tasks) \subseteq ToSet(tasks') \cup {tasks[i]}
        /\ v \in ToSet(tasks')
    BY <2>4 DEF ToSet
  <2>6. QED
    BY <2>1, <2>3, <2>5
<1>5. QED
  BY <1>1, <1>2, <1>3, <1>4 DEF OnTheWay, WindowType, QueuesType

LEMMA AnswerEffect ==
    ASSUME QueuesType, NEW i \in DOMAIN tasks, Answer(i)
    PROVE  QueuesType' /\ OnTheWay' = OnTheWay
<1>1. tasks \in Seq(Jobs) /\ tasks[i] \in Jobs /\ tasks[i].read
  BY LenProperties, ElementOfSeq DEF QueuesType, Answer
<1>2. /\ answers' \in Seq(Jobs) /\ ToSet(answers)' = ToSet(answers) \cup {tasks[i]}
  BY <1>1, AppendHolds DEF QueuesType, Answer
<1>3. tasks' \in Seq(Jobs) /\ ToSet(tasks) = ToSet(tasks)' \cup {tasks[i]}
  BY <1>1, RemoveAtHolds DEF QueuesType, Answer
<1>4. QED
  BY <1>1, <1>2, <1>3 DEF QueuesType, OnTheWay

LEMMA TaskFailsEffect ==
    ASSUME QueuesType, NEW i \in DOMAIN tasks, TaskFails(i)
    PROVE  QueuesType'
BY RemoveAtHolds DEF QueuesType, TaskFails

LEMMA TakeEffect ==
    ASSUME QueuesType, NEW kind, Take(kind)
    PROVE  /\ Head(answers) \in Jobs /\ Head(answers) \in OnTheWay
           /\ Head(answers).kind = kind /\ Head(answers).read
           /\ answers' \in Seq(Jobs)
           /\ ToSet(answers) = ToSet(answers)' \cup {Head(answers)}
           /\ OnTheWay \subseteq ToSet(tasks) \cup ToSet(answers)' \cup {Head(answers)}
           /\ \A t \in ToSet(answers)' : t.read
<1>1. /\ answers' \in Seq(Jobs) /\ Head(answers) \in Jobs
      /\ ToSet(answers) = ToSet(answers)' \cup {Head(answers)}
  BY TailHolds DEF QueuesType, Take
<1>2. QED
  BY <1>1 DEF QueuesType, Take, OnTheWay

LEMMA FlagsType ==
    ASSUME NEW entries \in SUBSET Entries, NEW m, NEW fl \in Flags
    PROVE  /\ WithFlags(entries, m, fl) \subseteq Entries
           /\ \A e \in WithFlags(entries, m, fl) : \E d \in entries : e.id = d.id
<1>1. ASSUME NEW d \in Entries
      PROVE  [d EXCEPT !.flags = fl] \in Entries /\ [d EXCEPT !.flags = fl].id = d.id
  BY DEF Entries
<1>2. QED
  BY <1>1 DEF WithFlags

\* A draw takes an answer.
LEMMA DrawType ==
    ASSUME MailWindowAssumption, WindowType, Draw
    PROVE  WindowType'
<1> USE DEF WindowType
<1>1. Accounts \subseteq Targets /\ Folders \subseteq Targets /\ {} \in Flags
      /\ {"accounts", "folders", "list"} \subseteq Kinds
  BY DEF Targets, Flags, Kinds
<1>2. ASSUME NEW kind, Take(kind), ShownType',
             tasks' = tasks \/ \E t \in Jobs : Start(t)
      PROVE  WindowType'
  <2>1. answers' \in Seq(Jobs) /\ \A t \in ToSet(answers)' : t.read
    BY <1>2, TakeEffect
  <2>2. tasks' \in Seq(Jobs)
    BY <1>2, StartEffect DEF QueuesType
  <2>3. UNCHANGED <<setting, db>>
    BY <1>2 DEF Take
  <2>4. QED
    BY <1>2, <2>1, <2>2, <2>3 DEF QueuesType, DatabaseType, db
<1>3. CASE AccountsLoaded
  <2>1. Head(answers).data \subseteq Accounts
    BY <1>3, TakeEffect DEF AccountsLoaded, Jobs, IsJob
  <2>2. ShownType'
    BY <1>3, <2>1 DEF AccountsLoaded, ShownType
  <2>3. \A a \in Accounts : Task("folders", a) \in Jobs
    BY <1>1, NewJob
  <2>4. QED
    BY <1>2, <1>3, <2>1, <2>2, <2>3 DEF AccountsLoaded
<1>4. CASE FoldersLoaded
  <2>1. Head(answers).data \subseteq Folders
    BY <1>4, TakeEffect DEF FoldersLoaded, Jobs, IsJob
  <2>2. folders' \subseteq Folders
    BY <1>4, <2>1 DEF FoldersLoaded
  <2>3. \/ UNCHANGED <<folder, tasks>>
        \/ \E f \in folders' : folder' = f /\ Start(Task("list", f))
    BY <1>4 DEF FoldersLoaded
  <2>4. ShownType'
    BY <1>4, <2>2, <2>3 DEF FoldersLoaded, ShownType
  <2>5. \A f \in Folders : Task("list", f) \in Jobs
    BY <1>1, NewJob
  <2>6. QED
    BY <1>2, <1>4, <2>2, <2>3, <2>4, <2>5 DEF FoldersLoaded
<1>5. CASE MessagesLoaded
  <2>1. PICK kind \in {"list", "search"} : Take(kind)
    BY <1>5 DEF MessagesLoaded
  <2>2. Head(answers).data \subseteq Entries
    BY <2>1, TakeEffect DEF Jobs, IsJob
  <2>3. ShownType' /\ tasks' = tasks
    BY <1>5, <2>2 DEF MessagesLoaded, ShownType
  <2>4. QED
    BY <1>2, <2>1, <2>3
<1>6. CASE DetailLoaded
  <2>1. Head(answers).data \subseteq Entries
    BY <1>6, TakeEffect DEF DetailLoaded, Jobs, IsJob
  <2>2. ShownType' /\ tasks' = tasks
    BY <1>6, <2>1 DEF DetailLoaded, ShownType
  <2>3. QED
    BY <1>2, <1>6, <2>2 DEF DetailLoaded
<1>7. CASE FlagsUpdated
  <2>1. Head(answers).flags \in Flags
    BY <1>7, TakeEffect DEF FlagsUpdated, Jobs
  <2>2. list' \subseteq Entries /\ detail' \subseteq Entries
    BY <1>7, <2>1, FlagsType DEF FlagsUpdated, ShownType
  <2>3. ShownType' /\ tasks' = tasks
    BY <1>7, <2>2 DEF FlagsUpdated, ShownType
  <2>4. QED
    BY <1>2, <1>7, <2>3 DEF FlagsUpdated
<1>8. CASE MessageDeleted
  <2>1. ShownType' /\ tasks' = tasks
    BY <1>8 DEF MessageDeleted, ShownType
  <2>2. QED
    BY <1>2, <1>8, <2>1 DEF MessageDeleted
<1>9. ASSUME NEW f \in Folders, NewMessages(f) \/ FolderUpdated(f) PROVE WindowType'
  <2>1. UNCHANGED <<setting, db, shown, answers>>
    BY <1>9 DEF NewMessages, FolderUpdated, TakeNews
  <2>2. Task("list", f) \in Jobs
    BY <1>1, NewJob
  <2>3. tasks' \in Seq(Jobs)
    BY <1>9, <2>2, StartEffect DEF NewMessages, FolderUpdated, QueuesType
  <2>4. QED
    BY <2>1, <2>3 DEF QueuesType, DatabaseType, ShownType, db, shown
<1>10. QED
  BY <1>3, <1>4, <1>5, <1>6, <1>7, <1>8, <1>9 DEF Draw

\* A click changes the selection, and starts a task or none.
LEMMA ClickType ==
    ASSUME MailWindowAssumption, WindowType, User
    PROVE  WindowType'
<1> USE DEF WindowType
<1>1. /\ Targets = Accounts \cup Folders \cup Messages \cup {None}
      /\ {} \in Flags
      /\ Kinds = {"accounts", "folders", "list", "search", "detail", "flags", "delete"}
  BY DEF Targets, Flags, Kinds
<1>2. ASSUME NEW use, Click(use), ShownType', tasks' = tasks \/ \E t \in Jobs : Start(t)
      PROVE  WindowType'
  <2>1. tasks' \in Seq(Jobs)
    BY <1>2, StartEffect DEF QueuesType
  <2>2. UNCHANGED <<setting, db, answers>>
    BY <1>2 DEF Click
  <2>3. QED
    BY <1>2, <2>1, <2>2 DEF QueuesType, DatabaseType, db
<1>3. ASSUME NEW a \in Accounts, SelectAccount(a) PROVE WindowType'
  <2>1. Task("folders", a) \in Jobs
    BY <1>1, NewJob
  <2>2. ShownType'
    BY <1>3 DEF SelectAccount, ShownType
  <2>3. QED
    BY <1>2, <1>3, <2>1, <2>2 DEF SelectAccount
<1>4. ASSUME NEW f \in Folders, SelectFolder(f) PROVE WindowType'
  <2>1. Task("list", f) \in Jobs
    BY <1>1, NewJob
  <2>2. ShownType'
    BY <1>4 DEF SelectFolder, ShownType
  <2>3. QED
    BY <1>2, <1>4, <2>1, <2>2 DEF SelectFolder
<1>5. ASSUME NEW e \in Entries, SelectMessage(e) \/ Delete(e) PROVE WindowType'
  <2>1. e.id \in Messages
    BY DEF Entries
  <2>2. Task("detail", e.id) \in Jobs /\ Task("delete", e.id) \in Jobs
    BY <1>1, <2>1, NewJob
  <2>3. ShownType'
    BY <1>5, <2>1 DEF SelectMessage, Delete, ShownType, shown
  <2>4. QED
    BY <1>2, <1>5, <2>2, <2>3 DEF SelectMessage, Delete
<1>6. ASSUME NEW e \in Entries, NEW flag \in {"seen", "flagged"}, Toggle(e, flag)
      PROVE  WindowType'
  <2>1. e.id \in Messages
    BY DEF Entries
  <2>2. PICK fl : Start([Task("flags", e.id) EXCEPT !.flags = fl])
                  /\ \E others \in Flags : fl \in {others \ {flag}, others \cup {flag}}
    <3> DEFINE others == (UNION {d.flags : d \in {l \in list : l.id = e.id}}) \ {flag}
               fl == IF flag \in e.flags THEN others \ {flag} ELSE others \cup {flag}
    <3>1. Start([Task("flags", e.id) EXCEPT !.flags = fl])
      BY <1>6 DEF Toggle
    <3>2. others \in Flags
      BY DEF ShownType, Entries, Flags
    <3>3. fl \in {others \ {flag}, others \cup {flag}}
      OBVIOUS
    <3> HIDE DEF fl, others
    <3>4. QED
      BY <3>1, <3>2, <3>3
  <2>3. fl \in Flags
    BY <2>2 DEF Flags
  <2>4. [Task("flags", e.id) EXCEPT !.flags = fl] \in Jobs
    BY <1>1, <2>1, <2>3, NewJob
  <2>5. ShownType' /\ Click("flags")
    BY <1>6 DEF Toggle, ShownType, shown
  <2>6. QED
    BY <1>2, <2>2, <2>4, <2>5
<1>7. CASE SyncFolder \/ SyncAllFolders
  <2>1. ShownType' /\ tasks' = tasks
    BY <1>7 DEF SyncFolder, SyncAllFolders, ShownType, shown
  <2>2. QED
    BY <1>2, <1>7, <2>1 DEF SyncFolder, SyncAllFolders
<1>8. CASE Search
  <2>1. account # None => Task("search", account) \in Jobs
    BY <1>1, NewJob DEF ShownType
  <2>2. ShownType'
    BY <1>8 DEF Search, ShownType
  <2>3. QED
    BY <1>2, <1>8, <2>1, <2>2 DEF Search
<1>9. CASE ClearSearch
  <2>1. folder # None => Task("list", folder) \in Jobs
    BY <1>1, NewJob DEF ShownType
  <2>2. ShownType'
    BY <1>9 DEF ClearSearch, ShownType
  <2>3. QED
    BY <1>2, <1>9, <2>1, <2>2 DEF ClearSearch
<1>10. QED
  BY <1>3, <1>4, <1>5, <1>6, <1>7, <1>8, <1>9 DEF User

\* Every variable the window shows or computes with keeps its type.
LEMMA WindowTypeStep ==
    ASSUME MailWindowAssumption, WindowType, [Next]_vars
    PROVE  WindowType'
<1> USE DEF WindowType
<1>1. ASSUME UNCHANGED <<setting, shown, tasks, answers>>, DatabaseType' PROVE WindowType'
  BY <1>1 DEF ShownType, QueuesType, shown
<1>2. ASSUME NEW i \in DOMAIN tasks, Access(i) PROVE WindowType'
  <2>1. QueuesType'
    BY <1>2, AccessEffect
  <2>2. tasks[i] \in Jobs
    BY LenProperties, ElementOfSeq DEF QueuesType
  <2>3. DatabaseType'
    BY <1>2, <2>2 DEF Access, DatabaseType, Jobs, Flags
  <2>4. UNCHANGED <<setting, shown>>
    BY <1>2 DEF Access
  <2>5. QED
    BY <2>1, <2>3, <2>4 DEF ShownType, shown
<1>3. ASSUME NEW i \in DOMAIN tasks, Answer(i) \/ TaskFails(i) PROVE WindowType'
  <2>1. QueuesType'
    BY <1>3, AnswerEffect, TaskFailsEffect
  <2>2. UNCHANGED <<setting, db, shown>>
    BY <1>3 DEF Answer, TaskFails
  <2>3. QED
    BY <2>1, <2>2 DEF DatabaseType, ShownType, db, shown
<1>4. CASE Drawn \/ Touch \/ Relay \/ UNCHANGED vars
  BY <1>1, <1>4 DEF Drawn, Touch, Relay, DatabaseType, db, vars
<1>5. ASSUME NEW m \in Messages, Store(m) PROVE WindowType'
  <2>1. DatabaseType'
    BY <1>5 DEF Store, DatabaseType, Flags
  <2>2. QED
    BY <1>1, <1>5, <2>1 DEF Store
<1>6. ASSUME NEW a \in Accounts, FindFolders(a) PROVE WindowType'
  <2>1. DatabaseType'
    BY <1>6 DEF FindFolders, DatabaseType
  <2>2. QED
    BY <1>1, <1>6, <2>1 DEF FindFolders
<1>7. QED
  BY <1>2, <1>3, <1>4, <1>5, <1>6, DrawType, ClickType DEF Next, Work, Supervisor

LEMMA WindowTypeInit ==
    ASSUME MailWindowAssumption, Init
    PROVE  WindowType
<1>1. Task("accounts", None) \in Jobs
  BY NewJob DEF Kinds, Targets, Flags
<1>2. QueuesType
  BY <1>1, EmptyQueue DEF Init, QueuesType
<1>3. DatabaseType
  BY DEF Init, DatabaseType, MailWindowAssumption, Flags
<1>4. ShownType /\ setting \in Settings
  BY DEF Init, ShownType
<1>5. QED
  BY <1>2, <1>3, <1>4 DEF WindowType

-----------------------------------------------------------------------------
(***************************************************************************)
(* While the user waits for each answer and no task fails, everything that  *)
(* is shown or on its way belongs to the account that is selected, but for  *)
(* the folders until those of the account have been loaded.                 *)
(***************************************************************************)
Calm == setting.patient /\ setting.faults = {}

Own(f) == Owner[f] = account
OwnMail(e) == Owner[In[e.id]] = account

FitsAccount(t) ==
    /\ t.kind # "accounts" => account # None
    /\ t.kind \in {"folders", "search"} => t.of = account
    /\ t.kind = "list" => Own(t.of)
    /\ t.kind = "detail" => Owner[In[t.of]] = account
    /\ t.read /\ t.kind = "accounts" => t.data = Accounts
    /\ t.read /\ t.kind = "folders" => \A f \in t.data : Own(f)
    /\ t.read /\ t.kind \in {"list", "search", "detail"} => \A e \in t.data : OwnMail(e)

OwnFolders == (\A f \in folders : Own(f)) \/ \E t \in OnTheWay : t.kind = "folders"
OwnShown ==
    /\ folder # None => Own(folder)
    /\ \A e \in list \cup detail : OwnMail(e)
    /\ account = None => folder = None /\ folders = {} /\ list = {} /\ detail = {}

OwnInv == Calm => OwnFolders /\ OwnShown /\ \A t \in OnTheWay : FitsAccount(t)

LEMMA NobodyOwns ==
    MailWindowAssumption => /\ \A f \in Folders : Owner[f] \in Accounts /\ Owner[f] # None /\ f # None
                            /\ \A m \in Messages : Owner[In[m]] \in Accounts /\ Owner[In[m]] # None
                            /\ None \notin Accounts
BY DEF MailWindowAssumption

\* A step that leaves the account as it is.
LEMMA OwnKept ==
    ASSUME OwnInv, Calm, UNCHANGED <<setting, account>>,
           \A t \in OnTheWay' : t \in OnTheWay \/ FitsAccount(t),
           \/ folders' = folders /\ \A t \in OnTheWay : t.kind = "folders" => t \in OnTheWay'
           \/ \A f \in folders' : account # None /\ Own(f),
           \/ folder' \in {folder, None}
           \/ account # None /\ Owner[folder'] = account,
           \/ list' = list
           \/ \A e \in list' : e.id \in Ids(list)
           \/ account # None /\ \A e \in list' : OwnMail(e),
           \/ detail' = detail
           \/ \A e \in detail' : e.id \in Ids(detail)
           \/ account # None /\ \A e \in detail' : OwnMail(e)
    PROVE  OwnInv'
<1>1. \A t : FitsAccount(t)' <=> FitsAccount(t)
  BY DEF FitsAccount, Own, OwnMail
<1>2. OwnFolders'
  BY DEF OwnInv, OwnFolders, Own
<1>3. OwnShown'
  BY DEF OwnInv, OwnShown, Own, OwnMail, Ids
<1>4. \A t \in OnTheWay' : FitsAccount(t)'
  BY <1>1 DEF OwnInv
<1>5. QED
  BY <1>2, <1>3, <1>4 DEF OwnInv

\* A task that was started.
LEMMA NewFits ==
    ASSUME NEW t, ~ t.read, account # None,
           t.kind \in {"folders", "search"} => t.of = account,
           t.kind = "list" => Own(t.of),
           t.kind = "detail" => Owner[In[t.of]] = account
    PROVE  FitsAccount(t)
BY DEF FitsAccount

\* A task reads what is of the account it was started for.
LEMMA ReadFits ==
    ASSUME MailWindowAssumption, DatabaseType, NEW t \in Jobs, NEW u \in Jobs, FitsAccount(t),
           u.kind = t.kind, u.of = t.of, u.data = Result(t)
    PROVE  FitsAccount(u)
<1>1. t.kind = "accounts" => u.data = Accounts
  BY DEF Result
<1>2. t.kind = "folders" => \A f \in u.data : Own(f)
  BY DEF Result, FoldersOf, FitsAccount, Own
<1>3. t.kind = "list" => \A e \in u.data : OwnMail(e)
  BY EntryType DEF Result, MailIn, FitsAccount, Own, OwnMail, DatabaseType
<1>4. t.kind = "search" => \A e \in u.data : OwnMail(e)
  BY EntryType DEF Result, FitsAccount, OwnMail, DatabaseType
<1>5. t.kind = "detail" => \A e \in u.data : OwnMail(e)
  BY EntryType DEF Result, FitsAccount, OwnMail, DatabaseType
<1>6. QED
  BY <1>1, <1>2, <1>3, <1>4, <1>5 DEF FitsAccount

LEMMA OwnAccess ==
    ASSUME MailWindowAssumption, WindowType, OwnInv, Calm, NEW i \in DOMAIN tasks,
           Access(i) \/ Answer(i) \/ TaskFails(i)
    PROVE  OwnInv'
<1>1. UNCHANGED <<setting, account, folder, folders, list, detail>>
  BY DEF Access, Answer, TaskFails, shown
<1>2. CASE Access(i)
  <2>1. PICK t \in OnTheWay, u \in Jobs :
              /\ u.kind = t.kind /\ u.of = t.of /\ u.data = Result(t)
              /\ OnTheWay' \subseteq OnTheWay \cup {u}
              /\ OnTheWay \subseteq OnTheWay' \cup {t}
              /\ u \in OnTheWay'
    BY <1>2, AccessEffect
  <2>2. t \in Jobs /\ FitsAccount(t)
    BY <2>1, InQueue DEF OnTheWay, WindowType, QueuesType, OwnInv
  <2>3. FitsAccount(u)
    BY <2>1, <2>2, ReadFits DEF WindowType
  <2>4. \A x : FitsAccount(x)' <=> FitsAccount(x)
    BY <1>1 DEF FitsAccount, Own, OwnMail
  <2>5. \A x \in OnTheWay' : FitsAccount(x)'
    BY <2>1, <2>3, <2>4 DEF OwnInv
  <2>6. OwnFolders'
    BY <1>1, <2>1 DEF OwnInv, OwnFolders, Own
  <2>7. OwnShown'
    BY <1>1 DEF OwnInv, OwnShown, Own, OwnMail
  <2>8. QED
    BY <2>5, <2>6, <2>7 DEF OwnInv
<1>3. CASE Answer(i)
  <2>1. OnTheWay' = OnTheWay
    BY <1>3, AnswerEffect DEF WindowType
  <2>2. QED
    BY <1>1, <2>1, OwnKept
<1>4. QED
  BY <1>2, <1>3 DEF TaskFails, Calm

LEMMA OwnDraw ==
    ASSUME MailWindowAssumption, WindowType, OwnInv, Calm, Draw
    PROVE  OwnInv'
<1> USE DEF WindowType
<1>1. /\ Targets = Accounts \cup Folders \cup Messages \cup {None}
      /\ {} \in Flags
      /\ Kinds = {"accounts", "folders", "list", "search", "detail", "flags", "delete"}
  BY DEF Targets, Flags, Kinds
<1>2. ASSUME NEW kind, Take(kind), UNCHANGED tasks
      PROVE  /\ OnTheWay' \subseteq OnTheWay /\ OnTheWay \subseteq OnTheWay' \cup {Head(answers)}
             /\ Head(answers).kind = kind /\ Head(answers).read
             /\ Head(answers) \in Jobs /\ FitsAccount(Head(answers)) /\ UNCHANGED setting
  BY <1>2, TakeEffect DEF OnTheWay, OwnInv, Take
<1>3. ASSUME NEW kind, Take(kind), NEW t \in Jobs, Start(t)
      PROVE  /\ OnTheWay' \subseteq OnTheWay \cup {t}
             /\ OnTheWay \subseteq OnTheWay' \cup {Head(answers)}
             /\ t \in OnTheWay'
             /\ Head(answers).kind = kind /\ Head(answers).read
             /\ Head(answers) \in Jobs /\ FitsAccount(Head(answers)) /\ UNCHANGED setting
  BY <1>3, TakeEffect, StartEffect DEF OnTheWay, OwnInv, Take
<1>4. CASE AccountsLoaded
  <2>1. Take("accounts") /\ UNCHANGED <<folder, folders, list, message, detail, searching>>
    BY <1>4 DEF AccountsLoaded
  <2>2. Head(answers).data = Accounts
    BY <2>1, TakeEffect DEF OwnInv, FitsAccount
  <2>3. CASE UNCHANGED <<account, tasks>>
    BY <1>2, <2>1, <2>3, OwnKept
  <2>4. ASSUME NEW first \in Accounts, account \notin Accounts, account' = first,
               Start(Task("folders", first))
        PROVE  OwnInv'
    <3>1. account = None
      BY <2>4 DEF ShownType
    <3>2. Task("folders", first) \in Jobs
      BY <1>1, NewJob
    <3>3. \A t \in OnTheWay' : t \in OnTheWay \/ t = Task("folders", first)
      BY <1>3, <2>1, <2>4, <3>2
    <3>4. \A t \in OnTheWay : t.kind = "accounts" /\ FitsAccount(t)
      BY <3>1 DEF OwnInv, FitsAccount
    <3>5. \A t \in OnTheWay' : FitsAccount(t)'
      <4> SUFFICES ASSUME NEW t \in OnTheWay' PROVE FitsAccount(t)'
        OBVIOUS
      <4>1. first # None
        BY NobodyOwns
      <4>2. CASE t \in OnTheWay
        BY <3>4, <4>2 DEF FitsAccount
      <4>3. CASE t = Task("folders", first)
        BY <2>4, <4>1, <4>3 DEF FitsAccount, Task
      <4>4. QED
        BY <3>3, <4>2, <4>3
    <3>6. OwnShown' /\ OwnFolders'
      BY <2>1, <2>4, <3>1, NobodyOwns DEF OwnInv, OwnShown, OwnFolders
    <3>7. QED
      BY <3>5, <3>6 DEF OwnInv
  <2>5. QED
    BY <1>4, <2>2, <2>3, <2>4 DEF AccountsLoaded
<1>5. CASE FoldersLoaded
  <2>1. /\ Take("folders") /\ folders' = Head(answers).data
        /\ UNCHANGED <<account, list, message, detail, searching>>
    BY <1>5 DEF FoldersLoaded
  <2>2. \A f \in folders' : account # None /\ Own(f) /\ f \in Folders
    BY <2>1, TakeEffect DEF OwnInv, FitsAccount, Jobs, IsJob
  <2>3. CASE UNCHANGED <<folder, tasks>>
    BY <1>2, <2>1, <2>2, <2>3, OwnKept
  <2>4. ASSUME NEW f \in folders', folder' = f, Start(Task("list", f))
        PROVE  OwnInv'
    <3>1. account # None /\ Own(f) /\ Task("list", f) \in Jobs
      BY <1>1, <2>2, NewJob
    <3>2. FitsAccount(Task("list", f))
      BY <3>1, NewFits DEF Task
    <3>3. \A t \in OnTheWay' : t \in OnTheWay \/ FitsAccount(t)
      BY <1>3, <2>1, <2>4, <3>1, <3>2
    <3>4. UNCHANGED setting
      BY <2>1 DEF Take
    <3>5. QED
      BY <2>1, <2>2, <2>4, <3>1, <3>3, <3>4, OwnKept DEF Own
  <2>5. QED
    BY <1>5, <2>3, <2>4 DEF FoldersLoaded
<1>6. CASE MessagesLoaded
  <2>1. PICK kind \in {"list", "search"} : Take(kind)
    BY <1>6 DEF MessagesLoaded
  <2>2. list' = Head(answers).data /\ UNCHANGED <<account, folder, folders, detail, tasks>>
    BY <1>6 DEF MessagesLoaded
  <2>3. \A e \in list' : account # None /\ OwnMail(e)
    BY <2>1, <2>2, TakeEffect DEF OwnInv, FitsAccount
  <2>4. QED
    BY <1>2, <2>1, <2>2, <2>3, OwnKept
<1>7. CASE DetailLoaded
  <2>1. Take("detail") /\ detail' = Head(answers).data
        /\ UNCHANGED <<account, folder, folders, list, tasks>>
    BY <1>7 DEF DetailLoaded
  <2>2. \A e \in detail' : account # None /\ OwnMail(e)
    BY <2>1, TakeEffect DEF OwnInv, FitsAccount
  <2>3. QED
    BY <1>2, <2>1, <2>2, OwnKept
<1>8. CASE FlagsUpdated
  <2>1. Take("flags") /\ UNCHANGED <<account, folder, folders, tasks>>
    BY <1>8 DEF FlagsUpdated
  <2>2. Head(answers).flags \in Flags
    BY <2>1, TakeEffect DEF Jobs
  <2>3. /\ \A e \in list' : e.id \in Ids(list)
        /\ \A e \in detail' : e.id \in Ids(detail)
    BY <1>8, <2>2, FlagsType DEF FlagsUpdated, ShownType, Ids
  <2>4. QED
    BY <1>2, <2>1, <2>3, OwnKept
<1>9. CASE MessageDeleted
  <2>1. Take("delete") /\ UNCHANGED <<account, folder, folders, tasks>>
    BY <1>9 DEF MessageDeleted
  <2>2. (\A e \in list' : e.id \in Ids(list)) /\ (\A e \in detail' : e.id \in Ids(detail))
    BY <1>9 DEF MessageDeleted, Ids
  <2>3. QED
    BY <1>2, <2>1, <2>2, OwnKept
<1>10. ASSUME NEW f \in Folders, NewMessages(f) \/ FolderUpdated(f) PROVE OwnInv'
  <2>1. UNCHANGED <<setting, account, folder, folders, list, detail, answers>>
    BY <1>10 DEF NewMessages, FolderUpdated, TakeNews, shown
  <2>2. CASE UNCHANGED tasks
    <3>1. OnTheWay' = OnTheWay
      BY <2>1, <2>2 DEF OnTheWay
    <3>2. QED
      BY <2>1, <3>1, OwnKept
  <2>3. CASE account = Owner[f] /\ Start(Task("list", f))
    <3>1. Task("list", f) \in Jobs
      BY <1>1, NewJob
    <3>2. OnTheWay' = OnTheWay \cup {Task("list", f)}
      BY <2>1, <2>3, <3>1, StartEffect DEF OnTheWay
    <3>3. FitsAccount(Task("list", f))
      BY <2>3, NobodyOwns, NewFits DEF Task, Own
    <3>4. QED
      BY <2>1, <3>2, <3>3, OwnKept
  <2>4. QED
    BY <1>10, <2>2, <2>3 DEF NewMessages, FolderUpdated
<1>11. QED
  BY <1>4, <1>5, <1>6, <1>7, <1>8, <1>9, <1>10 DEF Draw

\* A click finds nothing on its way, and starts at most one task.
LEMMA OwnClick ==
    ASSUME MailWindowAssumption, WindowType, OwnInv, Calm, User
    PROVE  OwnInv'
<1> USE DEF WindowType
<1>1. /\ Targets = Accounts \cup Folders \cup Messages \cup {None}
      /\ {} \in Flags
      /\ Kinds = {"accounts", "folders", "list", "search", "detail", "flags", "delete"}
  BY DEF Targets, Flags, Kinds
<1>2. ASSUME NEW use, Click(use)
      PROVE  /\ OnTheWay = {} /\ UNCHANGED <<setting, answers>>
             /\ \A f \in folders : Own(f)
  BY <1>2, EmptyQueue DEF Click, Calm, OnTheWay, OwnInv, OwnFolders
<1>3. ASSUME NEW use, Click(use), UNCHANGED tasks
      PROVE  OnTheWay' = OnTheWay
  BY <1>2, <1>3 DEF OnTheWay
<1>4. ASSUME NEW use, Click(use), NEW t \in Jobs, Start(t)
      PROVE  OnTheWay' = {t}
  <2>1. ToSet(tasks)' = ToSet(tasks) \cup {t} /\ ToSet(answers)' = ToSet(answers)
    BY <1>2, <1>4, StartEffect
  <2>2. QED
    BY <1>2, <1>4, <2>1 DEF OnTheWay
<1>5. ASSUME NEW a \in Accounts, SelectAccount(a) PROVE OwnInv'
  <2>1. Click("navigate") /\ Task("folders", a) \in Jobs /\ Start(Task("folders", a))
    BY <1>1, <1>5, NewJob DEF SelectAccount
  <2>2. OnTheWay' = {Task("folders", a)} /\ UNCHANGED setting
    BY <1>2, <1>4, <2>1
  <2>3. account' = a /\ a # None /\ folder' = None /\ list' = {} /\ detail' = {}
    BY <1>5, NobodyOwns DEF SelectAccount
  <2>4. \A t \in OnTheWay' : FitsAccount(t)'
    BY <2>2, <2>3 DEF FitsAccount, Task
  <2>5. OwnShown' /\ OwnFolders'
    BY <2>2, <2>3 DEF OwnShown, OwnFolders, Task
  <2>6. QED
    BY <2>4, <2>5 DEF OwnInv
<1>6. ASSUME NEW f \in Folders, SelectFolder(f) PROVE OwnInv'
  <2>1. Click("navigate") /\ Task("list", f) \in Jobs /\ Start(Task("list", f))
    BY <1>1, <1>6, NewJob DEF SelectFolder
  <2>2. OnTheWay' = {Task("list", f)} /\ OnTheWay = {} /\ UNCHANGED setting
    BY <1>2, <1>4, <2>1
  <2>3. Own(f) /\ account # None
    BY <1>2, <1>6, <2>1 DEF OwnInv, OwnShown, SelectFolder
  <2>4. FitsAccount(Task("list", f))
    BY <2>3, NewFits DEF Task
  <2>5. UNCHANGED <<account, folders, list>> /\ detail' = {} /\ folder' = f
    BY <1>6 DEF SelectFolder
  <2>6. QED
    BY <2>2, <2>3, <2>4, <2>5, OwnKept DEF Own
<1>7. ASSUME NEW use, Click(use), NEW t \in Jobs, Start(t), FitsAccount(t),
             UNCHANGED <<account, folder, folders, list, detail>>
      PROVE  OwnInv'
  <2>1. OnTheWay' = {t} /\ OnTheWay = {} /\ UNCHANGED setting
    BY <1>2, <1>4, <1>7
  <2>2. QED
    BY <1>7, <2>1, OwnKept
<1>8. ASSUME NEW e \in Entries, e \in list \cup detail, NEW kind \in {"detail", "flags", "delete"},
             NEW fl \in Flags
      PROVE  /\ Task(kind, e.id) \in Jobs /\ FitsAccount(Task(kind, e.id))
             /\ [Task(kind, e.id) EXCEPT !.flags = fl] \in Jobs
             /\ FitsAccount([Task(kind, e.id) EXCEPT !.flags = fl])
  <2>1. e.id \in Messages
    BY DEF Entries
  <2>2. OwnMail(e) /\ account # None
    BY <1>8 DEF OwnInv, OwnShown
  <2>3. FitsAccount(Task(kind, e.id)) /\ FitsAccount([Task(kind, e.id) EXCEPT !.flags = fl])
    BY <2>2, NewFits DEF Task, OwnMail
  <2>4. QED
    BY <1>1, <2>1, <2>3, NewJob
<1>9. ASSUME NEW e \in Entries, SelectMessage(e) \/ Delete(e) PROVE OwnInv'
  <2>1. Task("detail", e.id) \in Jobs /\ Task("delete", e.id) \in Jobs
        /\ FitsAccount(Task("detail", e.id)) /\ FitsAccount(Task("delete", e.id))
    BY <1>1, <1>8, <1>9 DEF SelectMessage, Delete
  <2>2. QED
    BY <1>7, <1>9, <2>1 DEF SelectMessage, Delete, shown
<1>10. ASSUME NEW e \in Entries, NEW flag \in {"seen", "flagged"}, Toggle(e, flag)
      PROVE  OwnInv'
  <2> DEFINE others == (UNION {d.flags : d \in {l \in list : l.id = e.id}}) \ {flag}
             fl == IF flag \in e.flags THEN others \ {flag} ELSE others \cup {flag}
  <2>1. Click("flags") /\ e \in list \cup detail /\ UNCHANGED shown
    BY <1>10 DEF Toggle
  <2>2. Start([Task("flags", e.id) EXCEPT !.flags = fl])
    BY <1>10 DEF Toggle
  <2>3. fl \in Flags
    BY DEF ShownType, Entries, Flags
  <2> HIDE DEF fl, others
  <2>4. PICK g \in Flags : g = fl
    BY <2>3
  <2>5. /\ [Task("flags", e.id) EXCEPT !.flags = g] \in Jobs
        /\ FitsAccount([Task("flags", e.id) EXCEPT !.flags = g])
    BY <1>8, <2>1
  <2>6. QED
    BY <1>7, <2>1, <2>2, <2>4, <2>5 DEF shown
<1>11. CASE SyncFolder \/ SyncAllFolders
  <2>1. UNCHANGED <<account, folder, folders, list, detail, tasks>>
    BY <1>11 DEF SyncFolder, SyncAllFolders, shown
  <2>2. OnTheWay' = OnTheWay /\ UNCHANGED setting
    BY <1>2, <1>3, <1>11, <2>1 DEF SyncFolder, SyncAllFolders
  <2>3. QED
    BY <2>1, <2>2, OwnKept
<1>12. CASE Search
  <2>1. account # None => Task("search", account) \in Jobs /\ FitsAccount(Task("search", account))
    BY <1>1, NewJob, NewFits DEF ShownType, Task
  <2>2. UNCHANGED <<account, folder, folders, list, detail>> /\ Click("search")
    BY <1>12 DEF Search
  <2>3. CASE UNCHANGED tasks
    <3>1. OnTheWay' = OnTheWay /\ UNCHANGED setting
      BY <1>2, <1>3, <2>2, <2>3
    <3>2. QED
      BY <2>2, <3>1, OwnKept
  <2>4. QED
    BY <1>7, <1>12, <2>1, <2>2, <2>3 DEF Search
<1>13. CASE ClearSearch
  <2>1. folder # None => Task("list", folder) \in Jobs /\ account # None /\ Own(folder)
    BY <1>1, NewJob DEF ShownType, OwnInv, OwnShown
  <2>2. folder # None => FitsAccount(Task("list", folder))
    BY <2>1, NewFits DEF Task
  <2>3. UNCHANGED <<account, folder, folders, list, detail>> /\ Click("search")
    BY <1>13 DEF ClearSearch
  <2>4. CASE UNCHANGED tasks
    <3>1. OnTheWay' = OnTheWay /\ UNCHANGED setting
      BY <1>2, <1>3, <2>3, <2>4
    <3>2. QED
      BY <2>3, <3>1, OwnKept
  <2>5. QED
    BY <1>7, <1>13, <2>1, <2>2, <2>3, <2>4 DEF ClearSearch
<1>14. QED
  BY <1>5, <1>6, <1>9, <1>10, <1>11, <1>12, <1>13 DEF User

LEMMA OwnStep ==
    ASSUME MailWindowAssumption, WindowType, OwnInv, [Next]_vars
    PROVE  OwnInv'
<1>1. ASSUME UNCHANGED <<setting, shown, tasks, answers>> PROVE OwnInv'
  <2>1. OnTheWay' = OnTheWay /\ Calm' = Calm /\ UNCHANGED <<setting, account, folder, folders, list, detail>>
    BY <1>1 DEF OnTheWay, Calm, shown
  <2>2. QED
    BY <2>1, OwnKept DEF OwnInv
<1>2. Calm' = Calm
  <2>1. UNCHANGED setting
    BY DEF Next, Work, Draw, Drawn, Touch, User, Supervisor, Access, Answer, TaskFails, Take,
           AccountsLoaded, FoldersLoaded, MessagesLoaded, DetailLoaded, FlagsUpdated,
           MessageDeleted, NewMessages, FolderUpdated, TakeNews, Click, SelectAccount,
           SelectFolder, SelectMessage, SyncFolder, SyncAllFolders, Search, ClearSearch,
           Toggle, Delete, Store, FindFolders, Relay, vars
  <2>2. QED
    BY <2>1 DEF Calm
<1>3. CASE Calm
  <2>1. CASE Drawn \/ Touch \/ Relay \/ UNCHANGED vars
    BY <1>1, <2>1 DEF Drawn, Touch, Relay, vars
  <2>2. ASSUME NEW m \in Messages, Store(m) PROVE OwnInv'
    BY <1>1, <2>2 DEF Store
  <2>3. ASSUME NEW a \in Accounts, FindFolders(a) PROVE OwnInv'
    BY <1>1, <2>3 DEF FindFolders
  <2>4. QED
    BY <1>3, <2>1, <2>2, <2>3, OwnAccess, OwnDraw, OwnClick DEF Next, Work, Supervisor
<1>4. QED
  BY <1>2, <1>3 DEF OwnInv

\* What an answer answers is of the account that was selected when it was begun.
BegunOwn ==
    Calm =>
        /\ begun.of # None => Owner[In[begun.of]] = begun.at
        /\ \A l \in letters : l.begun.of # None => Owner[In[l.begun.of]] = l.begun.at

OwnEverywhere == WindowType /\ OwnInv /\ SyncsOwnFolder /\ BegunOwn

LEMMA OwnEverywhereInit ==
    ASSUME MailWindowAssumption, ComposerInit
    PROVE  OwnEverywhere
<1>1. Init /\ WindowType
  BY WindowTypeInit DEF ComposerInit
<1>2. OnTheWay = {Task("accounts", None)}
  BY <1>1, EmptyQueue DEF Init, OnTheWay, ToSet
<1>3. OwnInv
  <2>1. account = None /\ folder = None /\ folders = {} /\ list = {} /\ detail = {}
    BY <1>1 DEF Init
  <2>2. FitsAccount(Task("accounts", None))
    BY DEF FitsAccount, Task
  <2>3. OwnFolders /\ OwnShown
    BY <2>1 DEF OwnFolders, OwnShown
  <2>4. QED
    BY <1>2, <2>2, <2>3 DEF OwnInv
<1>4. SyncsOwnFolder /\ BegunOwn
  BY <1>1 DEF SyncsOwnFolder, BegunOwn, ComposerInit, Init
<1>5. QED
  BY <1>1, <1>3, <1>4 DEF OwnEverywhere

\* The main window asks for the synchronization of a folder it shows.
LEMMA SyncsOwnStep ==
    ASSUME MailWindowAssumption, WindowType, OwnInv, SyncsOwnFolder, [Next]_vars
    PROVE  SyncsOwnFolder' /\ UNCHANGED setting
<1>1. UNCHANGED setting
  BY DEF Next, Work, Draw, Drawn, Touch, User, Supervisor, Access, Answer, TaskFails, Take,
         AccountsLoaded, FoldersLoaded, MessagesLoaded, DetailLoaded, FlagsUpdated,
         MessageDeleted, NewMessages, FolderUpdated, TakeNews, Click, SelectAccount,
         SelectFolder, SelectMessage, SyncFolder, SyncAllFolders, Search, ClearSearch,
         Toggle, Delete, Store, FindFolders, Relay, vars
<1>2. CASE SyncFolder
  <2>1. /\ asked' = asked \cup {<<account, folder>>} /\ folder \in folders
        /\ Click("navigate")
    BY <1>2 DEF SyncFolder
  <2>2. Calm => Own(folder)
    BY <2>1, NobodyOwns DEF OwnInv, OwnShown, WindowType, ShownType
  <2>3. QED
    BY <1>1, <2>1, <2>2 DEF SyncsOwnFolder, Calm, Own
<1>3. ASSUME UNCHANGED asked PROVE SyncsOwnFolder'
  BY <1>1, <1>3 DEF SyncsOwnFolder
<1>4. CASE ~ SyncFolder
  <2>1. UNCHANGED asked
    BY <1>4 DEF Next, Work, Draw, Drawn, Touch, User, Supervisor, Access, Answer, TaskFails, Take,
         AccountsLoaded, FoldersLoaded, MessagesLoaded, DetailLoaded, FlagsUpdated,
         MessageDeleted, NewMessages, FolderUpdated, TakeNews, Click, SelectAccount,
         SelectFolder, SelectMessage, SyncAllFolders, Search, ClearSearch,
         Toggle, Delete, Store, FindFolders, Relay, vars, histories
  <2>2. QED
    BY <1>1, <1>3, <2>1
<1>5. QED
  BY <1>1, <1>2, <1>4

\* The composer changes nothing of the main window.
LEMMA ComposingOwn ==
    ASSUME OwnEverywhere, UNCHANGED window
    PROVE  WindowType' /\ OwnInv' /\ SyncsOwnFolder'
<1>1. UNCHANGED <<setting, stored, known, flags, account, folder, folders, list, message, detail,
                  tasks, answers, asked>>
  BY DEF window, db, shown, histories
<1>2. WindowType' /\ SyncsOwnFolder'
  BY <1>1 DEF OwnEverywhere, WindowType, DatabaseType, ShownType, QueuesType, SyncsOwnFolder
<1>3. OnTheWay' = OnTheWay
  BY <1>1 DEF OnTheWay
<1>4. Calm' = Calm
  BY <1>1 DEF Calm
<1>5. OwnInv'
  BY <1>1, <1>3, <1>4, OwnKept DEF OwnEverywhere, OwnInv
<1>6. QED
  BY <1>2, <1>5

LEMMA OwnEverywhereStep ==
    ASSUME MailWindowAssumption, OwnEverywhere, [ComposerNext]_<<vars, composing>>
    PROVE  OwnEverywhere'
<1> USE DEF OwnEverywhere
<1>1. CASE UNCHANGED composing /\ [Next]_vars
  <2>1. WindowType' /\ OwnInv' /\ SyncsOwnFolder' /\ UNCHANGED setting
    BY <1>1, WindowTypeStep, OwnStep, SyncsOwnStep
  <2>2. BegunOwn'
    BY <1>1, <2>1 DEF BegunOwn, Calm, composing
  <2>3. QED
    BY <2>1, <2>2
<1>2. ASSUME UNCHANGED window, BegunOwn' PROVE OwnEverywhere'
  BY <1>2, ComposingOwn
<1>3. ASSUME NEW e \in Entries, Reply(e) \/ Forward(e) PROVE OwnEverywhere'
  <2>1. /\ e \in detail /\ letters' = letters /\ UNCHANGED window
        /\ begun'.of = e.id /\ begun'.at = account
    BY <1>3 DEF Reply, Forward, Begin, Stroke
  <2>2. Calm => OwnMail(e)
    BY <2>1 DEF OwnInv, OwnShown
  <2>3. UNCHANGED setting
    BY <2>1 DEF window
  <2>4. BegunOwn'
    BY <2>1, <2>2, <2>3 DEF BegunOwn, Calm, OwnMail
  <2>5. QED
    BY <1>2, <2>1, <2>4
<1>4. CASE Compose
  <2>1. letters' = letters /\ UNCHANGED window /\ begun'.of = None
    BY <1>4 DEF Compose, Begin, Stroke
  <2>2. UNCHANGED setting
    BY <2>1 DEF window
  <2>3. BegunOwn'
    BY <2>1, <2>2 DEF BegunOwn, Calm
  <2>4. QED
    BY <1>2, <2>1, <2>3
<1>5. CASE Write \/ Send \/ SaveDraft \/ Cancel
  <2>1. /\ UNCHANGED <<begun, window>>
        /\ letters' = letters \/ \E q \in BOOLEAN : letters' = letters \cup {Letter(q)}
    BY <1>5 DEF Write, WriteTo, WriteText, WriteCopies, PickAttachment, RemoveAttachment, Edit,
                Stroke, Send, SaveDraft, Cancel, HandOver
  <2>2. \A q \in BOOLEAN : Letter(q).begun = begun
    BY DEF Letter
  <2>3. UNCHANGED setting
    BY <2>1 DEF window
  <2>4. BegunOwn'
    BY <2>1, <2>2, <2>3 DEF BegunOwn, Calm
  <2>5. QED
    BY <1>2, <2>1, <2>4
<1>6. QED
  BY <1>1, <1>3, <1>4, <1>5 DEF ComposerNext

THEOREM OwnInvariance == ComposerSpec => []OwnEverywhere
BY OwnEverywhereInit, OwnEverywhereStep, MailWindowAssumption, PTL DEF ComposerSpec

\* A folder is synchronized with its own account, for any accounts, however long the user
\* clicks and waits, and in whatever order the tasks of one click end (TopBarAction::SyncFolder).
THEOREM SyncsOwn == ComposerSpec => []SyncsOwnFolder
<1>1. OwnEverywhere => SyncsOwnFolder
  BY DEF OwnEverywhere
<1>2. QED
  BY <1>1, OwnInvariance, PTL

\* An answer leaves from the account whose mail it answers, if that account is selected when
\* it is sent (selected_account).
THEOREM AnswersOwn == ComposerSpec => []AnswersFromOwnAccount
<1>1. OwnEverywhere => AnswersFromOwnAccount
  BY DEF OwnEverywhere, BegunOwn, AnswersFromOwnAccount, Calm
<1>2. QED
  BY <1>1, OwnInvariance, PTL

-----------------------------------------------------------------------------
(***************************************************************************)
(* If tasks end in order, the answers followed by the tasks are one line:   *)
(* a task joins it at the end, reads its data when all before it have read, *)
(* and leaves it at the front, when the window takes its answer.            *)
(***************************************************************************)
Line == answers \o tasks

Joins(line, next, t) ==
    /\ Len(next) = Len(line) + 1
    /\ \A i \in 1..Len(line) : next[i] = line[i]
    /\ next[Len(line) + 1] = t

Leaves(line, next) ==
    /\ Len(line) = Len(next) + 1
    /\ \A i \in 1..Len(next) : next[i] = line[i + 1]

ReadUpTo(line, p) == \A i \in 1..Len(line) : line[i].read <=> i < p

Reads(line, next, p, t) ==
    /\ p \in 1..Len(line) /\ Len(next) = Len(line)
    /\ \A i \in 1..Len(line) : next[i] = IF i = p THEN t ELSE line[i]

Drops(line, next, p) ==
    /\ p \in 1..Len(line) /\ Len(line) = Len(next) + 1
    /\ \A i \in 1..Len(next) : next[i] = IF i < p THEN line[i] ELSE line[i + 1]

IsLine(line) == line \in Seq(Jobs) /\ \E p \in 1..(Len(line) + 1) : ReadUpTo(line, p)

LEMMA LineParts ==
    ASSUME NEW a \in Seq(Jobs), NEW b \in Seq(Jobs)
    PROVE  /\ a \o b \in Seq(Jobs) /\ Len(a \o b) = Len(a) + Len(b)
           /\ \A i \in 1..Len(a) : (a \o b)[i] = a[i] /\ a[i] \in ToSet(a)
           /\ \A i \in 1..Len(b) : (a \o b)[Len(a) + i] = b[i] /\ b[i] \in ToSet(b)
           /\ \A i \in 1..(Len(a) + Len(b)) : (a \o b)[i] \in Jobs
           /\ Len(a) \in Nat /\ Len(b) \in Nat
<1>1. /\ a \o b \in Seq(Jobs) /\ Len(a \o b) = Len(a) + Len(b)
      /\ \A i \in 1..(Len(a) + Len(b)) : (a \o b)[i] = IF i <= Len(a) THEN a[i] ELSE b[i - Len(a)]
      /\ Len(a) \in Nat /\ Len(b) \in Nat /\ DOMAIN a = 1..Len(a) /\ DOMAIN b = 1..Len(b)
  BY ConcatProperties, LenProperties
<1>2. \A i \in 1..Len(a) : (a \o b)[i] = a[i] /\ a[i] \in ToSet(a)
  BY <1>1 DEF ToSet
<1>3. ASSUME NEW i \in 1..Len(b) PROVE (a \o b)[Len(a) + i] = b[i] /\ b[i] \in ToSet(b)
  <2>1. Len(a) + i \in 1..(Len(a) + Len(b)) /\ ~ (Len(a) + i <= Len(a)) /\ Len(a) + i - Len(a) = i
    BY <1>1
  <2>2. (a \o b)[Len(a) + i] = b[Len(a) + i - Len(a)]
    BY <1>1, <2>1
  <2>3. QED
    BY <1>1, <2>1, <2>2 DEF ToSet
<1>4. \A i \in 1..(Len(a) + Len(b)) : (a \o b)[i] \in Jobs
  BY <1>1, ElementOfSeq
<1>5. QED
  BY <1>1, <1>2, <1>3, <1>4

LEMMA JoinsParts ==
    ASSUME NEW a \in Seq(Jobs), NEW b \in Seq(Jobs), NEW t \in Jobs
    PROVE  Joins(a \o b, a \o Append(b, t), t)
<1>1. PICK c \in Seq(Jobs) : c = Append(b, t)
  BY AppendProperties
<1>2. /\ Len(c) = Len(b) + 1 /\ c[Len(b) + 1] = t
      /\ \A i \in 1..Len(b) : c[i] = b[i]
  BY <1>1, AppendProperties
<1>3. /\ Len(a \o c) = Len(a \o b) + 1 /\ Len(a \o b) = Len(a) + Len(b)
      /\ Len(a) \in Nat /\ Len(b) \in Nat
  <2>1. Len(a \o b) = Len(a) + Len(b) /\ Len(a) \in Nat /\ Len(b) \in Nat
    BY LineParts
  <2>2. Len(a \o c) = Len(a) + Len(c)
    BY LineParts
  <2>3. QED
    BY <1>2, <2>1, <2>2
<1>4. (a \o c)[Len(a) + (Len(b) + 1)] = t
  <2>1. Len(b) + 1 \in 1..Len(c)
    BY <1>2, <1>3
  <2>2. QED
    BY <1>2, <2>1, LineParts
<1>5. ASSUME NEW i \in 1..Len(a \o b) PROVE (a \o c)[i] = (a \o b)[i]
  <2>1. CASE i <= Len(a)
    BY <1>3, <2>1, LineParts
  <2>2. CASE ~ (i <= Len(a))
    <3>1. PICK j \in 1..Len(b) : i = Len(a) + j
      <4>1. i - Len(a) \in 1..Len(b) /\ i = Len(a) + (i - Len(a))
        BY <1>3, <2>2
      <4>2. QED
        BY <4>1
    <3>2. j \in 1..Len(c)
      BY <1>2, <1>3
    <3>3. QED
      BY <1>2, <3>1, <3>2, LineParts
  <2>3. QED
    BY <2>1, <2>2
<1>6. QED
  BY <1>1, <1>3, <1>4, <1>5 DEF Joins

LEMMA LeavesParts ==
    ASSUME NEW a \in Seq(Jobs), NEW b \in Seq(Jobs), a # <<>>
    PROVE  Leaves(a \o b, Tail(a) \o b) /\ (a \o b)[1] = Head(a)
<1>1. PICK c \in Seq(Jobs) : c = Tail(a)
  BY HeadTailProperties, EmptySeq
<1>2. /\ Len(a) = Len(c) + 1 /\ Len(c) \in Nat /\ Head(a) = a[1]
      /\ \A i \in 1..Len(c) : c[i] = a[i + 1]
  BY <1>1, HeadTailProperties, LenProperties, EmptySeq
<1>3. /\ Len(a \o b) = Len(c \o b) + 1 /\ Len(c \o b) = Len(c) + Len(b) /\ Len(b) \in Nat
  <2>1. Len(a \o b) = Len(a) + Len(b) /\ Len(b) \in Nat
    BY LineParts
  <2>2. Len(c \o b) = Len(c) + Len(b)
    BY LineParts
  <2>3. QED
    BY <1>2, <2>1, <2>2
<1>4. ASSUME NEW i \in 1..Len(c \o b) PROVE (c \o b)[i] = (a \o b)[i + 1]
  <2>1. CASE i <= Len(c)
    <3>1. i \in 1..Len(c) /\ i + 1 \in 1..Len(a)
      BY <1>2, <1>3, <2>1
    <3>2. QED
      BY <1>2, <3>1, LineParts
  <2>2. CASE ~ (i <= Len(c))
    <3>1. PICK j \in 1..Len(b) : i = Len(c) + j /\ i + 1 = Len(a) + j
      <4>1. i - Len(c) \in 1..Len(b) /\ i = Len(c) + (i - Len(c)) /\ i + 1 = Len(a) + (i - Len(c))
        BY <1>2, <1>3, <2>2
      <4>2. QED
        BY <4>1
    <3>2. QED
      BY <3>1, LineParts
  <2>3. QED
    BY <2>1, <2>2
<1>5. (a \o b)[1] = a[1]
  <2>1. 1 \in 1..Len(a)
    BY <1>2
  <2>2. QED
    BY <2>1, LineParts
<1>6. QED
  BY <1>1, <1>2, <1>3, <1>4, <1>5 DEF Leaves

LEMMA LineStart ==
    ASSUME QueuesType, NEW t \in Jobs, Start(t), UNCHANGED answers
    PROVE  Joins(Line, Line', t) /\ Line' \in Seq(Jobs)
<1>1. PICK a \in Seq(Jobs), b \in Seq(Jobs), c \in Seq(Jobs) :
          a = answers /\ b = tasks /\ c = Append(b, t)
  BY AppendProperties DEF QueuesType
<1>2. Line = a \o b /\ Line' = a \o c
  BY <1>1 DEF Line, Start
<1>3. Joins(a \o b, a \o c, t) /\ a \o c \in Seq(Jobs)
  BY <1>1, JoinsParts, LineParts
<1>4. QED
  BY <1>2, <1>3

\* A line that has been read in order.
LEMMA LineRead ==
    ASSUME QueuesType, NEW p \in 1..(Len(Line) + 1), ReadUpTo(Line, p)
    PROVE  /\ tasks # <<>> /\ ~ tasks[1].read => p = Len(answers) + 1
           /\ tasks # <<>> => Line[Len(answers) + 1] = tasks[1] /\ Len(answers) + 1 \in 1..Len(Line)
<1>1. PICK a \in Seq(Jobs), b \in Seq(Jobs) : a = answers /\ b = tasks
  BY DEF QueuesType
<1>2. Line = a \o b
  BY <1>1 DEF Line
<1>3. /\ Len(a \o b) = Len(a) + Len(b) /\ Len(a) \in Nat /\ Len(b) \in Nat
      /\ \A i \in 1..Len(a) : (a \o b)[i].read
  <2>1. \A i \in 1..Len(a) : (a \o b)[i] \in ToSet(a)
    BY LineParts
  <2>2. QED
    BY <1>1, <2>1, LineParts DEF QueuesType
<1>4. CASE b # <<>>
  <2>1. 1 \in 1..Len(b)
    BY <1>3, <1>4, EmptySeq
  <2>2. (a \o b)[Len(a) + 1] = b[1] /\ Len(a) + 1 \in 1..Len(a \o b)
    BY <1>3, <2>1, LineParts
  <2>3. ~ b[1].read => p = Len(a) + 1
    BY <1>2, <1>3, <2>2 DEF ReadUpTo
  <2>4. QED
    BY <1>1, <1>2, <2>2, <2>3
<1>5. QED
  BY <1>1, <1>4

LEMMA LineAccess ==
    ASSUME WindowType, setting.inOrder, IsLine(Line), NEW i \in DOMAIN tasks, Access(i)
    PROVE  \E p \in 1..Len(Line), u \in Jobs :
              /\ ReadUpTo(Line, p) /\ Line[p] \in Jobs
              /\ tasks[i] = Line[p] /\ u = [Line[p] EXCEPT !.read = TRUE, !.data = Result(Line[p])]
              /\ Reads(Line, Line', p, u)
<1>1. i = 1 /\ ~ tasks[1].read /\ tasks \in Seq(Jobs) /\ answers \in Seq(Jobs)
      /\ tasks # <<>> /\ answers' = answers /\ QueuesType
  BY DEF Access, MayRun, WindowType, QueuesType
<1>2. PICK p \in 1..(Len(Line) + 1) : ReadUpTo(Line, p)
  BY DEF IsLine
<1>3. p = Len(answers) + 1 /\ Line[p] = tasks[1] /\ p \in 1..Len(Line)
  BY <1>1, <1>2, LineRead
<1>4. PICK u \in Jobs : u = [tasks[1] EXCEPT !.read = TRUE, !.data = Result(tasks[1])]
                        /\ tasks' = [tasks EXCEPT ![1] = u]
  BY <1>1, AccessEffect
<1>5. tasks' \in Seq(Jobs) /\ Len(tasks') = Len(tasks)
      /\ \A j \in 1..Len(tasks) : tasks'[j] = IF j = 1 THEN u ELSE tasks[j]
  BY <1>1, <1>4, ExceptSeq, LenProperties
<1>6. PICK a \in Seq(Jobs), b \in Seq(Jobs), c \in Seq(Jobs) :
          a = answers /\ b = tasks /\ c = tasks'
  BY <1>1, <1>5
<1>7. Line = a \o b /\ Line' = a \o c
  BY <1>1, <1>6 DEF Line
<1>8. /\ Len(c) = Len(b) /\ p = Len(a) + 1
      /\ \A j \in 1..Len(b) : c[j] = IF j = 1 THEN u ELSE b[j]
  BY <1>3, <1>5, <1>6
<1>9. /\ Len(a \o b) = Len(a) + Len(b) /\ Len(a) \in Nat /\ Len(b) \in Nat
  BY LineParts
<1>10. Len(a \o c) = Len(a \o b)
  <2>1. Len(a \o c) = Len(a) + Len(c)
    BY LineParts
  <2>2. QED
    BY <1>8, <1>9, <2>1
<1>11. ASSUME NEW j \in 1..Len(a \o b) PROVE (a \o c)[j] = IF j = p THEN u ELSE (a \o b)[j]
  <2>1. CASE j <= Len(a)
    <3>1. j \in 1..Len(a) /\ j # p
      BY <1>8, <1>9, <2>1
    <3>2. QED
      BY <3>1, LineParts
  <2>2. CASE ~ (j <= Len(a))
    <3>1. PICK k \in 1..Len(b) : j = Len(a) + k /\ (j = p <=> k = 1)
      <4>1. j - Len(a) \in 1..Len(b) /\ j = Len(a) + (j - Len(a)) /\ (j = p <=> j - Len(a) = 1)
        BY <1>8, <1>9, <2>2
      <4>2. QED
        BY <4>1
    <3>2. k \in 1..Len(c)
      BY <1>8
    <3>3. (a \o c)[j] = c[k] /\ (a \o b)[j] = b[k]
      BY <3>1, <3>2, LineParts
    <3>4. QED
      BY <1>8, <3>1, <3>3
  <2>3. QED
    BY <2>1, <2>2
<1>12. Reads(Line, Line', p, u)
  BY <1>3, <1>7, <1>10, <1>11 DEF Reads
<1>13. Line[p] \in Jobs
  BY <1>3, <1>1, ElementOfSeq, EmptySeq, LenProperties
<1>14. QED
  BY <1>1, <1>2, <1>3, <1>4, <1>12, <1>13

\* The task at the front of the tasks answers: its place in the line stays.
LEMMA LineAnswer ==
    ASSUME QueuesType, setting.inOrder, NEW i \in DOMAIN tasks, Answer(i)
    PROVE  Line' = Line
<1>1. /\ i = 1 /\ tasks \in Seq(Jobs) /\ answers \in Seq(Jobs) /\ tasks # <<>>
      /\ tasks[1] \in Jobs /\ 1 \in DOMAIN tasks
  BY LenProperties, ElementOfSeq DEF Answer, MayRun, QueuesType
<1>2. /\ tasks' \in Seq(Jobs) /\ Len(tasks') = Len(tasks) - 1
      /\ \A j \in 1..(Len(tasks) - 1) : tasks'[j] = tasks[j + 1]
  <2>1. /\ RemoveAt(tasks, 1) \in Seq(Jobs)
        /\ Len(RemoveAt(tasks, 1)) = Len(tasks) - 1
        /\ \A j \in 1..(Len(tasks) - 1) : RemoveAt(tasks, 1)[j] = IF j < 1 THEN tasks[j] ELSE tasks[j + 1]
    BY <1>1, RemoveAtHolds
  <2>2. tasks' = RemoveAt(tasks, 1)
    BY <1>1 DEF Answer
  <2>3. QED
    BY <2>1, <2>2
<1>3. /\ answers' \in Seq(Jobs) /\ Len(answers') = Len(answers) + 1
      /\ \A j \in 1..Len(answers) : answers'[j] = answers[j]
      /\ answers'[Len(answers) + 1] = tasks[1]
  <2>1. answers' = Append(answers, tasks[1])
    BY <1>1 DEF Answer
  <2>2. QED
    BY <1>1, <2>1, AppendProperties
<1>4. PICK a \in Seq(Jobs), b \in Seq(Jobs), c \in Seq(Jobs), d \in Seq(Jobs) :
          a = answers /\ b = tasks /\ c = answers' /\ d = tasks'
  BY <1>1, <1>2, <1>3
<1>5. Line = a \o b /\ Line' = c \o d
  BY <1>4 DEF Line
<1>6. /\ Len(c) = Len(a) + 1 /\ Len(d) = Len(b) - 1 /\ c[Len(a) + 1] = b[1]
      /\ \A j \in 1..Len(a) : c[j] = a[j]
      /\ \A j \in 1..(Len(b) - 1) : d[j] = b[j + 1]
      /\ Len(a) \in Nat /\ Len(b) \in Nat /\ 1 \in 1..Len(b)
  BY <1>1, <1>2, <1>3, <1>4, LenProperties
<1>7. /\ Len(a \o b) = Len(a) + Len(b) /\ a \o b \in Seq(Jobs)
  BY LineParts
<1>8. /\ Len(c \o d) = Len(c) + Len(d) /\ c \o d \in Seq(Jobs)
  BY LineParts
<1>9. Len(c \o d) = Len(a \o b)
  BY <1>6, <1>7, <1>8
<1>10. ASSUME NEW j \in 1..Len(a \o b) PROVE (c \o d)[j] = (a \o b)[j]
  <2>1. CASE j <= Len(a)
    <3>1. j \in 1..Len(a) /\ j \in 1..Len(c)
      BY <1>6, <1>7, <2>1
    <3>2. QED
      BY <1>6, <3>1, LineParts
  <2>2. CASE j = Len(a) + 1
    <3>1. 1 \in 1..Len(b) /\ j \in 1..Len(c)
      BY <1>6, <2>2
    <3>2. (a \o b)[j] = b[1] /\ (c \o d)[j] = c[j]
      BY <2>2, <3>1, LineParts
    <3>3. QED
      BY <1>6, <2>2, <3>2
  <2>3. CASE j > Len(a) + 1
    <3>1. PICK k \in 1..(Len(b) - 1) : j = Len(a) + (k + 1) /\ j = Len(c) + k
      <4>1. /\ j - (Len(a) + 1) \in 1..(Len(b) - 1)
            /\ j = Len(a) + ((j - (Len(a) + 1)) + 1) /\ j = Len(c) + (j - (Len(a) + 1))
        BY <1>6, <1>7, <2>3
      <4>2. QED
        BY <4>1
    <3>2. k + 1 \in 1..Len(b) /\ k \in 1..Len(d)
      BY <1>6
    <3>3. (a \o b)[j] = b[k + 1] /\ (c \o d)[j] = d[k]
      BY <3>1, <3>2, LineParts
    <3>4. QED
      BY <1>6, <3>3
  <2>4. QED
    BY <1>6, <1>7, <2>1, <2>2, <2>3
<1>11. c \o d = a \o b
  BY <1>7, <1>8, <1>9, <1>10, SeqEqual
<1>12. QED
  BY <1>5, <1>11

LEMMA LineFails ==
    ASSUME QueuesType, setting.inOrder, IsLine(Line), NEW i \in DOMAIN tasks, TaskFails(i)
    PROVE  \E p \in 1..Len(Line) : ReadUpTo(Line, p) /\ Drops(Line, Line', p)
<1>1. /\ i = 1 /\ tasks \in Seq(Jobs) /\ answers \in Seq(Jobs) /\ tasks # <<>>
      /\ 1 \in DOMAIN tasks /\ ~ tasks[1].read /\ answers' = answers
  BY DEF TaskFails, MayRun, QueuesType
<1>2. PICK p \in 1..(Len(Line) + 1) : ReadUpTo(Line, p)
  BY DEF IsLine
<1>3. p = Len(answers) + 1 /\ Line[p] = tasks[1] /\ p \in 1..Len(Line)
  BY <1>1, <1>2, LineRead
<1>4. /\ tasks' \in Seq(Jobs) /\ Len(tasks') = Len(tasks) - 1
      /\ \A j \in 1..(Len(tasks) - 1) : tasks'[j] = tasks[j + 1]
  <2>1. /\ RemoveAt(tasks, 1) \in Seq(Jobs)
        /\ Len(RemoveAt(tasks, 1)) = Len(tasks) - 1
        /\ \A j \in 1..(Len(tasks) - 1) : RemoveAt(tasks, 1)[j] = IF j < 1 THEN tasks[j] ELSE tasks[j + 1]
    BY <1>1, RemoveAtHolds
  <2>2. tasks' = RemoveAt(tasks, 1)
    BY <1>1 DEF TaskFails
  <2>3. QED
    BY <2>1, <2>2
<1>5. PICK a \in Seq(Jobs), b \in Seq(Jobs), c \in Seq(Jobs) :
          a = answers /\ b = tasks /\ c = tasks'
  BY <1>1, <1>4
<1>6. Line = a \o b /\ Line' = a \o c
  BY <1>1, <1>5 DEF Line
<1>7. /\ Len(c) = Len(b) - 1 /\ p = Len(a) + 1 /\ 1 \in 1..Len(b)
      /\ Len(a) \in Nat /\ Len(b) \in Nat
      /\ \A j \in 1..(Len(b) - 1) : c[j] = b[j + 1]
  BY <1>1, <1>3, <1>4, <1>5, LenProperties
<1>8. Len(a \o b) = Len(a) + Len(b)
  BY LineParts
<1>9. Len(a \o c) = Len(a) + Len(c)
  BY LineParts
<1>10. ASSUME NEW j \in 1..Len(a \o c)
       PROVE  (a \o c)[j] = IF j < p THEN (a \o b)[j] ELSE (a \o b)[j + 1]
  <2>1. CASE j <= Len(a)
    <3>1. j \in 1..Len(a) /\ j < p
      BY <1>7, <1>9, <2>1
    <3>2. QED
      BY <3>1, LineParts
  <2>2. CASE ~ (j <= Len(a))
    <3>1. PICK k \in 1..(Len(b) - 1) : j = Len(a) + k /\ j + 1 = Len(a) + (k + 1) /\ ~ (j < p)
      <4>1. /\ j - Len(a) \in 1..(Len(b) - 1) /\ ~ (j < p)
            /\ j = Len(a) + (j - Len(a)) /\ j + 1 = Len(a) + ((j - Len(a)) + 1)
        BY <1>7, <1>9, <2>2
      <4>2. QED
        BY <4>1
    <3>2. k + 1 \in 1..Len(b) /\ k \in 1..Len(c)
      BY <1>7
    <3>3. (a \o b)[j + 1] = b[k + 1] /\ (a \o c)[j] = c[k]
      BY <3>1, <3>2, LineParts
    <3>4. QED
      BY <1>7, <3>1, <3>3
  <2>3. QED
    BY <2>1, <2>2
<1>11. Len(a \o b) = Len(a \o c) + 1
  BY <1>7, <1>8, <1>9
<1>12. Drops(Line, Line', p)
  BY <1>3, <1>6, <1>10, <1>11 DEF Drops
<1>13. QED
  BY <1>2, <1>3, <1>12

-----------------------------------------------------------------------------
(***************************************************************************)
(* A line stays one: what has been read comes first.                        *)
(***************************************************************************)
LEMMA StillLine ==
    ASSUME NEW line, NEW next \in Seq(Jobs), IsLine(line)
    PROVE  /\ Leaves(line, next) => IsLine(next)
           /\ \A t : Joins(line, next, t) /\ ~ t.read => IsLine(next)
           /\ \A p \in 1..Len(line) : \A t :
                 ReadUpTo(line, p) /\ Reads(line, next, p, t) /\ t.read => IsLine(next)
           /\ \A p \in 1..Len(line) : ReadUpTo(line, p) /\ Drops(line, next, p) => IsLine(next)
<1>1. Len(line) \in Nat /\ Len(next) \in Nat
  BY LenProperties DEF IsLine
<1>2. PICK r \in 1..(Len(line) + 1) : ReadUpTo(line, r)
  BY DEF IsLine
<1>3. ASSUME Leaves(line, next) PROVE IsLine(next)
  <2>1. CASE r = 1
    <3>1. 1 \in 1..(Len(next) + 1) /\ ReadUpTo(next, 1)
      BY <1>1, <1>2, <1>3, <2>1 DEF Leaves, ReadUpTo
    <3>2. QED
      BY <3>1 DEF IsLine
  <2>2. CASE r # 1
    <3>1. r - 1 \in 1..(Len(next) + 1) /\ ReadUpTo(next, r - 1)
      BY <1>1, <1>2, <1>3, <2>2 DEF Leaves, ReadUpTo
    <3>2. QED
      BY <3>1 DEF IsLine
  <2>3. QED
    BY <2>1, <2>2
<1>4. ASSUME NEW t, Joins(line, next, t), ~ t.read PROVE IsLine(next)
  <2>1. r \in 1..(Len(next) + 1) /\ ReadUpTo(next, r)
    BY <1>1, <1>2, <1>4 DEF Joins, ReadUpTo
  <2>2. QED
    BY <2>1 DEF IsLine
<1>5. ASSUME NEW p \in 1..Len(line), NEW t, ReadUpTo(line, p), Reads(line, next, p, t), t.read
      PROVE  IsLine(next)
  <2>1. p + 1 \in 1..(Len(next) + 1) /\ ReadUpTo(next, p + 1)
    BY <1>1, <1>5 DEF Reads, ReadUpTo
  <2>2. QED
    BY <2>1 DEF IsLine
<1>6. ASSUME NEW p \in 1..Len(line), ReadUpTo(line, p), Drops(line, next, p) PROVE IsLine(next)
  <2>1. p \in 1..(Len(next) + 1) /\ ReadUpTo(next, p)
    BY <1>1, <1>6 DEF Drops, ReadUpTo
  <2>2. QED
    BY <2>1 DEF IsLine
<1>7. QED
  BY <1>3, <1>4, <1>5, <1>6

-----------------------------------------------------------------------------
(***************************************************************************)
(* What the list shows, or will show of what has been read for it: a        *)
(* message is there with its flags, but for the deletions and the flags     *)
(* whose answers come behind.                                               *)
(***************************************************************************)
Lists(t) == t.kind \in {"list", "search"}
Done(t, kind, m) == t.kind = kind /\ t.of = m /\ t.read

\* Place 0 is the list itself.
Loaded(line, i) == i # 0 => Lists(line[i]) /\ line[i].read
Seen(line, shows, i) == IF i = 0 THEN shows ELSE line[i].data

Gone(line, i, m) == \E j \in 1..Len(line) : j > i /\ Done(line[j], "delete", m)
Unset(line, i, m) == \A j \in 1..Len(line) : j > i => ~ Done(line[j], "flags", m)
Settles(line, i, e, fl) ==
    \/ e.flags = fl /\ Unset(line, i, e.id)
    \/ \E j \in 1..Len(line) :
          j > i /\ Done(line[j], "flags", e.id) /\ line[j].flags = fl /\ Unset(line, j, e.id)

Stands(line, i, e, present, now) ==
    Gone(line, i, e.id) \/ (e.id \in present /\ Settles(line, i, e, now[e.id]))

View(line, shows, present, now) ==
    \A i \in 0..Len(line) : Loaded(line, i) =>
        \A e \in Seen(line, shows, i) : Stands(line, i, e, present, now)

LEMMA ViewJoins ==
    ASSUME NEW line, NEW next, Len(line) \in Nat, NEW t, Joins(line, next, t), ~ t.read,
           NEW shows, NEW fewer \in SUBSET shows, NEW present, NEW now, View(line, shows, present, now)
    PROVE  View(next, fewer, present, now)
<1>1. /\ Len(next) = Len(line) + 1 /\ ~ next[Len(line) + 1].read
      /\ \A i \in 1..Len(line) : next[i] = line[i]
  BY DEF Joins
<1>2. \A i \in 0..Len(line) : \A m : Unset(line, i, m) => Unset(next, i, m)
  BY <1>1 DEF Unset, Done
<1>3. \A i \in 0..Len(line) : \A e : Stands(line, i, e, present, now) => Stands(next, i, e, present, now)
  <2> SUFFICES ASSUME NEW i \in 0..Len(line), NEW e, Stands(line, i, e, present, now)
               PROVE  Stands(next, i, e, present, now)
    OBVIOUS
  <2>1. CASE Gone(line, i, e.id)
    BY <1>1, <2>1 DEF Stands, Gone
  <2>2. CASE e.id \in present /\ e.flags = now[e.id] /\ Unset(line, i, e.id)
    BY <1>2, <2>2 DEF Stands, Settles
  <2>3. CASE /\ e.id \in present
             /\ \E j \in 1..Len(line) : j > i /\ Done(line[j], "flags", e.id)
                                        /\ line[j].flags = now[e.id] /\ Unset(line, j, e.id)
    <3>1. PICK j \in 1..Len(line) : j > i /\ Done(line[j], "flags", e.id)
                                    /\ line[j].flags = now[e.id] /\ Unset(line, j, e.id)
      BY <2>3
    <3>2. j \in 1..Len(next) /\ next[j] = line[j] /\ Unset(next, j, e.id)
      BY <1>1, <1>2, <3>1
    <3>3. QED
      BY <2>3, <3>1, <3>2 DEF Stands, Settles
  <2>4. QED
    BY <2>1, <2>2, <2>3 DEF Stands, Settles
<1>4. SUFFICES ASSUME NEW i \in 0..Len(next), Loaded(next, i), NEW e \in Seen(next, fewer, i)
               PROVE  Stands(next, i, e, present, now)
  BY DEF View
<1>5. i \in 0..Len(line) /\ Loaded(line, i) /\ e \in Seen(line, shows, i)
  BY <1>1, <1>4 DEF Loaded, Seen
<1>6. QED
  BY <1>3, <1>5 DEF View

\* The window takes an answer: data take the place of the list, flags are set in it, and a
\* message is removed from it.
Taken(t, shows, after) ==
    \/ Lists(t) /\ after = t.data
    \/ t.kind = "flags" /\ after = WithFlags(shows, t.of, t.flags)
    \/ t.kind = "delete" /\ after = {e \in shows : e.id # t.of}
    \/ t.kind \in {"accounts", "folders", "detail"} /\ after = shows

LEMMA ViewLeaves ==
    ASSUME NEW line, NEW next, Len(line) \in Nat, Len(next) \in Nat, Leaves(line, next),
           NEW shows \in SUBSET Entries, NEW after, Taken(line[1], shows, after), line[1].read,
           NEW present, NEW now, View(line, shows, present, now)
    PROVE  View(next, after, present, now)
<1>1. /\ Len(line) = Len(next) + 1
      /\ \A i \in 1..Len(next) : next[i] = line[i + 1]
  BY DEF Leaves
<1>2. \A i \in 0..Len(next) : \A m : Unset(line, i + 1, m) => Unset(next, i, m)
  <2> SUFFICES ASSUME NEW i \in 0..Len(next), NEW m, Unset(line, i + 1, m),
                      NEW j \in 1..Len(next), j > i
               PROVE  ~ Done(next[j], "flags", m)
    BY DEF Unset
  <2>1. j + 1 \in 1..Len(line) /\ j + 1 > i + 1 /\ next[j] = line[j + 1]
    BY <1>1
  <2>2. QED
    BY <2>1 DEF Unset
<1>3. ASSUME NEW k \in 2..Len(line)
      PROVE  k - 1 \in 1..Len(next) /\ next[k - 1] = line[k]
  BY <1>1
<1>4. ASSUME NEW i \in 0..Len(next), NEW e, Stands(line, i + 1, e, present, now)
      PROVE  Stands(next, i, e, present, now)
  <2>1. CASE Gone(line, i + 1, e.id)
    <3>1. PICK j \in 1..Len(line) : j > i + 1 /\ Done(line[j], "delete", e.id)
      BY <2>1 DEF Gone
    <3>2. j \in 2..Len(line) /\ j - 1 > i
      BY <3>1
    <3>3. j - 1 \in 1..Len(next) /\ next[j - 1] = line[j]
      BY <1>3, <3>2
    <3>4. QED
      BY <3>1, <3>2, <3>3 DEF Stands, Gone
  <2>2. CASE e.id \in present /\ e.flags = now[e.id] /\ Unset(line, i + 1, e.id)
    BY <1>2, <2>2 DEF Stands, Settles
  <2>3. CASE /\ e.id \in present
             /\ \E j \in 1..Len(line) : j > i + 1 /\ Done(line[j], "flags", e.id)
                                        /\ line[j].flags = now[e.id] /\ Unset(line, j, e.id)
    <3>1. PICK j \in 1..Len(line) : j > i + 1 /\ Done(line[j], "flags", e.id)
                                    /\ line[j].flags = now[e.id] /\ Unset(line, j, e.id)
      BY <2>3
    <3>2. j \in 2..Len(line) /\ j - 1 > i
      BY <3>1
    <3>3. j - 1 \in 1..Len(next) /\ next[j - 1] = line[j] /\ (j - 1) + 1 = j
      BY <1>3, <3>2
    <3>4. Unset(next, j - 1, e.id)
      <4>1. j - 1 \in 0..Len(next)
        BY <3>3
      <4>2. QED
        BY <1>2, <3>1, <3>3, <4>1
    <3>5. QED
      BY <2>3, <3>1, <3>2, <3>3, <3>4 DEF Stands, Settles
  <2>4. QED
    BY <1>4, <2>1, <2>2, <2>3 DEF Stands, Settles
<1>5. ASSUME NEW i \in 1..Len(next), Loaded(next, i), NEW e \in Seen(next, after, i)
      PROVE  Stands(next, i, e, present, now)
  <2>1. i + 1 \in 0..Len(line) /\ i + 1 # 0 /\ next[i] = line[i + 1] /\ i # 0
    BY <1>1
  <2>2. Loaded(line, i + 1) /\ e \in Seen(line, shows, i + 1)
    BY <1>5, <2>1 DEF Loaded, Seen
  <2>3. QED
    BY <1>4, <2>1, <2>2 DEF View
<1>6. ASSUME NEW e \in after PROVE Stands(next, 0, e, present, now)
  <2>0. 1 \in 0..Len(line) /\ 0 \in 0..Len(line) /\ 0 \in 0..Len(next) /\ 1 \in 1..Len(line)
        /\ \A j \in 1..Len(line) : j > 0 => j = 1 \/ j > 1
    BY <1>1
  <2>1. CASE Lists(line[1]) /\ after = line[1].data
    <3>1. Loaded(line, 1) /\ e \in Seen(line, shows, 1)
      BY <1>6, <2>1 DEF Loaded, Seen
    <3>2. Stands(line, 0 + 1, e, present, now)
      BY <2>0, <3>1 DEF View
    <3>3. QED
      BY <1>4, <2>0, <3>2
  <2>2. ASSUME e \in shows PROVE Stands(line, 0, e, present, now)
    BY <2>0, <2>2 DEF View, Loaded, Seen
  <2>3. ASSUME e \in shows, line[1].kind # "flags" \/ line[1].of # e.id,
               line[1].kind # "delete" \/ line[1].of # e.id
        PROVE  Stands(next, 0, e, present, now)
    <3>1. ~ Done(line[1], "flags", e.id) /\ ~ Done(line[1], "delete", e.id)
      BY <2>3 DEF Done
    <3>2. Stands(line, 1, e, present, now)
      <4>1. Gone(line, 0, e.id) => Gone(line, 1, e.id)
        BY <2>0, <3>1 DEF Gone
      <4>2. Settles(line, 0, e, now[e.id]) => Settles(line, 1, e, now[e.id])
        BY <2>0, <3>1 DEF Settles, Unset
      <4>3. QED
        BY <2>2, <2>3, <4>1, <4>2 DEF Stands
    <3>3. QED
      BY <1>4, <2>0, <3>2
  <2>4. CASE line[1].kind = "delete" /\ after = {d \in shows : d.id # line[1].of}
    BY <1>6, <2>3, <2>4
  <2>5. CASE line[1].kind \in {"accounts", "folders", "detail"} /\ after = shows
    BY <1>6, <2>3, <2>5
  <2>6. CASE line[1].kind = "flags" /\ after = WithFlags(shows, line[1].of, line[1].flags)
    <3>1. PICK d \in shows : e = IF d.id = line[1].of THEN [d EXCEPT !.flags = line[1].flags] ELSE d
      BY <1>6, <2>6 DEF WithFlags
    <3>2. d \in Entries
      OBVIOUS
    <3>3. CASE d.id # line[1].of
      BY <2>3, <2>6, <3>1, <3>3
    <3>4. CASE d.id = line[1].of
      <4>1. e.id = d.id /\ e.flags = line[1].flags
        BY <3>1, <3>2, <3>4 DEF Entries
      <4>2. Stands(line, 0, d, present, now)
        BY <2>0 DEF View, Loaded, Seen
      <4>3. Done(line[1], "flags", e.id) /\ ~ Done(line[1], "delete", e.id)
        BY <2>6, <3>4, <4>1 DEF Done
      <4>4. Gone(line, 0, e.id) => Gone(line, 1, e.id)
        BY <2>0, <4>3 DEF Gone
      <4>5. Settles(line, 0, d, now[d.id]) => Settles(line, 1, e, now[e.id])
        <5>1. CASE d.flags = now[d.id] /\ Unset(line, 0, d.id)
          BY <2>0, <4>1, <4>3, <5>1 DEF Unset
        <5>2. ASSUME NEW j \in 1..Len(line), Done(line[j], "flags", d.id),
                     line[j].flags = now[d.id], Unset(line, j, d.id)
              PROVE  Settles(line, 1, e, now[e.id])
          BY <2>0, <4>1, <5>2 DEF Settles
        <5>3. QED
          BY <5>1, <5>2 DEF Settles
      <4>6. Stands(line, 1, e, present, now)
        BY <4>1, <4>2, <4>4, <4>5 DEF Stands
      <4>7. QED
        BY <1>4, <2>0, <4>6
    <3>5. QED
      BY <3>3, <3>4
  <2>7. QED
    BY <2>1, <2>4, <2>5, <2>6 DEF Taken
<1>7. ASSUME NEW i \in 0..Len(next), Loaded(next, i), NEW e \in Seen(next, after, i)
      PROVE  Stands(next, i, e, present, now)
  <2>1. CASE i = 0
    BY <1>6, <1>7, <2>1 DEF Seen
  <2>2. CASE i # 0
    <3>1. i \in 1..Len(next)
      BY <2>2
    <3>2. QED
      BY <1>5, <1>7, <3>1
  <2>3. QED
    BY <2>1, <2>2
<1>8. QED
  BY <1>7 DEF View

\* A task has its turn: it reads, or writes a row.
Wrote(t, present, now, left, after) ==
    /\ left = IF t.kind = "delete" THEN present \ {t.of} ELSE present
    /\ \A m \in present : after[m] = IF t.kind = "flags" /\ m = t.of THEN t.flags ELSE now[m]

LEMMA ViewReads ==
    ASSUME NEW line, NEW next, NEW p \in 1..Len(line), NEW t, Len(line) \in Nat,
           ReadUpTo(line, p), Reads(line, next, p, t),
           t.kind = line[p].kind, t.of = line[p].of, t.flags = line[p].flags, t.read,
           NEW shows, NEW present, NEW now, NEW left, NEW after,
           Wrote(t, present, now, left, after),
           Lists(t) => \A e \in t.data : e.id \in present /\ e.flags = now[e.id],
           View(line, shows, present, now)
    PROVE  View(next, shows, left, after)
<1>1. /\ Len(next) = Len(line) /\ next[p] = t
      /\ \A i \in 1..Len(line) : i # p => next[i] = line[i]
      /\ \A i \in 1..Len(line) : line[i].read <=> i < p
  BY DEF Reads, ReadUpTo
<1>2. SUFFICES ASSUME NEW i \in 0..Len(next), Loaded(next, i), NEW e \in Seen(next, shows, i)
               PROVE  Stands(next, i, e, left, after)
  BY DEF View
<1>3. \A j \in 1..Len(next) : j > p => ~ next[j].read
  BY <1>1
<1>4. CASE i = p
  <2>1. e \in t.data /\ Lists(t)
    BY <1>1, <1>2, <1>4 DEF Loaded, Seen
  <2>2. e.id \in present /\ e.flags = now[e.id] /\ t.kind # "flags" /\ t.kind # "delete"
    BY <2>1 DEF Lists
  <2>3. e.id \in left /\ after[e.id] = now[e.id]
    BY <2>2 DEF Wrote
  <2>4. Unset(next, i, e.id)
    BY <1>3, <1>4 DEF Unset, Done
  <2>5. QED
    BY <2>2, <2>3, <2>4 DEF Stands, Settles
<1>5. CASE i # p
  <2>1. i < p /\ i \in 0..Len(line)
    <3>1. CASE i = 0
      BY <1>1, <3>1
    <3>2. CASE i # 0
      BY <1>1, <1>2, <1>5, <3>2 DEF Loaded
    <3>3. QED
      BY <3>1, <3>2
  <2>2. Loaded(line, i) /\ e \in Seen(line, shows, i)
    BY <1>1, <1>2, <1>5, <2>1 DEF Loaded, Seen
  <2>3. Stands(line, i, e, present, now)
    BY <2>1, <2>2 DEF View
  <2>4. Gone(line, i, e.id) => Gone(next, i, e.id)
    BY <1>1 DEF Gone, Done
  <2>5. ASSUME t.kind = "delete", t.of = e.id PROVE Gone(next, i, e.id)
    BY <1>1, <2>1, <2>5 DEF Gone, Done
  <2>6. ASSUME e.id \in present, t.kind = "flags", t.of = e.id
        PROVE  Settles(next, i, e, after[e.id])
    <3>1. after[e.id] = t.flags
      BY <2>6 DEF Wrote
    <3>2. Unset(next, p, e.id) /\ Done(next[p], "flags", e.id) /\ p > i
      BY <1>1, <1>3, <2>1, <2>6 DEF Unset, Done
    <3>3. QED
      BY <1>1, <3>1, <3>2 DEF Settles
  <2>7. ASSUME e.id \in present, ~ (t.kind = "flags" /\ t.of = e.id)
        PROVE  Settles(line, i, e, now[e.id]) => Settles(next, i, e, after[e.id])
    <3>1. after[e.id] = now[e.id]
      BY <2>7 DEF Wrote
    <3>2. \A j \in 0..Len(line) : Unset(line, j, e.id) => Unset(next, j, e.id)
      BY <1>1, <2>7 DEF Unset, Done
    <3>3. CASE e.flags = now[e.id] /\ Unset(line, i, e.id)
      BY <2>1, <3>1, <3>2, <3>3 DEF Settles
    <3>4. ASSUME NEW j \in 1..Len(line), j > i, Done(line[j], "flags", e.id),
                 line[j].flags = now[e.id], Unset(line, j, e.id)
          PROVE  Settles(next, i, e, after[e.id])
      <4>1. j # p /\ j \in 0..Len(line)
        BY <1>1, <3>4 DEF Done
      <4>2. next[j] = line[j] /\ Unset(next, j, e.id) /\ j \in 1..Len(next)
        BY <1>1, <3>2, <3>4, <4>1
      <4>3. QED
        BY <3>1, <3>4, <4>2 DEF Settles
    <3>5. QED
      BY <3>3, <3>4 DEF Settles
  <2>8. e.id \in present => e.id \in left \/ (t.kind = "delete" /\ t.of = e.id)
    BY DEF Wrote
  <2>9. QED
    BY <2>3, <2>4, <2>5, <2>6, <2>7, <2>8 DEF Stands
<1>6. QED
  BY <1>4, <1>5

\* A task fails before it has read anything.
LEMMA ViewDrops ==
    ASSUME NEW line, NEW next, NEW p \in 1..Len(line), Len(line) \in Nat, Len(next) \in Nat,
           ReadUpTo(line, p), Drops(line, next, p),
           NEW shows, NEW present, NEW now, View(line, shows, present, now)
    PROVE  View(next, shows, present, now)
<1>1. /\ Len(line) = Len(next) + 1
      /\ \A i \in 1..Len(next) : i < p => next[i] = line[i]
      /\ \A i \in 1..Len(next) : next[i].read => i < p
      /\ \A i \in 1..Len(line) : line[i].read <=> i < p
  BY DEF Drops, ReadUpTo
<1>2. \A i \in 1..Len(line) : i < p => i \in 1..Len(next)
  BY <1>1
<1>3. SUFFICES ASSUME NEW i \in 0..Len(next), Loaded(next, i), NEW e \in Seen(next, shows, i)
               PROVE  Stands(next, i, e, present, now)
  BY DEF View
<1>4. i \in 0..Len(line) /\ Loaded(line, i) /\ e \in Seen(line, shows, i)
  BY <1>1, <1>3 DEF Loaded, Seen
<1>5. Stands(line, i, e, present, now)
  BY <1>4 DEF View
<1>6. Gone(line, i, e.id) => Gone(next, i, e.id)
  BY <1>1, <1>2 DEF Gone, Done
<1>7. \A j \in 0..Len(line) : Unset(line, j, e.id) => Unset(next, j, e.id)
  <2> SUFFICES ASSUME NEW j \in 0..Len(line), Unset(line, j, e.id), NEW k \in 1..Len(next),
                      k > j, Done(next[k], "flags", e.id)
               PROVE  FALSE
    BY DEF Unset
  <2>1. k < p /\ next[k] = line[k] /\ k \in 1..Len(line)
    BY <1>1 DEF Done
  <2>2. QED
    BY <2>1 DEF Unset
<1>8. Settles(line, i, e, now[e.id]) => Settles(next, i, e, now[e.id])
  <2>1. CASE e.flags = now[e.id] /\ Unset(line, i, e.id)
    BY <1>4, <1>7, <2>1 DEF Settles
  <2>2. ASSUME NEW j \in 1..Len(line), j > i, Done(line[j], "flags", e.id),
               line[j].flags = now[e.id], Unset(line, j, e.id)
        PROVE  Settles(next, i, e, now[e.id])
    <3>1. j < p /\ j \in 0..Len(line)
      BY <1>1, <2>2 DEF Done
    <3>2. j \in 1..Len(next) /\ next[j] = line[j] /\ Unset(next, j, e.id)
      BY <1>1, <1>2, <1>7, <2>2, <3>1
    <3>3. QED
      BY <2>2, <3>2 DEF Settles
  <2>3. QED
    BY <2>1, <2>2 DEF Settles
<1>9. QED
  BY <1>5, <1>6, <1>8 DEF Stands

\* A message that was not there is stored.
LEMMA ViewStores ==
    ASSUME NEW line, NEW shows, NEW present, NEW now, View(line, shows, present, now),
           NEW m, m \notin present, NEW left, NEW after,
           left = present \cup {m}, \A n \in present : after[n] = now[n]
    PROVE  View(line, shows, left, after)
<1>1. \A i \in 0..Len(line) : \A e : Stands(line, i, e, present, now) => Stands(line, i, e, left, after)
  BY DEF Stands
<1>2. QED
  BY <1>1 DEF View

OrderInv == setting.inOrder => IsLine(Line) /\ View(Line, list, stored, flags)

\* A step of the window that takes an answer, and perhaps starts a task.
LEMMA LineTakes ==
    ASSUME WindowType, NEW kind, Take(kind),
           UNCHANGED tasks \/ \E t \in Jobs : Start(t) /\ ~ t.read
    PROVE  /\ \E rest \in Seq(Jobs) :
                 /\ Leaves(Line, rest)
                 /\ \/ UNCHANGED tasks /\ Line' = rest
                    \/ \E t \in Jobs : Joins(rest, Line', t) /\ ~ t.read /\ Start(t)
           /\ Line[1] = Head(answers) /\ Line[1] \in Jobs /\ Line[1].kind = kind /\ Line[1].read
           /\ Line' \in Seq(Jobs) /\ Line \in Seq(Jobs) /\ 1 \in 1..Len(Line)
<1>1. QueuesType /\ answers # <<>> /\ Head(answers) \in Jobs /\ Head(answers).kind = kind
      /\ Head(answers).read /\ answers' = Tail(answers)
  <2>1. QueuesType
    BY DEF WindowType
  <2>2. QED
    BY <2>1, TakeEffect DEF Take
<1>2. PICK rest \in Seq(Jobs), a \in Seq(Jobs), b \in Seq(Jobs) :
          a = Tail(answers) /\ b = tasks /\ rest = a \o b
  <2>1. Tail(answers) \in Seq(Jobs) /\ tasks \in Seq(Jobs)
    BY <1>1, TailHolds DEF QueuesType
  <2>2. Tail(answers) \o tasks \in Seq(Jobs)
    BY <2>1, LineParts
  <2>3. QED
    BY <2>1, <2>2
<1>3. Line \in Seq(Jobs)
  BY <1>1, LineParts DEF Line, QueuesType
<1>4. Leaves(Line, rest) /\ Line[1] = Head(answers) /\ 1 \in 1..Len(Line)
  <2>1. PICK c \in Seq(Jobs) : c = answers
    BY <1>1 DEF QueuesType
  <2>2. Line = c \o b /\ rest = Tail(c) \o b /\ c # <<>>
    BY <1>1, <1>2, <2>1 DEF Line
  <2>3. Leaves(c \o b, Tail(c) \o b) /\ (c \o b)[1] = Head(c)
    BY <2>2, LeavesParts
  <2>4. Len(Line) = Len(rest) + 1 /\ Len(rest) \in Nat
    BY <1>2, <2>2, <2>3, LenProperties DEF Leaves
  <2>5. QED
    BY <2>1, <2>2, <2>3, <2>4
<1>5. CASE UNCHANGED tasks
  <2>1. Line' = rest
    BY <1>1, <1>2, <1>5 DEF Line
  <2>2. QED
    BY <1>1, <1>2, <1>3, <1>4, <1>5, <2>1
<1>6. ASSUME NEW t \in Jobs, Start(t), ~ t.read
      PROVE  Joins(rest, Line', t) /\ Line' \in Seq(Jobs)
  <2>1. PICK c \in Seq(Jobs) : c = tasks' /\ c = Append(b, t)
    BY <1>2, <1>6, AppendProperties DEF Start
  <2>2. Line' = a \o c
    BY <1>1, <1>2, <2>1 DEF Line
  <2>3. Joins(a \o b, a \o c, t) /\ a \o c \in Seq(Jobs)
    BY <2>1, JoinsParts, LineParts
  <2>4. QED
    BY <1>2, <2>2, <2>3
<1>7. QED
  BY <1>1, <1>2, <1>3, <1>4, <1>5, <1>6

\* A step that starts a task, if any.
MayStart == UNCHANGED tasks \/ \E t \in Jobs : Start(t) /\ ~ t.read

LEMMA StartedJob ==
    ASSUME QueuesType, tasks' \in Seq(Jobs), NEW t, Start(t), ~ t.read
    PROVE  t \in Jobs /\ MayStart
<1>1. PICK s \in Seq(Jobs), n \in Seq(Jobs) : s = tasks /\ n = tasks' /\ n = Append(s, t)
  BY DEF Start, QueuesType
<1>2. s \in Seq(Jobs \cup {t})
  BY SeqMonotonic
<1>3. /\ Len(Append(s, t)) = Len(s) + 1 /\ Append(s, t)[Len(s) + 1] = t /\ Len(s) \in Nat
  BY <1>2, AppendProperties, LenProperties
<1>4. Len(s) + 1 \in 1..Len(n) /\ n[Len(s) + 1] = t
  BY <1>1, <1>3
<1>5. t \in Jobs
  BY <1>1, <1>4, ElementOfSeq
<1>6. QED
  BY <1>5 DEF MayStart

LEMMA StartsNone == QueuesType => \A t \in Jobs : UNCHANGED tasks => ~ Start(t)
<1> SUFFICES ASSUME QueuesType, NEW t \in Jobs, tasks' = tasks, Start(t) PROVE FALSE
  OBVIOUS
<1>1. PICK s \in Seq(Jobs) : s = tasks /\ s = Append(s, t)
  BY DEF QueuesType, Start
<1>2. Len(s) = Len(s) + 1 /\ Len(s) \in Nat
  BY <1>1, AppendProperties, LenProperties
<1>3. QED
  BY <1>2

LEMMA UnreadTask == \A kind, of, fl : ~ Task(kind, of).read /\ ~ [Task(kind, of) EXCEPT !.flags = fl].read
BY DEF Task

LEMMA ClickStarts ==
    ASSUME MailWindowAssumption, WindowType, User
    PROVE  MayStart /\ UNCHANGED <<setting, db, answers>> /\ list' \in {list, {}}
<1>1. QueuesType /\ tasks' \in Seq(Jobs)
  BY ClickType DEF WindowType, QueuesType
<1>2. ASSUME NEW kind, NEW of, NEW fl, Start(Task(kind, of)) \/ Start([Task(kind, of) EXCEPT !.flags = fl])
      PROVE  MayStart
  BY <1>1, <1>2, StartedJob, UnreadTask
<1>3. UNCHANGED tasks => MayStart
  BY DEF MayStart
<1>4. ASSUME NEW a \in Accounts, SelectAccount(a)
      PROVE  MayStart /\ UNCHANGED <<setting, db, answers>> /\ list' \in {list, {}}
  BY <1>2, <1>4 DEF SelectAccount, Click
<1>5. ASSUME NEW f \in Folders, SelectFolder(f)
      PROVE  MayStart /\ UNCHANGED <<setting, db, answers>> /\ list' \in {list, {}}
  BY <1>2, <1>5 DEF SelectFolder, Click
<1>6. ASSUME NEW e \in Entries, SelectMessage(e) \/ Delete(e)
      PROVE  MayStart /\ UNCHANGED <<setting, db, answers>> /\ list' \in {list, {}}
  BY <1>2, <1>6 DEF SelectMessage, Delete, Click, shown
<1>7. ASSUME NEW e \in Entries, NEW flag \in {"seen", "flagged"}, Toggle(e, flag)
      PROVE  MayStart /\ UNCHANGED <<setting, db, answers>> /\ list' \in {list, {}}
  <2>1. \E fl : Start([Task("flags", e.id) EXCEPT !.flags = fl])
    BY <1>7 DEF Toggle
  <2>2. QED
    BY <1>2, <1>7, <2>1 DEF Toggle, Click, shown
<1>8. CASE SyncFolder \/ SyncAllFolders
  BY <1>3, <1>8 DEF SyncFolder, SyncAllFolders, Click, shown
<1>9. CASE Search
  BY <1>2, <1>3, <1>9 DEF Search, Click
<1>10. CASE ClearSearch
  BY <1>2, <1>3, <1>10 DEF ClearSearch, Click
<1>11. QED
  BY <1>4, <1>5, <1>6, <1>7, <1>8, <1>9, <1>10 DEF User

LEMMA OrderStarts ==
    ASSUME WindowType, OrderInv, MayStart, UNCHANGED <<setting, stored, flags, answers>>,
           list' \in {list, {}}
    PROVE  OrderInv'
<1> SUFFICES ASSUME setting.inOrder PROVE IsLine(Line)' /\ View(Line, list, stored, flags)'
  BY DEF OrderInv
<1>1. IsLine(Line) /\ View(Line, list, stored, flags) /\ list' \subseteq list /\ QueuesType
  BY DEF OrderInv, WindowType
<1>2. Len(Line) \in Nat
  BY <1>1, LenProperties DEF IsLine
<1>3. CASE UNCHANGED tasks
  <2>1. Line' = Line
    BY <1>3 DEF Line
  <2>2. View(Line, {}, stored, flags)
    BY <1>1 DEF View, Seen
  <2>3. QED
    BY <1>1, <2>1, <2>2
<1>4. ASSUME NEW t \in Jobs, Start(t), ~ t.read PROVE IsLine(Line)' /\ View(Line, list, stored, flags)'
  <2>1. Joins(Line, Line', t) /\ Line' \in Seq(Jobs)
    BY <1>1, <1>4, LineStart
  <2>2. IsLine(Line')
    BY <1>1, <1>4, <2>1, StillLine
  <2>3. View(Line', list', stored, flags)
    BY <1>1, <1>2, <1>4, <2>1, ViewJoins
  <2>4. QED
    BY <2>2, <2>3
<1>5. QED
  BY <1>3, <1>4 DEF MayStart

LEMMA OrderTakes ==
    ASSUME WindowType, OrderInv, NEW kind, Take(kind), MayStart, Taken(Head(answers), list, list')
    PROVE  OrderInv'
<1>1. UNCHANGED <<setting, stored, flags>>
  BY DEF Take, db
<1> SUFFICES ASSUME setting.inOrder PROVE IsLine(Line)' /\ View(Line, list, stored, flags)'
  BY <1>1 DEF OrderInv
<1>2. PICK rest \in Seq(Jobs) :
          /\ Leaves(Line, rest)
          /\ Line' = rest \/ \E t \in Jobs : Joins(rest, Line', t) /\ ~ t.read
  BY LineTakes DEF MayStart
<1>3. Line[1] = Head(answers) /\ Line[1].read /\ Line' \in Seq(Jobs) /\ Line \in Seq(Jobs)
  BY LineTakes DEF MayStart
<1>4. IsLine(Line) /\ View(Line, list, stored, flags) /\ list \in SUBSET Entries
  BY DEF OrderInv, WindowType, ShownType
<1>5. Len(Line) \in Nat /\ Len(rest) \in Nat
  BY <1>3, LenProperties
<1>6. IsLine(rest)
  BY <1>2, <1>4, StillLine
<1>7. View(rest, list', stored, flags)
  BY <1>2, <1>3, <1>4, <1>5, ViewLeaves
<1>8. CASE Line' = rest
  BY <1>1, <1>6, <1>7, <1>8
<1>9. ASSUME NEW t \in Jobs, Joins(rest, Line', t), ~ t.read
      PROVE  IsLine(Line)' /\ View(Line, list, stored, flags)'
  <2>1. IsLine(Line')
    BY <1>3, <1>6, <1>9, StillLine
  <2>2. list' \in SUBSET list'
    OBVIOUS
  <2>3. View(Line', list', stored, flags)
    BY <1>5, <1>7, <1>9, <2>2, ViewJoins
  <2>4. QED
    BY <1>1, <2>1, <2>3
<1>10. QED
  BY <1>2, <1>8, <1>9

LEMMA DrawStarts ==
    ASSUME MailWindowAssumption, WindowType, Draw
    PROVE  MayStart
<1>1. QueuesType /\ tasks' \in Seq(Jobs)
  BY DrawType DEF WindowType, QueuesType
<1>2. ASSUME NEW kind, NEW of, Start(Task(kind, of)) PROVE MayStart
  BY <1>1, <1>2, StartedJob, UnreadTask
<1>3. UNCHANGED tasks => MayStart
  BY DEF MayStart
<1>4. CASE AccountsLoaded
  BY <1>2, <1>3, <1>4 DEF AccountsLoaded
<1>5. CASE FoldersLoaded
  BY <1>2, <1>3, <1>5 DEF FoldersLoaded
<1>6. CASE MessagesLoaded \/ DetailLoaded \/ FlagsUpdated \/ MessageDeleted
  BY <1>3, <1>6 DEF MessagesLoaded, DetailLoaded, FlagsUpdated, MessageDeleted
<1>7. ASSUME NEW f \in Folders, NewMessages(f) \/ FolderUpdated(f) PROVE MayStart
  BY <1>2, <1>3, <1>7 DEF NewMessages, FolderUpdated
<1>8. QED
  BY <1>4, <1>5, <1>6, <1>7 DEF Draw

LEMMA OrderDraw ==
    ASSUME MailWindowAssumption, WindowType, OrderInv, Draw
    PROVE  OrderInv'
<1>1. MayStart
  BY DrawStarts
<1>2. ASSUME NEW kind \in {"accounts", "folders", "detail"}, Take(kind), list' = list
      PROVE  OrderInv'
  <2>1. Taken(Head(answers), list, list')
    BY <1>2 DEF Take, Taken
  <2>2. QED
    BY <1>1, <1>2, <2>1, OrderTakes
<1>3. CASE AccountsLoaded \/ FoldersLoaded \/ DetailLoaded
  BY <1>2, <1>3 DEF AccountsLoaded, FoldersLoaded, DetailLoaded
<1>4. CASE MessagesLoaded
  <2>1. PICK kind \in {"list", "search"} : Take(kind)
    BY <1>4 DEF MessagesLoaded
  <2>2. Taken(Head(answers), list, list')
    BY <1>4, <2>1 DEF MessagesLoaded, Take, Taken, Lists
  <2>3. QED
    BY <1>1, <2>1, <2>2, OrderTakes
<1>5. CASE FlagsUpdated
  <2>1. Take("flags") /\ Taken(Head(answers), list, list')
    BY <1>5 DEF FlagsUpdated, Take, Taken
  <2>2. QED
    BY <1>1, <2>1, OrderTakes
<1>6. CASE MessageDeleted
  <2>1. Take("delete") /\ Taken(Head(answers), list, list')
    BY <1>6 DEF MessageDeleted, Take, Taken
  <2>2. QED
    BY <1>1, <2>1, OrderTakes
<1>7. ASSUME NEW f \in Folders, NewMessages(f) \/ FolderUpdated(f) PROVE OrderInv'
  <2>1. UNCHANGED <<setting, stored, flags, answers, list>>
    BY <1>7 DEF NewMessages, FolderUpdated, TakeNews, db, shown
  <2>2. QED
    BY <1>1, <2>1, OrderStarts
<1>8. QED
  BY <1>3, <1>4, <1>5, <1>6, <1>7 DEF Draw

\* What a task reads is in the database, and what it writes is there afterwards.
LEMMA AccessWrites ==
    ASSUME WindowType, NEW i \in DOMAIN tasks, Access(i), NEW u,
           u = [tasks[i] EXCEPT !.read = TRUE, !.data = Result(tasks[i])]
    PROVE  /\ Wrote(u, stored, flags, stored', flags')
           /\ u.kind = tasks[i].kind /\ u.of = tasks[i].of /\ u.flags = tasks[i].flags
           /\ u.read /\ u.data = Result(tasks[i]) /\ tasks[i] \in Jobs /\ u \in Jobs
           /\ Lists(u) => \A e \in u.data : e.id \in stored /\ e.flags = flags[e.id]
<1>1. tasks[i] \in Jobs
  BY LenProperties, ElementOfSeq DEF WindowType, QueuesType
<1>2. PICK t \in Jobs : t = tasks[i]
  BY <1>1
<1>3. /\ u.kind = t.kind /\ u.of = t.of /\ u.flags = t.flags
      /\ u.read /\ u.data = Result(t) /\ u \in Jobs
  BY <1>2, ReadJob DEF WindowType
<1>4. /\ stored' = IF t.kind = "delete" THEN stored \ {t.of} ELSE stored
      /\ flags' = IF t.kind = "flags" /\ t.of \in stored THEN [flags EXCEPT ![t.of] = t.flags] ELSE flags
  BY <1>2 DEF Access
<1>5. flags \in [Messages -> Flags] /\ stored \subseteq Messages
  BY DEF WindowType, DatabaseType
<1>6. Wrote(u, stored, flags, stored', flags')
  BY <1>3, <1>4, <1>5 DEF Wrote
<1>7. Lists(t) => \A e \in Result(t) : e.id \in stored /\ e.flags = flags[e.id]
  BY <1>5 DEF Lists, Result, Entry, MailIn
<1>8. QED
  BY <1>2, <1>3, <1>6, <1>7 DEF Lists

LEMMA OrderAccess ==
    ASSUME WindowType, OrderInv, NEW i \in DOMAIN tasks, Access(i)
    PROVE  OrderInv'
<1>1. UNCHANGED <<setting, list>>
  BY DEF Access, shown
<1> SUFFICES ASSUME setting.inOrder PROVE IsLine(Line)' /\ View(Line, list, stored, flags)'
  BY <1>1 DEF OrderInv
<1>2. IsLine(Line) /\ View(Line, list, stored, flags)
  BY DEF OrderInv
<1>3. PICK p \in 1..Len(Line), u \in Jobs :
          /\ ReadUpTo(Line, p) /\ tasks[i] = Line[p]
          /\ u = [Line[p] EXCEPT !.read = TRUE, !.data = Result(Line[p])]
          /\ Reads(Line, Line', p, u)
  BY <1>2, LineAccess
<1>4. /\ Wrote(u, stored, flags, stored', flags')
      /\ u.kind = Line[p].kind /\ u.of = Line[p].of /\ u.flags = Line[p].flags /\ u.read
      /\ Lists(u) => \A e \in u.data : e.id \in stored /\ e.flags = flags[e.id]
  <2>1. u = [tasks[i] EXCEPT !.read = TRUE, !.data = Result(tasks[i])]
    BY <1>3
  <2>2. /\ Wrote(u, stored, flags, stored', flags')
        /\ u.kind = tasks[i].kind /\ u.of = tasks[i].of /\ u.flags = tasks[i].flags /\ u.read
        /\ Lists(u) => \A e \in u.data : e.id \in stored /\ e.flags = flags[e.id]
    BY <2>1, AccessWrites
  <2>3. QED
    BY <1>3, <2>2
<1>5. Len(Line) \in Nat
  BY <1>2, LenProperties DEF IsLine
<1>6. Line' \in Seq(Jobs)
  BY AccessEffect, LineParts DEF QueuesType, Line
<1>7. IsLine(Line')
  BY <1>2, <1>3, <1>4, <1>6, StillLine
<1>8. View(Line', list, stored', flags')
  <2>1. PICK line, next, shows, present, now, left, after :
            /\ line = Line /\ next = Line' /\ shows = list
            /\ present = stored /\ now = flags /\ left = stored' /\ after = flags'
    OBVIOUS
  <2>2. /\ p \in 1..Len(line) /\ Len(line) \in Nat /\ ReadUpTo(line, p) /\ Reads(line, next, p, u)
        /\ View(line, shows, present, now) /\ Wrote(u, present, now, left, after)
        /\ u.kind = line[p].kind /\ u.of = line[p].of /\ u.flags = line[p].flags /\ u.read
    BY <1>2, <1>3, <1>4, <1>5, <2>1
  <2>3. Lists(u) => \A e \in u.data : e.id \in present /\ e.flags = now[e.id]
    BY <1>4, <2>1
  <2>4. View(next, shows, left, after)
    BY <2>2, <2>3, ViewReads
  <2>5. QED
    BY <2>1, <2>4
<1>9. QED
  BY <1>1, <1>7, <1>8

LEMMA OrderStep ==
    ASSUME MailWindowAssumption, WindowType, OrderInv, [Next]_vars
    PROVE  OrderInv'
<1>1. QueuesType
  BY DEF WindowType
<1>2. ASSUME UNCHANGED <<setting, stored, flags, list>>, setting.inOrder => Line' = Line PROVE OrderInv'
  BY <1>2 DEF OrderInv
<1>3. ASSUME NEW i \in DOMAIN tasks, Answer(i) PROVE OrderInv'
  <2>1. UNCHANGED <<setting, stored, flags, list>>
    BY <1>3 DEF Answer, db, shown
  <2>2. setting.inOrder => Line' = Line
    BY <1>1, <1>3, LineAnswer
  <2>3. QED
    BY <1>2, <2>1, <2>2
<1>4. ASSUME NEW i \in DOMAIN tasks, TaskFails(i) PROVE OrderInv'
  <2>1. UNCHANGED <<setting, stored, flags, list>>
    BY <1>4 DEF TaskFails, db, shown
  <2> SUFFICES ASSUME setting.inOrder PROVE IsLine(Line)' /\ View(Line, list, stored, flags)'
    BY <2>1 DEF OrderInv
  <2>2. IsLine(Line) /\ View(Line, list, stored, flags)
    BY DEF OrderInv
  <2>3. PICK p \in 1..Len(Line) : ReadUpTo(Line, p) /\ Drops(Line, Line', p)
    BY <1>1, <1>4, <2>2, LineFails
  <2>4. Line' \in Seq(Jobs)
    BY <1>1, <1>4, TaskFailsEffect, LineParts DEF QueuesType, Line
  <2>5. Len(Line) \in Nat /\ Len(Line') \in Nat
    BY <2>2, <2>4, LenProperties DEF IsLine
  <2>6. IsLine(Line') /\ View(Line', list, stored, flags)
    BY <2>2, <2>3, <2>4, <2>5, StillLine, ViewDrops
  <2>7. QED
    BY <2>1, <2>6
<1>5. CASE Drawn \/ Touch \/ Relay \/ UNCHANGED vars
  BY <1>2, <1>5 DEF Drawn, Touch, Relay, db, shown, vars, Line
<1>6. ASSUME NEW a \in Accounts, FindFolders(a) PROVE OrderInv'
  BY <1>2, <1>6 DEF FindFolders, shown, Line
<1>7. ASSUME NEW m \in Messages, Store(m) PROVE OrderInv'
  <2>1. /\ UNCHANGED <<setting, list>> /\ Line' = Line
        /\ m \notin stored /\ stored' = stored \cup {m}
        /\ flags' = [flags EXCEPT ![m] = {}]
    BY <1>7 DEF Store, shown, Line
  <2>2. \A n \in stored : flags'[n] = flags[n]
    BY <2>1 DEF WindowType, DatabaseType
  <2>3. View(Line, list, stored, flags) => View(Line, list, stored', flags')
    <3>1. PICK present, now, left, after :
              present = stored /\ now = flags /\ left = stored' /\ after = flags'
      OBVIOUS
    <3>2. m \notin present /\ left = present \cup {m} /\ \A n \in present : after[n] = now[n]
      BY <2>1, <2>2, <3>1
    <3>3. View(Line, list, present, now) => View(Line, list, left, after)
      BY <3>2, ViewStores
    <3>4. QED
      BY <3>1, <3>3
  <2>4. QED
    BY <2>1, <2>3 DEF OrderInv
<1>8. CASE User
  BY <1>8, ClickStarts, OrderStarts DEF db
<1>9. QED
  BY <1>3, <1>4, <1>5, <1>6, <1>7, <1>8, OrderAccess, OrderDraw DEF Next, Work, Supervisor

LEMMA OrderInit ==
    ASSUME MailWindowAssumption, Init
    PROVE  OrderInv
<1>1. Task("accounts", None) \in Jobs
  BY NewJob DEF Kinds, Targets, Flags
<1>2. PICK a \in Seq(Jobs), b \in Seq(Jobs) :
          a = answers /\ b = tasks /\ Len(a) = 0 /\ Len(b) = 1 /\ b[1] = Task("accounts", None)
  <2>1. answers = <<>> /\ tasks = <<Task("accounts", None)>>
    BY DEF Init
  <2>2. <<>> \in Seq(Jobs) /\ Len(<<>>) = 0
    BY EmptySeq
  <2>3. PICK t \in Jobs : t = Task("accounts", None)
    BY <1>1
  <2>4. <<t>> \in Seq(Jobs) /\ Len(<<t>>) = 1 /\ <<t>>[1] = t
    OBVIOUS
  <2>5. QED
    BY <2>1, <2>2, <2>3, <2>4
<1>3. Line \in Seq(Jobs) /\ Len(Line) = 1 /\ Line[1] = Task("accounts", None)
  <2>1. Len(a \o b) = 1 /\ a \o b \in Seq(Jobs)
    BY <1>2, LineParts
  <2>2. (a \o b)[Len(a) + 1] = b[1]
    <3>1. 1 \in 1..Len(b)
      BY <1>2
    <3>2. QED
      BY <3>1, LineParts
  <2>3. QED
    BY <1>2, <2>1, <2>2 DEF Line
<1>4. 1 \in 1..(Len(Line) + 1) /\ ReadUpTo(Line, 1)
  BY <1>3, UnreadTask DEF ReadUpTo
<1>5. View(Line, list, stored, flags)
  <2>1. list = {}
    BY DEF Init
  <2>2. \A i \in 0..Len(Line) : i = 0 \/ i = 1
    BY <1>3
  <2>3. ~ Loaded(Line, 1)
    BY <1>3, UnreadTask DEF Loaded
  <2>4. QED
    BY <2>1, <2>2, <2>3 DEF View, Seen
<1>6. QED
  BY <1>3, <1>4, <1>5 DEF OrderInv, IsLine

-----------------------------------------------------------------------------
(***************************************************************************)
(* Folders, if tasks end in order and none fails: of what has been asked    *)
(* for, the last is of the account that is selected. "kept" says that the   *)
(* list of folders is not refreshed.                                        *)
(***************************************************************************)
OwnedBy(a, fs) == {f \in fs : Owner[f] = a}

Loads(line, kind) == \E i \in 1..Len(line) : line[i].kind = kind

FoldersCome(line, a, there, kept) ==
    \A i \in 1..Len(line) :
        /\ line[i].kind = "accounts" /\ line[i].read => line[i].data = Accounts
        /\ line[i].kind = "folders" =>
             line[i].of = a \/ \E j \in 1..Len(line) : j > i /\ line[j].kind = "folders"
        /\ line[i].kind = "folders" /\ line[i].read =>
             /\ \A f \in line[i].data : Owner[f] = line[i].of
             /\ kept => line[i].data = OwnedBy(line[i].of, there)

FoldersShown(line, a, shows, there, kept) ==
    ~ Loads(line, "folders") =>
        /\ \A f \in shows : Owner[f] = a
        /\ kept /\ a # None => shows = OwnedBy(a, there)

Nothing(line, f, fs, ls, ds) ==
    /\ f = None /\ fs = {} /\ ls = {} /\ ds = {}
    /\ \A i \in 1..Len(line) : line[i].kind = "accounts"

LEMMA FoldersJoin ==
    ASSUME NEW line, NEW next, Len(line) \in Nat, NEW t, Joins(line, next, t), ~ t.read,
           NEW a, NEW shows, NEW there, NEW kept,
           FoldersCome(line, a, there, kept), FoldersShown(line, a, shows, there, kept)
    PROVE  /\ t.kind # "folders" =>
                 FoldersCome(next, a, there, kept) /\ FoldersShown(next, a, shows, there, kept)
           /\ t.kind = "folders" =>
                 FoldersCome(next, t.of, there, kept) /\ FoldersShown(next, t.of, shows, there, kept)
<1>1. /\ Len(next) = Len(line) + 1 /\ next[Len(next)] = t /\ Len(next) \in 1..Len(next)
      /\ \A i \in 1..Len(line) : next[i] = line[i] /\ i \in 1..Len(next) /\ i < Len(next)
      /\ \A i \in 1..Len(next) : i \in 1..Len(line) \/ i = Len(next)
  BY DEF Joins
<1>2. CASE t.kind # "folders"
  <2>1. \A i \in 1..Len(line) : line[i].kind = "folders" => i \in 1..Len(next) /\ next[i].kind = "folders"
    BY <1>1
  <2>2. FoldersCome(next, a, there, kept)
    BY <1>1, <1>2, <2>1 DEF FoldersCome
  <2>3. Loads(line, "folders") => Loads(next, "folders")
    BY <2>1 DEF Loads
  <2>4. QED
    BY <1>2, <2>2, <2>3 DEF FoldersShown
<1>3. CASE t.kind = "folders"
  <2>1. FoldersCome(next, t.of, there, kept)
    BY <1>1, <1>3 DEF FoldersCome
  <2>2. Loads(next, "folders")
    BY <1>1, <1>3 DEF Loads
  <2>3. QED
    BY <1>3, <2>1, <2>2 DEF FoldersShown
<1>4. QED
  BY <1>2, <1>3

LEMMA FoldersLeave ==
    ASSUME NEW line, NEW next, Len(line) \in Nat, Len(next) \in Nat, Leaves(line, next), line[1].read,
           NEW a, NEW shows, NEW there, NEW kept,
           FoldersCome(line, a, there, kept), FoldersShown(line, a, shows, there, kept)
    PROVE  /\ FoldersCome(next, a, there, kept)
           /\ line[1].kind # "folders" => FoldersShown(next, a, shows, there, kept)
           /\ line[1].kind = "folders" => FoldersShown(next, a, line[1].data, there, kept)
<1>1. /\ Len(line) = Len(next) + 1 /\ 1 \in 1..Len(line)
      /\ \A i \in 1..Len(next) : next[i] = line[i + 1] /\ i + 1 \in 1..Len(line)
      /\ \A i \in 1..Len(line) : i = 1 \/ (i - 1 \in 1..Len(next) /\ next[i - 1] = line[i])
  BY DEF Leaves
<1>2. FoldersCome(next, a, there, kept)
  <2> SUFFICES ASSUME NEW i \in 1..Len(next)
               PROVE  /\ next[i].kind = "accounts" /\ next[i].read => next[i].data = Accounts
                      /\ next[i].kind = "folders" =>
                           next[i].of = a \/ \E j \in 1..Len(next) : j > i /\ next[j].kind = "folders"
                      /\ next[i].kind = "folders" /\ next[i].read =>
                           /\ \A f \in next[i].data : Owner[f] = next[i].of
                           /\ kept => next[i].data = OwnedBy(next[i].of, there)
    BY DEF FoldersCome
  <2>1. next[i] = line[i + 1] /\ i + 1 \in 1..Len(line)
    BY <1>1
  <2>2. ASSUME NEW j \in 1..Len(line), j > i + 1, line[j].kind = "folders"
        PROVE  \E k \in 1..Len(next) : k > i /\ next[k].kind = "folders"
    <3>1. j - 1 \in 1..Len(next) /\ next[j - 1] = line[j] /\ j - 1 > i
      BY <1>1, <2>2
    <3>2. QED
      BY <2>2, <3>1
  <2>3. QED
    BY <2>1, <2>2 DEF FoldersCome
<1>3. ASSUME ~ Loads(next, "folders") PROVE \A i \in 1..Len(line) : line[i].kind = "folders" => i = 1
  BY <1>1, <1>3 DEF Loads
<1>4. CASE line[1].kind # "folders"
  BY <1>2, <1>3, <1>4 DEF FoldersShown, Loads
<1>5. CASE line[1].kind = "folders"
  <2>1. ASSUME ~ Loads(next, "folders") PROVE line[1].of = a
    BY <1>1, <1>3, <1>5, <2>1 DEF FoldersCome
  <2>2. FoldersShown(next, a, line[1].data, there, kept)
    BY <1>1, <1>5, <2>1 DEF FoldersShown, FoldersCome
  <2>3. QED
    BY <1>2, <1>5, <2>2
<1>6. QED
  BY <1>2, <1>4, <1>5

LEMMA FoldersRead ==
    ASSUME NEW line, NEW next, NEW p \in 1..Len(line), NEW t, Reads(line, next, p, t),
           t.kind = line[p].kind, t.of = line[p].of,
           NEW a, NEW shows, NEW there, NEW kept,
           t.kind = "accounts" => t.data = Accounts,
           t.kind = "folders" => t.data = OwnedBy(t.of, there),
           FoldersCome(line, a, there, kept), FoldersShown(line, a, shows, there, kept)
    PROVE  FoldersCome(next, a, there, kept) /\ FoldersShown(next, a, shows, there, kept)
<1>1. /\ Len(next) = Len(line) /\ next[p] = t
      /\ \A i \in 1..Len(line) : next[i].kind = line[i].kind /\ next[i].of = line[i].of
      /\ \A i \in 1..Len(line) : i # p => next[i] = line[i]
  BY DEF Reads
<1>2. FoldersCome(next, a, there, kept)
  BY <1>1 DEF FoldersCome, OwnedBy
<1>3. Loads(next, "folders") <=> Loads(line, "folders")
  BY <1>1 DEF Loads
<1>4. QED
  BY <1>2, <1>3 DEF FoldersShown

NoRefresh == "refresh" \notin setting.uses

FoldersInv ==
    Orderly =>
        /\ account = None => Nothing(Line, folder, folders, list, detail)
        /\ FoldersCome(Line, account, known, NoRefresh)
        /\ FoldersShown(Line, account, folders, known, NoRefresh)
        /\ NoRefresh => refresh = {}

LEMMA LineInit ==
    ASSUME MailWindowAssumption, Init
    PROVE  /\ Line \in Seq(Jobs) /\ Len(Line) = 1
           /\ Line[1].kind = "accounts" /\ ~ Line[1].read
<1>1. Task("accounts", None) \in Jobs
  BY NewJob DEF Kinds, Targets, Flags
<1>2. PICK a \in Seq(Jobs), b \in Seq(Jobs) :
          a = answers /\ b = tasks /\ Len(a) = 0 /\ Len(b) = 1 /\ b[1] = Task("accounts", None)
  <2>1. answers = <<>> /\ tasks = <<Task("accounts", None)>>
    BY DEF Init
  <2>2. <<>> \in Seq(Jobs) /\ Len(<<>>) = 0
    BY EmptySeq
  <2>3. PICK t \in Jobs : t = Task("accounts", None)
    BY <1>1
  <2>4. <<t>> \in Seq(Jobs) /\ Len(<<t>>) = 1 /\ <<t>>[1] = t
    OBVIOUS
  <2>5. QED
    BY <2>1, <2>2, <2>3, <2>4
<1>3. Len(a \o b) = 1 /\ a \o b \in Seq(Jobs)
  BY <1>2, LineParts
<1>4. (a \o b)[Len(a) + 1] = b[1]
  <2>1. 1 \in 1..Len(b)
    BY <1>2
  <2>2. QED
    BY <2>1, LineParts
<1>5. Line \in Seq(Jobs) /\ Len(Line) = 1 /\ Line[1] = Task("accounts", None)
  BY <1>2, <1>3, <1>4 DEF Line
<1>6. Task("accounts", None).kind = "accounts"
  BY DEF Task
<1>7. QED
  BY <1>5, <1>6, UnreadTask

LEMMA FoldersInit ==
    ASSUME MailWindowAssumption, Init
    PROVE  FoldersInv
<1>1. /\ Len(Line) = 1 /\ Line[1].kind = "accounts" /\ ~ Line[1].read
      /\ \A i \in 1..Len(Line) : i = 1
  <2>1. /\ Len(Line) = 1 /\ Line[1].kind = "accounts" /\ ~ Line[1].read
    BY LineInit
  <2>2. QED
    BY <2>1
<1>2. account = None /\ folder = None /\ folders = {} /\ list = {} /\ detail = {} /\ refresh = {}
  BY DEF Init
<1>3. QED
  BY <1>1, <1>2 DEF FoldersInv, Nothing, FoldersCome, FoldersShown

\* A step that takes no answer.
LEMMA FoldersStarts ==
    ASSUME WindowType, FoldersInv, Orderly, UNCHANGED <<setting, known, answers, folders>>,
           MayStart,
           UNCHANGED tasks => account' = account,
           \A t \in Jobs : Start(t) => account' = IF t.kind = "folders" THEN t.of ELSE account,
           account' # None \/ UNCHANGED <<account, folder, list, detail, tasks>>,
           refresh' \subseteq refresh \/ ~ NoRefresh
    PROVE  FoldersInv'
<1>1. QueuesType /\ Line \in Seq(Jobs)
  BY LineParts DEF WindowType, QueuesType, Line
<1>2. Len(Line) \in Nat
  BY <1>1, LenProperties
<1>3. /\ account = None => Nothing(Line, folder, folders, list, detail)
      /\ FoldersCome(Line, account, known, NoRefresh)
      /\ FoldersShown(Line, account, folders, known, NoRefresh)
      /\ NoRefresh => refresh = {}
  BY DEF FoldersInv
<1>4. NoRefresh' = NoRefresh /\ (NoRefresh' => refresh' = {})
  BY <1>3 DEF NoRefresh
<1>5. FoldersCome(Line, account, known, NoRefresh)' /\ FoldersShown(Line, account, folders, known, NoRefresh)'
  <2>1. CASE UNCHANGED tasks
    <3>1. Line' = Line /\ account' = account
      BY <2>1 DEF Line
    <3>2. QED
      BY <1>3, <1>4, <3>1
  <2>2. ASSUME NEW t \in Jobs, Start(t), ~ t.read
        PROVE  FoldersCome(Line, account, known, NoRefresh)' /\ FoldersShown(Line, account, folders, known, NoRefresh)'
    <3>1. Joins(Line, Line', t)
      BY <1>1, <2>2, LineStart
    <3>2. PICK b : b = account' /\ b = IF t.kind = "folders" THEN t.of ELSE account
      BY <2>2
    <3>3. FoldersCome(Line', b, known, NoRefresh) /\ FoldersShown(Line', b, folders, known, NoRefresh)
      BY <1>2, <1>3, <2>2, <3>1, <3>2, FoldersJoin
    <3>4. QED
      BY <1>4, <3>2, <3>3
  <2>3. QED
    BY <2>1, <2>2 DEF MayStart
<1>6. ASSUME account' = None PROVE Nothing(Line, folder, folders, list, detail)'
  <2>1. UNCHANGED <<account, folder, list, detail, tasks>>
    BY <1>6
  <2>2. Line' = Line
    BY <2>1 DEF Line
  <2>3. QED
    BY <1>3, <1>6, <2>1, <2>2
<1>7. QED
  BY <1>4, <1>5, <1>6 DEF FoldersInv

\* A step that takes one.
LEMMA FoldersTakes ==
    ASSUME WindowType, FoldersInv, Orderly, NEW kind, Take(kind), MayStart,
           folders' = IF kind = "folders" THEN Head(answers).data ELSE folders,
           UNCHANGED tasks => account' = account,
           \A t \in Jobs : Start(t) => account' = IF t.kind = "folders" THEN t.of ELSE account,
           account' # None \/ kind # "accounts" \/ UNCHANGED <<folder, list, detail, tasks>>,
           kind # "accounts" => account' = account
    PROVE  FoldersInv'
<1>1. UNCHANGED <<setting, known, refresh>>
  BY DEF Take, db, supervisor
<1>2. PICK rest \in Seq(Jobs) :
          /\ Leaves(Line, rest)
          /\ \/ UNCHANGED tasks /\ Line' = rest
             \/ \E t \in Jobs : Joins(rest, Line', t) /\ ~ t.read /\ Start(t)
  BY LineTakes DEF MayStart
<1>3. Line[1] = Head(answers) /\ Line[1].kind = kind /\ Line[1].read /\ Line \in Seq(Jobs)
  BY LineTakes DEF MayStart
<1>4. Len(Line) \in Nat /\ Len(rest) \in Nat /\ 1 \in 1..Len(Line)
      /\ \A i \in 1..Len(rest) : rest[i] = Line[i + 1] /\ i + 1 \in 1..Len(Line)
  BY <1>2, <1>3, LenProperties DEF Leaves
<1>5. /\ account = None => Nothing(Line, folder, folders, list, detail)
      /\ FoldersCome(Line, account, known, NoRefresh)
      /\ FoldersShown(Line, account, folders, known, NoRefresh)
      /\ NoRefresh => refresh = {}
  BY DEF FoldersInv
<1>6. NoRefresh' = NoRefresh /\ (NoRefresh' => refresh' = {})
  BY <1>1, <1>5 DEF NoRefresh
<1>7. FoldersCome(rest, account, known, NoRefresh) /\ FoldersShown(rest, account, folders', known, NoRefresh)
  <2>1. PICK fs : fs = folders'
    OBVIOUS
  <2>2. FoldersCome(rest, account, known, NoRefresh) /\ FoldersShown(rest, account, fs, known, NoRefresh)
    BY <1>2, <1>3, <1>4, <1>5, <2>1, FoldersLeave
  <2>3. QED
    BY <2>1, <2>2
<1>8. FoldersCome(Line, account, known, NoRefresh)' /\ FoldersShown(Line, account, folders, known, NoRefresh)'
  <2>1. CASE UNCHANGED tasks
    <3>1. account' = account
      BY <2>1
    <3>2. Line' = rest
      BY <1>2, <2>1, StartsNone DEF WindowType
    <3>3. QED
      BY <1>1, <1>6, <1>7, <3>1, <3>2
  <2>2. ASSUME NEW t \in Jobs, Joins(rest, Line', t), Start(t), ~ t.read
        PROVE  FoldersCome(Line, account, known, NoRefresh)' /\ FoldersShown(Line, account, folders, known, NoRefresh)'
    <3>1. PICK b, fs : b = account' /\ b = (IF t.kind = "folders" THEN t.of ELSE account) /\ fs = folders'
      BY <2>2
    <3>2. FoldersCome(Line', b, known, NoRefresh) /\ FoldersShown(Line', b, fs, known, NoRefresh)
      <4>1. /\ FoldersCome(rest, account, known, NoRefresh)
            /\ FoldersShown(rest, account, fs, known, NoRefresh)
        BY <1>7, <3>1
      <4>2. /\ t.kind # "folders" => /\ FoldersCome(Line', account, known, NoRefresh)
                                     /\ FoldersShown(Line', account, fs, known, NoRefresh)
            /\ t.kind = "folders" => /\ FoldersCome(Line', t.of, known, NoRefresh)
                                     /\ FoldersShown(Line', t.of, fs, known, NoRefresh)
        BY <1>4, <2>2, <4>1, FoldersJoin
      <4>3. QED
        BY <3>1, <4>2
    <3>3. QED
      BY <1>1, <1>6, <3>1, <3>2
  <2>3. QED
    BY <1>2, <2>1, <2>2
<1>9. ASSUME account' = None PROVE Nothing(Line, folder, folders, list, detail)'
  <2>1. account = None /\ kind = "accounts"
    BY <1>3, <1>4, <1>5, <1>9 DEF Nothing
  <2>2. UNCHANGED <<folder, list, detail, tasks, folders>>
    BY <1>9, <2>1
  <2>3. Line' = rest
    BY <1>2, <2>2, StartsNone DEF WindowType
  <2>4. QED
    BY <1>4, <1>5, <2>1, <2>2, <2>3 DEF Nothing
<1>10. QED
  BY <1>6, <1>8, <1>9 DEF FoldersInv

LEMMA NobodyThere == MailWindowAssumption => None \notin Accounts /\ None \notin Folders /\ None \notin Messages
BY DEF MailWindowAssumption

LEMMA StartsOne ==
    ASSUME QueuesType, NEW t \in Jobs, NEW u \in Jobs, Start(t), Start(u)
    PROVE  t = u
<1>1. PICK s \in Seq(Jobs) : s = tasks
  BY DEF QueuesType
<1>2. Append(s, t) = Append(s, u)
  BY <1>1 DEF Start
<1>3. Append(s, t)[Len(s) + 1] = t /\ Append(s, u)[Len(s) + 1] = u
  BY AppendProperties
<1>4. QED
  BY <1>2, <1>3

\* A job that is started is a job, and says what it is.
LEMMA NewJobs ==
    /\ \A a \in Accounts : Task("folders", a) \in Jobs /\ Task("search", a) \in Jobs
    /\ \A f \in Folders : Task("list", f) \in Jobs
    /\ \A m \in Messages : Task("detail", m) \in Jobs /\ Task("delete", m) \in Jobs
    /\ \A m \in Messages, fl \in Flags : [Task("flags", m) EXCEPT !.flags = fl] \in Jobs
    /\ \A kind, of, fl :
          /\ Task(kind, of).kind = kind /\ Task(kind, of).of = of
          /\ [Task(kind, of) EXCEPT !.flags = fl].kind = kind
          /\ [Task(kind, of) EXCEPT !.flags = fl].of = of
          /\ [Task(kind, of) EXCEPT !.flags = fl].flags = fl
<1>1. /\ Accounts \subseteq Targets /\ Folders \subseteq Targets /\ Messages \subseteq Targets
      /\ {} \in Flags
      /\ Kinds = {"accounts", "folders", "list", "search", "detail", "flags", "delete"}
  BY DEF Targets, Flags, Kinds
<1>2. \A kind, of, fl :
          /\ Task(kind, of).kind = kind /\ Task(kind, of).of = of
          /\ [Task(kind, of) EXCEPT !.flags = fl].kind = kind
          /\ [Task(kind, of) EXCEPT !.flags = fl].of = of
          /\ [Task(kind, of) EXCEPT !.flags = fl].flags = fl
  BY DEF Task
<1>3. ASSUME NEW a \in Accounts PROVE Task("folders", a) \in Jobs /\ Task("search", a) \in Jobs
  BY <1>1, NewJob
<1>4. ASSUME NEW f \in Folders PROVE Task("list", f) \in Jobs
  BY <1>1, NewJob
<1>5. ASSUME NEW m \in Messages PROVE Task("detail", m) \in Jobs /\ Task("delete", m) \in Jobs
  BY <1>1, NewJob
<1>6. ASSUME NEW m \in Messages, NEW fl \in Flags
      PROVE  [Task("flags", m) EXCEPT !.flags = fl] \in Jobs
  BY <1>1, NewJob
<1>7. QED
  BY <1>2, <1>3, <1>4, <1>5, <1>6

LEMMA FoldersClick ==
    ASSUME MailWindowAssumption, WindowType, FoldersInv, Orderly, User
    PROVE  FoldersInv'
<1>1. MayStart /\ UNCHANGED <<setting, db, answers>> /\ QueuesType
  BY ClickStarts DEF WindowType
<1>2. UNCHANGED <<setting, known, answers>>
  BY <1>1 DEF db
<1>3. account = None => folder = None /\ folders = {} /\ list = {} /\ detail = {}
  BY DEF FoldersInv, Nothing
<1>4. ASSUME NEW t \in Jobs, Start(t), t.kind # "folders", UNCHANGED <<account, folders>>, account # None,
             refresh' = refresh
      PROVE  FoldersInv'
  <2>1. \A u \in Jobs : Start(u) => u = t
    BY <1>1, <1>4, StartsOne
  <2>2. tasks' # tasks
    BY <1>1, <1>4, StartsNone
  <2>3. \A u \in Jobs : Start(u) => account' = IF u.kind = "folders" THEN u.of ELSE account
    BY <1>4, <2>1
  <2>4. QED
    BY <1>1, <1>2, <1>4, <2>2, <2>3, FoldersStarts
<1>5. ASSUME UNCHANGED <<account, folder, folders, list, detail, tasks>>,
             refresh' \subseteq refresh \/ ~ NoRefresh
      PROVE  FoldersInv'
  <2>1. \A u \in Jobs : ~ Start(u)
    BY <1>1, <1>5, StartsNone
  <2>2. QED
    BY <1>1, <1>2, <1>5, <2>1, FoldersStarts
<1>6. ASSUME NEW a \in Accounts, SelectAccount(a) PROVE FoldersInv'
  <2>1. PICK t \in Jobs : t = Task("folders", a) /\ t.kind = "folders" /\ t.of = a
    BY NewJobs
  <2>2. Start(t) /\ account' = a /\ UNCHANGED <<folders, refresh>> /\ a # None
    BY <1>6, <2>1, NobodyThere DEF SelectAccount
  <2>3. \A u \in Jobs : Start(u) => u = t
    BY <1>1, <2>2, StartsOne
  <2>4. tasks' # tasks
    BY <1>1, <2>2, StartsNone
  <2>5. \A u \in Jobs : Start(u) => account' = IF u.kind = "folders" THEN u.of ELSE account
    BY <2>1, <2>2, <2>3
  <2>6. QED
    BY <1>1, <1>2, <2>2, <2>4, <2>5, FoldersStarts
<1>7. ASSUME NEW f \in Folders, SelectFolder(f) PROVE FoldersInv'
  <2>1. PICK t \in Jobs : t = Task("list", f) /\ t.kind = "list"
    BY NewJobs
  <2>2. Start(t) /\ UNCHANGED <<account, folders, refresh>> /\ f \in folders
    BY <1>7, <2>1 DEF SelectFolder
  <2>3. QED
    BY <1>3, <1>4, <2>1, <2>2
<1>8. ASSUME NEW e \in Entries, SelectMessage(e) PROVE FoldersInv'
  <2>1. PICK t \in Jobs : t = Task("detail", e.id) /\ t.kind = "detail"
    BY NewJobs DEF Entries
  <2>2. Start(t) /\ UNCHANGED <<account, folders, refresh>> /\ e \in list
    BY <1>8, <2>1 DEF SelectMessage
  <2>3. QED
    BY <1>3, <1>4, <2>1, <2>2
<1>9. ASSUME NEW e \in Entries, Delete(e) PROVE FoldersInv'
  <2>1. PICK t \in Jobs : t = Task("delete", e.id) /\ t.kind = "delete"
    BY NewJobs DEF Entries
  <2>2. Start(t) /\ UNCHANGED <<account, folders, refresh>> /\ e \in list \cup detail
    BY <1>9, <2>1 DEF Delete, shown
  <2>3. QED
    BY <1>3, <1>4, <2>1, <2>2
<1>10. ASSUME NEW e \in Entries, NEW flag \in {"seen", "flagged"}, Toggle(e, flag) PROVE FoldersInv'
  <2>1. PICK fl : Start([Task("flags", e.id) EXCEPT !.flags = fl])
    BY <1>10 DEF Toggle
  <2>2. PICK t : /\ t = [Task("flags", e.id) EXCEPT !.flags = fl]
                 /\ t.kind = "flags" /\ Start(t) /\ ~ t.read
    <3>1. PICK m : m = e.id
      OBVIOUS
    <3>2. PICK t : t = [Task("flags", m) EXCEPT !.flags = fl]
      OBVIOUS
    <3>3. t.kind = "flags" /\ ~ t.read
      BY <3>2, NewJobs, UnreadTask
    <3>4. QED
      BY <2>1, <3>1, <3>2, <3>3
  <2>3. t \in Jobs
    <3>1. tasks' \in Seq(Jobs)
      BY ClickType DEF WindowType, QueuesType
    <3>2. QED
      BY <1>1, <2>2, <3>1, StartedJob
  <2>4. UNCHANGED <<account, folders, refresh>> /\ e \in list \cup detail
    BY <1>10 DEF Toggle, shown
  <2>5. QED
    BY <1>3, <1>4, <2>2, <2>3, <2>4
<1>11. CASE SyncFolder
  BY <1>5, <1>11 DEF SyncFolder, shown
<1>12. CASE SyncAllFolders
  <2>1. ~ NoRefresh
    BY <1>12 DEF SyncAllFolders, Click, NoRefresh
  <2>2. QED
    BY <1>5, <1>12, <2>1 DEF SyncAllFolders, shown
<1>13. CASE Search
  <2>1. CASE account # None
    <3>1. PICK t \in Jobs : t = Task("search", account) /\ t.kind = "search"
      BY <2>1, NewJobs DEF WindowType, ShownType
    <3>2. Start(t) /\ UNCHANGED <<account, folders, refresh>>
      BY <1>13, <2>1, <3>1 DEF Search
    <3>3. QED
      BY <1>4, <2>1, <3>1, <3>2
  <2>2. CASE account = None
    BY <1>5, <1>13, <2>2 DEF Search
  <2>3. QED
    BY <2>1, <2>2
<1>14. CASE ClearSearch
  <2>1. CASE folder # None
    <3>1. PICK t \in Jobs : t = Task("list", folder) /\ t.kind = "list"
      BY <2>1, NewJobs DEF WindowType, ShownType
    <3>2. Start(t) /\ UNCHANGED <<account, folders, refresh>>
      BY <1>14, <2>1, <3>1 DEF ClearSearch
    <3>3. QED
      BY <1>3, <1>4, <2>1, <3>1, <3>2
  <2>2. CASE folder = None
    BY <1>5, <1>14, <2>2 DEF ClearSearch
  <2>3. QED
    BY <2>1, <2>2
<1>15. QED
  BY <1>6, <1>7, <1>8, <1>9, <1>10, <1>11, <1>12, <1>13, <1>14 DEF User

LEMMA FoldersDraw ==
    ASSUME MailWindowAssumption, WindowType, FoldersInv, Orderly, Draw
    PROVE  FoldersInv'
<1>1. MayStart /\ QueuesType
  BY DrawStarts DEF WindowType
<1>2. /\ FoldersCome(Line, account, known, NoRefresh)
      /\ account = None => Nothing(Line, folder, folders, list, detail)
  BY DEF FoldersInv
<1>3. ASSUME NEW kind, Take(kind), kind \notin {"accounts", "folders"}, UNCHANGED <<account, folders, tasks>>
      PROVE  FoldersInv'
  <2>1. \A u \in Jobs : ~ Start(u)
    BY <1>1, <1>3, StartsNone
  <2>2. QED
    BY <1>1, <1>3, <2>1, FoldersTakes
<1>4. CASE AccountsLoaded
  <2>1. Take("accounts") /\ UNCHANGED <<folder, folders, list, detail>>
    BY <1>4 DEF AccountsLoaded
  <2>2. Head(answers).data = Accounts
    <3>1. Line[1] = Head(answers) /\ Line[1].kind = "accounts" /\ Line[1].read /\ Line \in Seq(Jobs)
      BY <1>1, <2>1, LineTakes DEF MayStart
    <3>2. 1 \in 1..Len(Line)
      BY <1>1, <2>1, LineTakes DEF MayStart
    <3>3. QED
      BY <1>2, <3>1, <3>2 DEF FoldersCome
  <2>3. CASE UNCHANGED <<account, tasks>>
    <3>1. \A u \in Jobs : ~ Start(u)
      BY <1>1, <2>3, StartsNone
    <3>2. QED
      BY <1>1, <2>1, <2>3, <3>1, FoldersTakes
  <2>4. CASE ~ UNCHANGED <<account, tasks>>
    <3>1. PICK first \in Accounts : account' = first /\ Start(Task("folders", first))
      BY <1>4, <2>2, <2>4 DEF AccountsLoaded
    <3>2. PICK t \in Jobs : t = Task("folders", first) /\ t.kind = "folders" /\ t.of = first
      BY NewJobs
    <3>3. \A u \in Jobs : Start(u) => u = t
      BY <1>1, <3>1, <3>2, StartsOne
    <3>4. tasks' # tasks /\ account' # None
      BY <1>1, <3>1, <3>2, StartsNone, NobodyThere
    <3>5. \A u \in Jobs : Start(u) => account' = IF u.kind = "folders" THEN u.of ELSE account
      BY <3>1, <3>2, <3>3
    <3>6. QED
      BY <1>1, <2>1, <3>4, <3>5, FoldersTakes
  <2>5. QED
    BY <2>3, <2>4
<1>5. CASE FoldersLoaded
  <2>1. Take("folders") /\ folders' = Head(answers).data /\ UNCHANGED account
    BY <1>5 DEF FoldersLoaded
  <2>2. ASSUME NEW t \in Jobs, Start(t) PROVE t.kind = "list"
    <3>0. tasks' # tasks
      BY <1>1, <2>2, StartsNone
    <3>1. PICK f : Start(Task("list", f))
      BY <1>5, <3>0 DEF FoldersLoaded
    <3>2. Task("list", f) \in Jobs /\ Task("list", f).kind = "list"
      <4>1. tasks' \in Seq(Jobs)
        BY DrawType DEF WindowType, QueuesType
      <4>2. QED
        BY <1>1, <3>1, <4>1, StartedJob, UnreadTask, NewJobs
    <3>3. QED
      BY <1>1, <2>2, <3>1, <3>2, StartsOne
  <2>3. \A u \in Jobs : Start(u) => account' = IF u.kind = "folders" THEN u.of ELSE account
    BY <2>1, <2>2
  <2>4. QED
    BY <1>1, <2>1, <2>3, FoldersTakes
<1>6. CASE MessagesLoaded \/ DetailLoaded \/ FlagsUpdated \/ MessageDeleted
  BY <1>3, <1>6 DEF MessagesLoaded, DetailLoaded, FlagsUpdated, MessageDeleted
<1>7. ASSUME NEW f \in Folders, NewMessages(f) \/ FolderUpdated(f) PROVE FoldersInv'
  <2>1. UNCHANGED <<setting, known, answers, account, folder, folders, list, detail, refresh>>
    BY <1>7 DEF NewMessages, FolderUpdated, TakeNews, db, shown, supervisor
  <2>2. CASE UNCHANGED tasks
    <3>1. \A u \in Jobs : ~ Start(u)
      BY <1>1, <2>2, StartsNone
    <3>2. QED
      BY <1>1, <2>1, <2>2, <3>1, FoldersStarts
  <2>3. CASE account = Owner[f] /\ Start(Task("list", f))
    <3>1. PICK t \in Jobs : t = Task("list", f) /\ t.kind = "list"
      BY NewJobs
    <3>2. account # None
      BY <2>3, NobodyThere DEF MailWindowAssumption
    <3>3. \A u \in Jobs : Start(u) => u = t
      BY <1>1, <2>3, <3>1, StartsOne
    <3>4. \A u \in Jobs : Start(u) => account' = IF u.kind = "folders" THEN u.of ELSE account
      BY <2>1, <3>1, <3>3
    <3>5. QED
      BY <1>1, <2>1, <3>2, <3>4, FoldersStarts
  <2>4. QED
    BY <1>7, <2>2, <2>3 DEF NewMessages, FolderUpdated
<1>8. QED
  BY <1>4, <1>5, <1>6, <1>7 DEF Draw

LEMMA FoldersAccess ==
    ASSUME MailWindowAssumption, WindowType, OrderInv, FoldersInv, Orderly, NEW i \in DOMAIN tasks, Access(i)
    PROVE  FoldersInv'
<1>1. UNCHANGED <<setting, known, account, folder, folders, list, detail, refresh>>
  BY DEF Access, shown, supervisor
<1>2. IsLine(Line) /\ setting.inOrder
  BY DEF OrderInv, Orderly
<1>3. PICK p \in 1..Len(Line), u \in Jobs :
          /\ ReadUpTo(Line, p) /\ tasks[i] = Line[p]
          /\ u = [Line[p] EXCEPT !.read = TRUE, !.data = Result(Line[p])]
          /\ Reads(Line, Line', p, u)
  BY <1>2, LineAccess
<1>4. u.kind = Line[p].kind /\ u.of = Line[p].of /\ u.data = Result(Line[p])
  <2>1. u = [tasks[i] EXCEPT !.read = TRUE, !.data = Result(tasks[i])]
    BY <1>3
  <2>2. u.kind = tasks[i].kind /\ u.of = tasks[i].of /\ u.data = Result(tasks[i])
    BY <2>1, AccessWrites
  <2>3. QED
    BY <1>3, <2>2
<1>5. /\ u.kind = "accounts" => u.data = Accounts
      /\ u.kind = "folders" => u.data = OwnedBy(u.of, known)
  BY <1>4 DEF Result, FoldersOf, OwnedBy
<1>6. /\ FoldersCome(Line, account, known, NoRefresh)
      /\ FoldersShown(Line, account, folders, known, NoRefresh)
      /\ account = None => Nothing(Line, folder, folders, list, detail)
      /\ NoRefresh => refresh = {}
  BY DEF FoldersInv
<1>7. FoldersCome(Line', account, known, NoRefresh) /\ FoldersShown(Line', account, folders, known, NoRefresh)
  <2>1. PICK line, next, kept : line = Line /\ next = Line' /\ kept = NoRefresh
    OBVIOUS
  <2>2. /\ p \in 1..Len(line) /\ Reads(line, next, p, u) /\ u.kind = line[p].kind /\ u.of = line[p].of
        /\ FoldersCome(line, account, known, kept) /\ FoldersShown(line, account, folders, known, kept)
    BY <1>3, <1>4, <1>6, <2>1
  <2>3. FoldersCome(next, account, known, kept) /\ FoldersShown(next, account, folders, known, kept)
    BY <1>5, <2>2, FoldersRead
  <2>4. QED
    BY <2>1, <2>3
<1>8. account = None => Nothing(Line', folder, folders, list, detail)
  BY <1>3, <1>4, <1>6 DEF Nothing, Reads
<1>9. NoRefresh' = NoRefresh
  BY <1>1 DEF NoRefresh
<1>10. QED
  BY <1>1, <1>6, <1>7, <1>8, <1>9 DEF FoldersInv

LEMMA SettingStays == [Next]_vars => UNCHANGED setting
BY DEF Next, Work, Draw, Drawn, Touch, User, Supervisor, Access, Answer, TaskFails, Take,
       AccountsLoaded, FoldersLoaded, MessagesLoaded, DetailLoaded, FlagsUpdated,
       MessageDeleted, NewMessages, FolderUpdated, TakeNews, Click, SelectAccount,
       SelectFolder, SelectMessage, SyncFolder, SyncAllFolders, Search, ClearSearch,
       Toggle, Delete, Store, FindFolders, Relay, vars

LEMMA FoldersStep ==
    ASSUME MailWindowAssumption, WindowType, OrderInv, FoldersInv, [Next]_vars
    PROVE  FoldersInv'
<1>1. UNCHANGED setting
  BY SettingStays
<1> SUFFICES ASSUME Orderly PROVE FoldersInv'
  BY <1>1 DEF FoldersInv, Orderly
<1>2. setting.inOrder /\ setting.faults = {} /\ QueuesType
  BY DEF Orderly, WindowType
<1>3. ASSUME Line' = Line, UNCHANGED <<setting, known, shown, refresh>> PROVE FoldersInv'
  <2>1. UNCHANGED <<account, folder, folders, list, detail>> /\ NoRefresh' = NoRefresh
    BY <1>3 DEF shown, NoRefresh
  <2>2. QED
    BY <1>3, <2>1 DEF FoldersInv
<1>4. ASSUME NEW i \in DOMAIN tasks, Answer(i) PROVE FoldersInv'
  BY <1>2, <1>3, <1>4, LineAnswer DEF Answer, db, supervisor
<1>5. ASSUME NEW i \in DOMAIN tasks PROVE ~ TaskFails(i)
  BY <1>2 DEF TaskFails
<1>6. CASE Drawn \/ Touch \/ Relay \/ UNCHANGED vars
  BY <1>3, <1>6 DEF Drawn, Touch, Relay, db, vars, supervisor, Line
<1>7. ASSUME NEW a \in Accounts, FindFolders(a) PROVE FoldersInv'
  <2>1. ~ NoRefresh /\ UNCHANGED <<setting, shown>> /\ Line' = Line
    BY <1>7 DEF FindFolders, FoldersInv, Line
  <2>2. ~ NoRefresh'
    BY <2>1 DEF NoRefresh
  <2>3. QED
    BY <2>1, <2>2 DEF FoldersInv, FoldersCome, FoldersShown, shown
<1>8. ASSUME NEW m \in Messages, Store(m) PROVE FoldersInv'
  BY <1>3, <1>8 DEF Store, Line
<1>9. QED
  BY <1>4, <1>5, <1>6, <1>7, <1>8, FoldersAccess, FoldersDraw, FoldersClick DEF Next, Work, Supervisor

-----------------------------------------------------------------------------
(***************************************************************************)
(* The open message, if the user waits for each answer and no task fails:   *)
(* what is shown of a message is of the one that is selected, or what is    *)
(* will come.                                                               *)
(***************************************************************************)
DetailComes == \E t \in OnTheWay : t.kind = "detail"

DetailInv ==
    Calm =>
        /\ \A t \in OnTheWay : t.kind = "detail" => t.of = message /\ Ids(t.data) \subseteq {message}
        /\ \A t, u \in OnTheWay : t.kind = "detail" => u.kind # "delete"
        /\ Ids(detail) \subseteq {message} \/ DetailComes

LEMMA DetailInit ==
    ASSUME Init
    PROVE  DetailInv
<1>1. OnTheWay = {Task("accounts", None)}
  BY EmptyQueue DEF Init, OnTheWay, ToSet
<1>2. detail = {} /\ Task("accounts", None).kind = "accounts"
  BY DEF Init, Task
<1>3. QED
  BY <1>1, <1>2 DEF DetailInv, Ids

\* A step that leaves the selection as it is, and starts no detail and no deletion.
LEMMA DetailKept ==
    ASSUME DetailInv, Calm, UNCHANGED <<setting, message>>,
           \A t \in OnTheWay' : t \in OnTheWay \/ t.kind \notin {"detail", "delete"},
           \/ Ids(detail') \subseteq {message}
           \/ Ids(detail') \subseteq Ids(detail) /\ \A t \in OnTheWay : t.kind = "detail" => t \in OnTheWay'
    PROVE  DetailInv'
<1>1. Calm'
  BY DEF Calm
<1>2. \A t \in OnTheWay' : t.kind = "detail" => t.of = message /\ Ids(t.data) \subseteq {message}
  BY DEF DetailInv
<1>3. \A t, u \in OnTheWay' : t.kind = "detail" => u.kind # "delete"
  BY DEF DetailInv
<1>4. Ids(detail') \subseteq {message} \/ DetailComes'
  BY DEF DetailInv, DetailComes
<1>5. QED
  BY <1>1, <1>2, <1>3, <1>4 DEF DetailInv, Ids

\* What a draw starts.
LEMMA DrawKinds ==
    ASSUME MailWindowAssumption, WindowType, Draw, NEW t \in Jobs, Start(t)
    PROVE  t.kind \in {"folders", "list"}
<1>1. QueuesType /\ tasks' \in Seq(Jobs) /\ tasks' # tasks
  BY DrawType, StartsNone DEF WindowType, QueuesType
<1>2. ASSUME NEW kind \in {"folders", "list"}, NEW of, Start(Task(kind, of))
      PROVE  t.kind \in {"folders", "list"}
  <2>1. PICK u : u = Task(kind, of) /\ u.kind = kind /\ Start(u) /\ ~ u.read
    BY <1>2, NewJobs, UnreadTask
  <2>2. u \in Jobs
    BY <1>1, <2>1, StartedJob
  <2>3. QED
    BY <1>1, <2>1, <2>2, StartsOne
<1>3. CASE AccountsLoaded
  BY <1>1, <1>2, <1>3 DEF AccountsLoaded
<1>4. CASE FoldersLoaded
  BY <1>1, <1>2, <1>4 DEF FoldersLoaded
<1>5. CASE MessagesLoaded \/ DetailLoaded \/ FlagsUpdated \/ MessageDeleted
  BY <1>1, <1>5 DEF MessagesLoaded, DetailLoaded, FlagsUpdated, MessageDeleted
<1>6. ASSUME NEW f \in Folders, NewMessages(f) \/ FolderUpdated(f)
      PROVE  t.kind \in {"folders", "list"}
  BY <1>1, <1>2, <1>6 DEF NewMessages, FolderUpdated
<1>7. QED
  BY <1>3, <1>4, <1>5, <1>6 DEF Draw

\* What is on the way after a step that may start a task.
LEMMA StartsOnTheWay ==
    ASSUME QueuesType, MayStart
    PROVE  /\ ToSet(tasks) \subseteq ToSet(tasks)'
           /\ \A t \in ToSet(tasks)' : t \in ToSet(tasks) \/ (t \in Jobs /\ Start(t) /\ ~ t.read)
BY StartEffect DEF MayStart

LEMMA DetailDraw ==
    ASSUME MailWindowAssumption, WindowType, DetailInv, Calm, Draw
    PROVE  DetailInv'
<1>1. MayStart /\ QueuesType
  BY DrawStarts DEF WindowType
<1>2. /\ ToSet(tasks) \subseteq ToSet(tasks)'
      /\ \A t \in ToSet(tasks)' : t \in ToSet(tasks) \/ t.kind \notin {"detail", "delete"}
  BY <1>1, StartsOnTheWay, DrawKinds
<1>3. ASSUME NEW kind, Take(kind)
      PROVE  /\ \A t \in OnTheWay' : t \in OnTheWay \/ t.kind \notin {"detail", "delete"}
             /\ \A t \in OnTheWay : t \in OnTheWay' \/ t = Head(answers)
             /\ Head(answers) \in OnTheWay /\ Head(answers).kind = kind
             /\ UNCHANGED setting
  BY <1>1, <1>2, <1>3, TakeEffect DEF OnTheWay, Take
<1>4. ASSUME NEW kind, Take(kind), kind # "detail", UNCHANGED message, Ids(detail') \subseteq Ids(detail)
      PROVE  DetailInv'
  BY <1>3, <1>4, DetailKept
<1>5. CASE AccountsLoaded \/ FoldersLoaded
  BY <1>4, <1>5 DEF AccountsLoaded, FoldersLoaded
<1>6. CASE MessagesLoaded
  BY <1>4, <1>6 DEF MessagesLoaded
<1>7. CASE DetailLoaded
  <2>1. Take("detail") /\ detail' = Head(answers).data /\ UNCHANGED message
    BY <1>7 DEF DetailLoaded
  <2>2. Ids(detail') \subseteq {message}
    BY <1>3, <2>1 DEF DetailInv
  <2>3. QED
    BY <1>3, <2>1, <2>2, DetailKept
<1>8. CASE FlagsUpdated
  <2>1. Take("flags") /\ UNCHANGED message
    BY <1>8 DEF FlagsUpdated
  <2>2. Head(answers).flags \in Flags
    BY <1>1, <2>1, TakeEffect DEF Jobs
  <2>3. Ids(detail') \subseteq Ids(detail)
    BY <1>8, <2>2, FlagsType DEF FlagsUpdated, WindowType, ShownType, Ids
  <2>4. QED
    BY <1>4, <2>1, <2>3
<1>9. CASE MessageDeleted
  <2>1. Take("delete")
    BY <1>9 DEF MessageDeleted
  <2>2. \A t \in OnTheWay' : t \in OnTheWay \/ t.kind # "detail"
    BY <1>3, <2>1
  <2>3. \A t \in OnTheWay : t.kind # "detail"
    BY <1>3, <2>1 DEF DetailInv
  <2>4. Ids(detail) \subseteq {message}
    BY <2>3 DEF DetailInv, DetailComes
  <2>5. Ids(detail') \subseteq {message'}
    BY <1>9, <2>4 DEF MessageDeleted, Ids
  <2>6. Calm' /\ \A t \in OnTheWay' : t.kind # "detail"
    BY <1>3, <2>1, <2>2, <2>3 DEF Calm
  <2>7. QED
    BY <2>5, <2>6 DEF DetailInv, Ids
<1>10. ASSUME NEW f \in Folders, NewMessages(f) \/ FolderUpdated(f) PROVE DetailInv'
  <2>1. UNCHANGED <<setting, message, detail, answers>>
    BY <1>10 DEF NewMessages, FolderUpdated, TakeNews, shown
  <2>2. /\ \A t \in OnTheWay' : t \in OnTheWay \/ t.kind \notin {"detail", "delete"}
        /\ OnTheWay \subseteq OnTheWay'
    BY <1>2, <2>1 DEF OnTheWay
  <2>3. QED
    BY <2>1, <2>2, DetailKept
<1>11. QED
  BY <1>5, <1>6, <1>7, <1>8, <1>9, <1>10 DEF Draw

\* A click finds nothing on its way.
LEMMA ClickAlone ==
    ASSUME MailWindowAssumption, WindowType, Calm, User
    PROVE  /\ OnTheWay = {} /\ tasks = <<>> /\ answers = <<>>
           /\ \A t \in OnTheWay' : t \in Jobs /\ Start(t) /\ ~ t.read
<1>1. MayStart /\ QueuesType /\ UNCHANGED answers
  BY ClickStarts DEF WindowType
<1>2. tasks = <<>> /\ answers = <<>>
  BY DEF User, SelectAccount, SelectFolder, SelectMessage, Delete, Toggle, SyncFolder, SyncAllFolders,
         Search, ClearSearch, Click, Calm
<1>3. ToSet(tasks) = {} /\ ToSet(answers) = {} /\ ToSet(answers)' = {}
  BY <1>1, <1>2, EmptyQueue
<1>4. \A t \in ToSet(tasks)' : t \in Jobs /\ Start(t) /\ ~ t.read
  BY <1>1, <1>3, StartsOnTheWay
<1>5. QED
  BY <1>2, <1>3, <1>4 DEF OnTheWay

LEMMA DetailClick ==
    ASSUME MailWindowAssumption, WindowType, DetailInv, Calm, User
    PROVE  DetailInv'
<1>1. /\ OnTheWay = {} /\ QueuesType
      /\ \A t \in OnTheWay' : t \in Jobs /\ Start(t) /\ ~ t.read
  BY ClickAlone DEF WindowType
<1>2. UNCHANGED setting
  BY ClickStarts
<1>3. Ids(detail) \subseteq {message} /\ Calm'
  BY <1>1, <1>2 DEF DetailInv, DetailComes, Calm
<1>4. ASSUME Ids(detail') \subseteq {message'}, \A t \in OnTheWay' : t.kind # "detail"
      PROVE  DetailInv'
  BY <1>3, <1>4 DEF DetailInv, Ids
<1>5. ASSUME NEW kind, NEW of, NEW fl, kind # "detail", Ids(detail') \subseteq {message'},
             Start(Task(kind, of)) \/ Start([Task(kind, of) EXCEPT !.flags = fl])
      PROVE  DetailInv'
  <2>1. PICK u : u.kind = kind /\ Start(u) /\ ~ u.read
    <3>1. CASE Start(Task(kind, of))
      BY <3>1, NewJobs, UnreadTask
    <3>2. CASE Start([Task(kind, of) EXCEPT !.flags = fl])
      <4>1. PICK u : u = [Task(kind, of) EXCEPT !.flags = fl]
        OBVIOUS
      <4>2. u.kind = kind /\ ~ u.read
        BY <4>1, NewJobs, UnreadTask
      <4>3. QED
        BY <3>2, <4>1, <4>2
    <3>3. QED
      BY <1>5, <3>1, <3>2
  <2>2. u \in Jobs
    <3>1. tasks' \in Seq(Jobs)
      BY ClickType DEF WindowType, QueuesType
    <3>2. QED
      BY <1>1, <2>1, <3>1, StartedJob
  <2>3. \A t \in OnTheWay' : t.kind # "detail"
    BY <1>1, <1>5, <2>1, <2>2, StartsOne
  <2>4. QED
    BY <1>4, <1>5, <2>3
<1>6. ASSUME UNCHANGED <<tasks, message, detail>> PROVE DetailInv'
  <2>1. \A t \in OnTheWay' : FALSE
    BY <1>1, <1>6, StartsNone
  <2>2. QED
    BY <1>3, <1>4, <1>6, <2>1
<1>7. ASSUME NEW a \in Accounts, SelectAccount(a) PROVE DetailInv'
  BY <1>5, <1>7 DEF SelectAccount, Ids
<1>8. ASSUME NEW f \in Folders, SelectFolder(f) PROVE DetailInv'
  BY <1>5, <1>8 DEF SelectFolder, Ids
<1>9. ASSUME NEW e \in Entries, SelectMessage(e) PROVE DetailInv'
  <2>1. PICK m \in Messages : m = e.id
    BY DEF Entries
  <2>2. PICK u \in Jobs : u = Task("detail", m) /\ u.kind = "detail" /\ u.of = m
    BY NewJobs
  <2>3. Start(u) /\ message' = m /\ u.data = {}
    BY <1>9, <2>1, <2>2 DEF SelectMessage, Task
  <2>4. \A t \in OnTheWay' : t = u
    BY <1>1, <2>3, StartsOne
  <2>5. u \in OnTheWay'
    BY <1>1, <2>3, StartEffect DEF OnTheWay
  <2>6. QED
    BY <1>3, <2>2, <2>3, <2>4, <2>5 DEF DetailInv, DetailComes, Ids
<1>10. ASSUME NEW e \in Entries, Delete(e) PROVE DetailInv'
  BY <1>3, <1>5, <1>10 DEF Delete, shown
<1>11. ASSUME NEW e \in Entries, NEW flag \in {"seen", "flagged"}, Toggle(e, flag) PROVE DetailInv'
  <2>1. \E fl : Start([Task("flags", e.id) EXCEPT !.flags = fl])
    BY <1>11 DEF Toggle
  <2>2. QED
    BY <1>3, <1>5, <1>11, <2>1 DEF Toggle, shown
<1>12. CASE SyncFolder \/ SyncAllFolders
  BY <1>6, <1>12 DEF SyncFolder, SyncAllFolders, shown
<1>13. CASE Search
  BY <1>3, <1>5, <1>6, <1>13 DEF Search
<1>14. CASE ClearSearch
  BY <1>3, <1>5, <1>6, <1>14 DEF ClearSearch
<1>15. QED
  BY <1>7, <1>8, <1>9, <1>10, <1>11, <1>12, <1>13, <1>14 DEF User

LEMMA DetailStep ==
    ASSUME MailWindowAssumption, WindowType, DetailInv, [Next]_vars
    PROVE  DetailInv'
<1>1. UNCHANGED setting
  BY SettingStays
<1> SUFFICES ASSUME Calm PROVE DetailInv'
  BY <1>1 DEF DetailInv, Calm
<1>2. ASSUME UNCHANGED <<message, detail, tasks, answers>> PROVE DetailInv'
  <2>1. OnTheWay' = OnTheWay
    BY <1>2 DEF OnTheWay
  <2>2. QED
    BY <1>1, <1>2, <2>1, DetailKept
<1>3. ASSUME NEW i \in DOMAIN tasks, Access(i) PROVE DetailInv'
  <2>1. PICK t \in OnTheWay, u \in Jobs :
              /\ u.kind = t.kind /\ u.of = t.of /\ u.data = Result(t)
              /\ OnTheWay' \subseteq OnTheWay \cup {u}
              /\ OnTheWay \subseteq OnTheWay' \cup {t}
              /\ u \in OnTheWay'
    BY <1>3, AccessEffect
  <2>2. u.kind = "detail" => Ids(u.data) \subseteq {u.of}
    BY <2>1 DEF Result, Entry, Ids
  <2>3. UNCHANGED <<message, detail>> /\ Calm'
    BY <1>1, <1>3 DEF Access, shown, Calm
  <2>4. \A x \in OnTheWay' : x.kind = "detail" => x.of = message /\ Ids(x.data) \subseteq {message}
    BY <2>1, <2>2 DEF DetailInv
  <2>5. \A x, y \in OnTheWay' : x.kind = "detail" => y.kind # "delete"
    BY <2>1 DEF DetailInv
  <2>6. DetailComes => DetailComes'
    BY <2>1 DEF DetailComes
  <2>7. QED
    BY <2>3, <2>4, <2>5, <2>6 DEF DetailInv, Ids
<1>4. ASSUME NEW i \in DOMAIN tasks, Answer(i) PROVE DetailInv'
  <2>1. OnTheWay' = OnTheWay /\ UNCHANGED <<message, detail>>
    BY <1>4, AnswerEffect DEF WindowType, Answer, shown
  <2>2. QED
    BY <1>1, <2>1, DetailKept
<1>5. ASSUME NEW i \in DOMAIN tasks PROVE ~ TaskFails(i)
  BY DEF TaskFails, Calm
<1>6. CASE Drawn \/ Touch \/ Relay \/ UNCHANGED vars
  BY <1>2, <1>6 DEF Drawn, Touch, Relay, vars, shown
<1>7. ASSUME NEW a \in Accounts, FindFolders(a) PROVE DetailInv'
  BY <1>2, <1>7 DEF FindFolders, shown
<1>8. ASSUME NEW m \in Messages, Store(m) PROVE DetailInv'
  BY <1>2, <1>8 DEF Store, shown
<1>9. QED
  BY <1>3, <1>4, <1>5, <1>6, <1>7, <1>8, DetailDraw, DetailClick DEF Next, Work, Supervisor

-----------------------------------------------------------------------------
(***************************************************************************)
(* Events: as long as the ring has not been overrun, nothing that was told  *)
(* gets lost on its way to the window.                                      *)
(***************************************************************************)
Told(f) == <<"new", f>> \in ToSet(ring) \cup ToSet(news)

EventsInv ==
    /\ ring \in Seq(Events) /\ news \in Seq(Events)
    /\ relay \/ overrun
    /\ Len(ring) > setting.ring => overrun

LEMMA ConcatHolds ==
    ASSUME NEW S, NEW s \in Seq(S), NEW t \in Seq(S)
    PROVE  s \o t \in Seq(S) /\ ToSet(s) \cup ToSet(t) \subseteq ToSet(s \o t)
<1>1. /\ s \o t \in Seq(S) /\ Len(s \o t) = Len(s) + Len(t)
      /\ \A i \in 1..(Len(s) + Len(t)) : (s \o t)[i] = IF i <= Len(s) THEN s[i] ELSE t[i - Len(s)]
      /\ Len(s) \in Nat /\ Len(t) \in Nat /\ DOMAIN s = 1..Len(s) /\ DOMAIN t = 1..Len(t)
      /\ DOMAIN (s \o t) = 1..(Len(s) + Len(t))
  BY ConcatProperties, LenProperties
<1>2. \A i \in DOMAIN s : i \in DOMAIN (s \o t) /\ (s \o t)[i] = s[i]
  BY <1>1
<1>3. ASSUME NEW i \in DOMAIN t PROVE \E j \in DOMAIN (s \o t) : (s \o t)[j] = t[i]
  <2>1. Len(s) + i \in 1..(Len(s) + Len(t)) /\ ~ (Len(s) + i <= Len(s)) /\ Len(s) + i - Len(s) = i
    BY <1>1
  <2>2. QED
    BY <1>1, <2>1
<1>4. QED
  BY <1>1, <1>2, <1>3 DEF ToSet

LEMMA CountsSequence ==
    ASSUME MailWindowAssumption, NEW fs \in SUBSET Folders
    PROVE  SetToSeq({<<"updated", f>> : f \in fs}) \in Seq(Events)
<1> DEFINE S == {<<"updated", f>> : f \in fs}
<1>1. S \subseteq Events /\ \A e \in S : e[2] \in Folders /\ e = <<"updated", e[2]>>
  BY DEF Events
<1>2. IsFiniteSet(S)
  <2> DEFINE where == [e \in S |-> e[2]]
  <2>1. where \in Injection(S, Folders)
    BY <1>1 DEF Injection, IsInjective
  <2>2. QED
    BY <2>1, FS_Injection DEF MailWindowAssumption
<1> HIDE DEF S
<1>3. Cardinality(S) \in Nat /\ \E f \in [1..Cardinality(S) -> S] : IsInjective(f)
  BY <1>2, FS_CardinalityType DEF ExistsBijection, Bijection, Injection
<1>4. SetToSeq(S) \in [1..Cardinality(S) -> S]
  BY <1>3 DEF SetToSeq
<1>5. SetToSeq(S) \in Seq(Events)
  BY <1>1, <1>3, <1>4
<1>6. QED
  BY <1>5 DEF S

LEMMA EventsInit == Init => EventsInv
<1> SUFFICES ASSUME Init PROVE EventsInv
  OBVIOUS
<1>1. ring = <<>> /\ news = <<>> /\ relay
  BY DEF Init
<1>2. ~ (Len(ring) > setting.ring)
  <2>1. setting \in Settings /\ MailWindowAssumption
    BY MailWindowAssumption DEF Init
  <2>2. setting.ring \in Nat
    BY <2>1 DEF MailWindowAssumption
  <2>3. QED
    BY <1>1, <2>2, EmptySeq
<1>3. QED
  BY <1>1, <1>2, EmptySeq DEF EventsInv

\* The supervisor tells of something.
LEMMA BroadcastTells ==
    ASSUME MailWindowAssumption, setting \in Settings, EventsInv, NEW events \in Seq(Events),
           Broadcast(events), UNCHANGED <<setting, relay, news>>
    PROVE  /\ EventsInv' /\ (overrun => overrun')
           /\ \A f \in Folders : Told(f) => overrun' \/ Told(f)'
           /\ \A f \in Folders : <<"new", f>> \in ToSet(events) => overrun' \/ Told(f)'
<1>1. overrun' = (overrun \/ Len(ring') > setting.ring)
  BY DEF Broadcast
<1>2. CASE relay
  <2>1. ring' = ring \o events
    BY <1>2 DEF Broadcast
  <2>2. ring' \in Seq(Events) /\ ToSet(ring) \cup ToSet(events) \subseteq ToSet(ring')
    BY <2>1, ConcatHolds DEF EventsInv
  <2>3. \A f \in Folders : <<"new", f>> \in ToSet(events) => Told(f)'
    BY <2>2 DEF Told
  <2>4. \A f \in Folders : Told(f) => Told(f)'
    BY <2>2 DEF Told
  <2>5. QED
    BY <1>1, <1>2, <2>2, <2>3, <2>4 DEF EventsInv
<1>3. CASE ~ relay
  <2>1. ring' = <<>>
    BY <1>3 DEF Broadcast
  <2>2. overrun /\ overrun'
    BY <1>1, <1>3 DEF EventsInv
  <2>3. QED
    BY <2>1, <2>2, EmptySeq DEF EventsInv
<1>4. QED
  BY <1>2, <1>3

\* Nothing is lost but to an overrun, until the window takes it.
LEMMA EventsStep ==
    ASSUME MailWindowAssumption, setting \in Settings, EventsInv, [Next]_vars
    PROVE  /\ EventsInv' /\ (overrun => overrun')
           /\ \A f \in Folders : Told(f) => overrun' \/ Told(f)' \/ NewMessages(f)
<1>1. ASSUME UNCHANGED <<setting, ring, news, relay, overrun>>
      PROVE  /\ EventsInv' /\ (overrun => overrun')
             /\ \A f \in Folders : Told(f) => overrun' \/ Told(f)' \/ NewMessages(f)
  BY <1>1 DEF EventsInv, Told
<1>2. ASSUME NEW i \in DOMAIN tasks, Access(i) \/ Answer(i) \/ TaskFails(i)
      PROVE  UNCHANGED <<setting, ring, news, relay, overrun>>
  BY <1>2 DEF Access, Answer, TaskFails, supervisor
<1>3. CASE AccountsLoaded \/ FoldersLoaded \/ MessagesLoaded \/ DetailLoaded \/ FlagsUpdated \/ MessageDeleted
  <2>1. PICK kind : Take(kind)
    BY <1>3 DEF AccountsLoaded, FoldersLoaded, MessagesLoaded, DetailLoaded, FlagsUpdated, MessageDeleted
  <2>2. QED
    BY <1>1, <2>1 DEF Take, supervisor
<1>4. CASE Drawn \/ Touch \/ UNCHANGED vars
  BY <1>1, <1>4 DEF Drawn, Touch, supervisor, vars
<1>5. CASE User
  <2>1. PICK use : Click(use)
    BY <1>5 DEF User, SelectAccount, SelectFolder, SelectMessage, Delete, Toggle, SyncFolder,
                SyncAllFolders, Search, ClearSearch
  <2>2. QED
    BY <1>1, <2>1 DEF Click
<1>6. ASSUME NEW f \in Folders, NewMessages(f) \/ FolderUpdated(f)
      PROVE  /\ EventsInv' /\ (overrun => overrun')
             /\ \A g \in Folders : Told(g) => overrun' \/ Told(g)' \/ NewMessages(g)
  <2>1. /\ news # <<>> /\ news' = Tail(news) /\ UNCHANGED <<setting, ring, relay, overrun>>
        /\ Head(news) \in {<<"new", f>>, <<"updated", f>>}
        /\ Head(news) = <<"new", f>> => NewMessages(f)
    <3>1. CASE NewMessages(f)
      BY <3>1 DEF NewMessages, TakeNews, supervisor
    <3>2. CASE FolderUpdated(f)
      BY <3>2 DEF FolderUpdated, TakeNews, supervisor
    <3>3. QED
      BY <1>6, <3>1, <3>2
  <2>2. news' \in Seq(Events) /\ ToSet(news) = ToSet(news') \cup {Head(news)}
    BY <2>1, TailHolds DEF EventsInv
  <2>3. ASSUME NEW g \in Folders, Told(g) PROVE Told(g)' \/ NewMessages(g)
    BY <2>1, <2>2, <2>3 DEF Told
  <2>4. QED
    BY <2>1, <2>2, <2>3 DEF EventsInv
<1>7. ASSUME NEW m \in Messages, Store(m)
      PROVE  /\ EventsInv' /\ (overrun => overrun')
             /\ \A f \in Folders : Told(f) => overrun' \/ Told(f)'
  <2>1. <<"new", In[m]>> \in Events /\ <<"updated", In[m]>> \in Events
    BY DEF Events, MailWindowAssumption
  <2>2. << <<"new", In[m]>>, <<"updated", In[m]>> >> \in Seq(Events)
    BY <2>1
  <2>3. QED
    BY <1>7, <2>2, BroadcastTells DEF Store
<1>8. ASSUME NEW a \in Accounts, FindFolders(a)
      PROVE  /\ EventsInv' /\ (overrun => overrun')
             /\ \A f \in Folders : Told(f) => overrun' \/ Told(f)'
  <2>1. PICK fs \in SUBSET Folders : fs = {f \in Folders : Owner[f] = a}
    OBVIOUS
  <2>2. PICK events \in Seq(Events) : events = SetToSeq({<<"updated", f>> : f \in fs})
    BY CountsSequence
  <2>3. Broadcast(events) /\ UNCHANGED <<setting, relay, news>>
    BY <1>8, <2>1, <2>2 DEF FindFolders
  <2>4. QED
    BY <2>3, BroadcastTells
<1>9. CASE Relay
  <2>1. ring # <<>> /\ UNCHANGED <<setting, overrun>>
    BY <1>9 DEF Relay
  <2>2. /\ Tail(ring) \in Seq(Events) /\ Head(ring) \in Events
        /\ ToSet(ring) = ToSet(Tail(ring)) \cup {Head(ring)}
    BY <2>1, TailHolds DEF EventsInv
  <2>3. CASE Overrun
    <3>1. overrun /\ ring' = <<>> /\ news' = news
      BY <1>9, <2>3 DEF Relay, Overrun, EventsInv
    <3>2. QED
      BY <2>1, <3>1, EmptySeq DEF EventsInv
  <2>4. CASE ~ Overrun
    <3>1. relay' /\ ring' = Tail(ring) /\ news' = Append(news, Head(ring))
      BY <1>9, <2>4 DEF Relay
    <3>2. news' \in Seq(Events) /\ ToSet(news') = ToSet(news) \cup {Head(ring)}
      BY <2>2, <3>1, AppendHolds DEF EventsInv
    <3>3. ~ (Len(ring') > setting.ring)
      <4>1. Len(Tail(ring)) = Len(ring) - 1 /\ Len(ring) \in Nat
        BY <2>1, HeadTailProperties, LenProperties, EmptySeq DEF EventsInv
      <4>2. setting.ring \in Nat
        BY DEF MailWindowAssumption
      <4>3. QED
        BY <2>4, <3>1, <4>1, <4>2 DEF Overrun
    <3>4. \A f \in Folders : Told(f) => Told(f)'
      BY <2>2, <3>1, <3>2 DEF Told
    <3>5. QED
      BY <2>1, <2>2, <3>1, <3>2, <3>3, <3>4 DEF EventsInv
  <2>5. QED
    BY <2>3, <2>4
<1>10. QED
  BY <1>1, <1>2, <1>3, <1>4, <1>5, <1>6, <1>7, <1>8, <1>9 DEF Next, Work, Draw, Supervisor

\* A message that is stored is told of.
LEMMA StoreTells ==
    ASSUME MailWindowAssumption, setting \in Settings, EventsInv, NEW m \in Messages, Store(m)
    PROVE  overrun' \/ Told(In[m])'
<1>1. In[m] \in Folders
  BY DEF MailWindowAssumption
<1>2. PICK f \in Folders : f = In[m]
  BY <1>1
<1>3. PICK s, t \in Events : s = <<"new", f>> /\ t = <<"updated", f>>
  BY DEF Events
<1>4. PICK events \in Seq(Events) : events = <<s, t>> /\ s \in ToSet(events)
  <2>1. <<s, t>> \in Seq(Events) /\ <<s, t>>[1] = s /\ 1 \in DOMAIN <<s, t>>
    OBVIOUS
  <2>2. QED
    BY <2>1 DEF ToSet
<1>5. Broadcast(events) /\ UNCHANGED <<setting, relay, news>>
  BY <1>2, <1>3, <1>4 DEF Store
<1>6. overrun' \/ Told(f)'
  BY <1>3, <1>4, <1>5, BroadcastTells
<1>7. QED
  BY <1>2, <1>6

-----------------------------------------------------------------------------
(***************************************************************************)
(* The list of the selected folder, if tasks end in order and none fails:   *)
(* what has last been asked for is of that folder, and once it has been     *)
(* read, it has every message of the folder, unless the window will be told *)
(* of mail.                                                                 *)
(***************************************************************************)
Latest(line, k) ==
    /\ k # 0 => Lists(line[k])
    /\ \A j \in 1..Len(line) : j > k => ~ Lists(line[j])

HasAll(entries, f, there) == \A m \in there : \E e \in entries : e.id = m
OfFolder(entries, f) == \A e \in entries : In[e.id] = f

Fresh(line, shows, f, there, told) ==
    \A k \in 0..Len(line) : Latest(line, k) =>
        /\ k # 0 => line[k].kind = "list" /\ line[k].of = f
        /\ Loaded(line, k) => OfFolder(Seen(line, shows, k), f)
        /\ Loaded(line, k) /\ ~ told =>
             /\ HasAll(Seen(line, shows, k), f, there)
             /\ \A m \in there : ~ Gone(line, k, m)

LEMMA FreshStarts ==
    ASSUME NEW line, NEW next, Len(line) \in Nat, NEW t, Joins(line, next, t), ~ t.read,
           NEW f, t.kind = "list", t.of = f, NEW shows, NEW there, NEW told
    PROVE  Fresh(next, shows, f, there, told)
<1>1. Len(next) = Len(line) + 1 /\ next[Len(line) + 1] = t /\ Len(line) + 1 \in 1..Len(next)
  BY DEF Joins
<1>2. SUFFICES ASSUME NEW k \in 0..Len(next), Latest(next, k)
               PROVE  k = Len(line) + 1
  BY <1>1 DEF Fresh, Loaded
<1>3. Lists(t)
  BY DEF Lists
<1>4. ~ (Len(line) + 1 > k)
  BY <1>1, <1>2, <1>3 DEF Latest
<1>5. QED
  BY <1>1, <1>2, <1>4

LEMMA FreshJoins ==
    ASSUME NEW line, NEW next, Len(line) \in Nat, NEW t, Joins(line, next, t), ~ t.read, ~ Lists(t),
           NEW f, NEW shows, NEW there, NEW told, Fresh(line, shows, f, there, told)
    PROVE  Fresh(next, shows, f, there, told)
<1>1. /\ Len(next) = Len(line) + 1 /\ next[Len(line) + 1] = t /\ Len(line) + 1 \in 1..Len(next)
      /\ \A i \in 1..Len(line) : next[i] = line[i] /\ i \in 1..Len(next)
      /\ \A i \in 1..Len(next) : i \in 1..Len(line) \/ i = Len(line) + 1
  BY DEF Joins
<1>2. ASSUME NEW k \in 0..Len(next), Latest(next, k)
      PROVE  k \in 0..Len(line) /\ Latest(line, k) /\ (k # 0 => k \in 1..Len(line))
  <2>1. k # Len(line) + 1
    BY <1>1, <1>2 DEF Latest
  <2>2. k \in 0..Len(line) /\ (k # 0 => k \in 1..Len(line))
    BY <1>1, <2>1
  <2>3. QED
    BY <1>1, <1>2, <2>2 DEF Latest
<1>3. \A k \in 0..Len(line), m \in there : Gone(next, k, m) => Gone(line, k, m)
  BY <1>1 DEF Gone, Done
<1>4. SUFFICES ASSUME NEW k \in 0..Len(next), Latest(next, k)
               PROVE  /\ k # 0 => next[k].kind = "list" /\ next[k].of = f
                      /\ Loaded(next, k) => OfFolder(Seen(next, shows, k), f)
                      /\ Loaded(next, k) /\ ~ told =>
                           /\ HasAll(Seen(next, shows, k), f, there)
                           /\ \A m \in there : ~ Gone(next, k, m)
  BY DEF Fresh
<1>5. k \in 0..Len(line) /\ Latest(line, k) /\ (k # 0 => next[k] = line[k])
  BY <1>1, <1>2, <1>4
<1>6. (Loaded(next, k) <=> Loaded(line, k)) /\ Seen(next, shows, k) = Seen(line, shows, k)
  BY <1>5 DEF Loaded, Seen
<1>7. QED
  BY <1>3, <1>5, <1>6 DEF Fresh

LEMMA FreshLeaves ==
    ASSUME NEW line, NEW next, Len(line) \in Nat, Len(next) \in Nat, Leaves(line, next), line[1].read,
           NEW shows \in SUBSET Entries, NEW after, Taken(line[1], shows, after),
           NEW f, NEW there, NEW told, Fresh(line, shows, f, there, told)
    PROVE  Fresh(next, after, f, there, told)
<1>1. /\ Len(line) = Len(next) + 1 /\ 1 \in 1..Len(line)
      /\ \A i \in 1..Len(next) : next[i] = line[i + 1] /\ i + 1 \in 1..Len(line)
      /\ \A i \in 1..Len(line) : i = 1 \/ (i - 1 \in 1..Len(next) /\ next[i - 1] = line[i])
  BY DEF Leaves
<1>2. \A k \in 0..Len(next), m \in there : Gone(next, k, m) => Gone(line, k + 1, m)
  <2> SUFFICES ASSUME NEW k \in 0..Len(next), NEW m \in there, NEW j \in 1..Len(next),
                      j > k, Done(next[j], "delete", m)
               PROVE  Gone(line, k + 1, m)
    BY DEF Gone
  <2>1. j + 1 \in 1..Len(line) /\ j + 1 > k + 1 /\ line[j + 1] = next[j]
    BY <1>1
  <2>2. QED
    BY <2>1 DEF Gone
<1>3. ASSUME NEW k \in 0..Len(next), Latest(next, k), NEW j \in 1..Len(line), j > k + 1
      PROVE  ~ Lists(line[j])
  <2>1. j - 1 \in 1..Len(next) /\ next[j - 1] = line[j] /\ j - 1 > k
    BY <1>1, <1>3
  <2>2. QED
    BY <1>3, <2>1 DEF Latest
<1>4. SUFFICES ASSUME NEW k \in 0..Len(next), Latest(next, k)
               PROVE  /\ k # 0 => next[k].kind = "list" /\ next[k].of = f
                      /\ Loaded(next, k) => OfFolder(Seen(next, after, k), f)
                      /\ Loaded(next, k) /\ ~ told =>
                           /\ HasAll(Seen(next, after, k), f, there)
                           /\ \A m \in there : ~ Gone(next, k, m)
  BY DEF Fresh
<1>5. CASE k # 0
  <2>1. k \in 1..Len(next) /\ k + 1 \in 0..Len(line) /\ k + 1 # 0 /\ next[k] = line[k + 1]
    BY <1>1, <1>5
  <2>2. Latest(line, k + 1)
    BY <1>3, <1>4, <1>5, <2>1 DEF Latest
  <2>3. (Loaded(next, k) <=> Loaded(line, k + 1)) /\ Seen(next, after, k) = Seen(line, shows, k + 1)
    BY <1>5, <2>1 DEF Loaded, Seen
  <2>4. QED
    BY <1>2, <1>5, <2>1, <2>2, <2>3 DEF Fresh
<1>6. CASE k = 0 /\ Lists(line[1])
  <2>1. after = line[1].data
    BY <1>6 DEF Taken, Lists
  <2>2. 1 \in 0..Len(line) /\ Latest(line, 1) /\ Loaded(line, 1) /\ Seen(line, shows, 1) = after
    BY <1>1, <1>3, <1>4, <1>6, <2>1 DEF Latest, Loaded, Seen
  <2>3. OfFolder(after, f) /\ (~ told => HasAll(after, f, there) /\ \A m \in there : ~ Gone(line, 1, m))
    BY <2>2 DEF Fresh
  <2>4. Seen(next, after, k) = after /\ \A m \in there : Gone(next, k, m) => Gone(line, 1, m)
    BY <1>2, <1>6 DEF Seen
  <2>5. QED
    BY <1>6, <2>3, <2>4
<1>7. CASE k = 0 /\ ~ Lists(line[1])
  <2>1. 0 \in 0..Len(line) /\ Latest(line, 0) /\ Loaded(line, 0) /\ Seen(line, shows, 0) = shows
    BY <1>1, <1>3, <1>4, <1>7 DEF Latest, Loaded, Seen
  <2>2. OfFolder(shows, f) /\ (~ told => HasAll(shows, f, there) /\ \A m \in there : ~ Gone(line, 0, m))
    BY <2>1 DEF Fresh
  <2>3. \A m \in there : Gone(next, k, m) => Gone(line, 0, m)
    <3>1. \A m \in there : Gone(line, 1, m) => Gone(line, 0, m)
      BY DEF Gone
    <3>2. QED
      BY <1>2, <1>7, <3>1
  <2>4. /\ \A e \in after : \E d \in shows : d.id = e.id
        /\ \A d \in shows : (\E e \in after : e.id = d.id) \/ Done(line[1], "delete", d.id)
    <3>1. CASE line[1].kind = "flags" /\ after = WithFlags(shows, line[1].of, line[1].flags)
      <4>1. \A d \in shows : d \in Entries /\ [d EXCEPT !.flags = line[1].flags].id = d.id
        BY DEF Entries
      <4>2. QED
        BY <3>1, <4>1 DEF WithFlags
    <3>2. CASE line[1].kind = "delete" /\ after = {e \in shows : e.id # line[1].of}
      BY <3>2 DEF Done
    <3>3. CASE after = shows
      BY <3>3
    <3>4. QED
      BY <1>7, <3>1, <3>2, <3>3 DEF Taken
  <2>5. OfFolder(after, f)
    BY <2>2, <2>4 DEF OfFolder
  <2>6. ASSUME ~ told PROVE HasAll(after, f, there)
    <3>1. ASSUME NEW m \in there PROVE \E e \in after : e.id = m
      <4>1. PICK d \in shows : d.id = m
        BY <2>2, <2>6, <3>1 DEF HasAll
      <4>2. ~ Done(line[1], "delete", m)
        BY <1>1, <2>2, <2>6, <3>1 DEF Gone
      <4>3. QED
        BY <2>4, <4>1, <4>2
    <3>2. QED
      BY <3>1 DEF HasAll
  <2>7. Seen(next, after, k) = after
    BY <1>7 DEF Seen
  <2>8. QED
    BY <1>7, <2>2, <2>3, <2>5, <2>6, <2>7
<1>8. QED
  BY <1>5, <1>6, <1>7

LEMMA FreshReads ==
    ASSUME NEW line, NEW next, NEW p \in 1..Len(line), NEW t, Len(line) \in Nat,
           ReadUpTo(line, p), Reads(line, next, p, t),
           t.kind = line[p].kind, t.of = line[p].of, t.read,
           NEW f, NEW shows, NEW there, NEW told, NEW left \in SUBSET there,
           t.kind = "delete" => t.of \notin left,
           t.kind = "list" /\ t.of = f => OfFolder(t.data, f),
           t.kind = "list" /\ t.of = f => HasAll(t.data, f, left),
           Fresh(line, shows, f, there, told)
    PROVE  Fresh(next, shows, f, left, told)
<1>1. /\ Len(next) = Len(line) /\ next[p] = t
      /\ \A i \in 1..Len(line) : i # p => next[i] = line[i]
      /\ \A i \in 1..Len(line) : next[i].kind = line[i].kind /\ next[i].of = line[i].of
      /\ \A i \in 1..Len(line) : line[i].read <=> i < p
      /\ \A i \in 1..Len(line) : next[i].read => i <= p
  BY DEF Reads, ReadUpTo
<1>2. SUFFICES ASSUME NEW k \in 0..Len(next), Latest(next, k)
               PROVE  /\ k # 0 => next[k].kind = "list" /\ next[k].of = f
                      /\ Loaded(next, k) => OfFolder(Seen(next, shows, k), f)
                      /\ Loaded(next, k) /\ ~ told =>
                           /\ HasAll(Seen(next, shows, k), f, left)
                           /\ \A m \in left : ~ Gone(next, k, m)
  BY DEF Fresh
<1>3. k \in 0..Len(line) /\ Latest(line, k) /\ (k # 0 => k \in 1..Len(line))
  BY <1>1, <1>2 DEF Latest, Lists
<1>4. k # 0 => next[k].kind = "list" /\ next[k].of = f
  BY <1>1, <1>3 DEF Fresh
<1>5. CASE k = p
  <2>1. k # 0 /\ t.kind = "list" /\ t.of = f /\ Seen(next, shows, k) = t.data
    BY <1>1, <1>4, <1>5 DEF Seen
  <2>2. \A m \in left : ~ Gone(next, k, m)
    BY <1>1, <1>5 DEF Gone, Done
  <2>3. QED
    BY <1>4, <2>1, <2>2
<1>6. CASE k # p
  <2>1. (Loaded(next, k) <=> Loaded(line, k)) /\ Seen(next, shows, k) = Seen(line, shows, k)
    BY <1>1, <1>3, <1>6 DEF Loaded, Seen
  <2>2. ASSUME NEW m \in left, Gone(next, k, m) PROVE Gone(line, k, m)
    <3>1. PICK j \in 1..Len(line) : j > k /\ Done(next[j], "delete", m)
      BY <1>1, <2>2 DEF Gone
    <3>2. j # p
      BY <1>1, <3>1 DEF Done
    <3>3. QED
      BY <1>1, <3>1, <3>2 DEF Gone
  <2>3. HasAll(Seen(line, shows, k), f, there) => HasAll(Seen(line, shows, k), f, left)
    BY DEF HasAll
  <2>4. QED
    BY <1>3, <1>4, <2>1, <2>2, <2>3 DEF Fresh
<1>7. QED
  BY <1>5, <1>6

\* Less there, or more to be told.
LEMMA FreshFewer ==
    ASSUME NEW line, NEW f, NEW shows, NEW there, NEW told, NEW left, NEW tells,
           Fresh(line, shows, f, there, told), tells \/ (~ told /\ left \subseteq there)
    PROVE  Fresh(line, shows, f, left, tells)
BY DEF Fresh, HasAll

FreshInv ==
    Orderly /\ ~ overrun /\ ~ searching /\ folder # None /\ Own(folder) =>
        Fresh(Line, list, folder, MailIn(folder), Told(folder))

\* A step that starts the list of the folder that is selected then.
LEMMA FreshNew ==
    ASSUME NEW line, Len(line) \in Nat, NEW t, Joins(line, Line', t), ~ t.read,
           t.kind = "list", t.of = folder'
    PROVE  FreshInv'
<1>1. PICK next, f, shows, there, told :
          /\ next = Line' /\ f = folder' /\ shows = list'
          /\ there = MailIn(folder)' /\ told = Told(folder)'
  OBVIOUS
<1>2. Fresh(next, shows, f, there, told)
  BY <1>1, FreshStarts
<1>3. Fresh(Line, list, folder, MailIn(folder), Told(folder))'
  BY <1>1, <1>2
<1>4. QED
  BY <1>3 DEF FreshInv

\* A step of which the line is left as it is, or that adds something else to it.
LEMMA FreshKept ==
    ASSUME WindowType, FreshInv, UNCHANGED <<setting, account, folder, list, searching, answers>>,
           UNCHANGED tasks \/ \E t \in Jobs : Start(t) /\ ~ t.read /\ ~ Lists(t),
           overrun => overrun',
           overrun' \/ Told(folder)' \/ (~ Told(folder) /\ MailIn(folder)' \subseteq MailIn(folder))
    PROVE  FreshInv'
<1> SUFFICES ASSUME Orderly, ~ overrun', ~ searching, folder # None, Own(folder)
             PROVE  Fresh(Line, list, folder, MailIn(folder), Told(folder))'
  BY DEF FreshInv, Orderly, Own
<1>1. PICK line, f, shows, there, told, left, tells :
          /\ line = Line /\ f = folder /\ shows = list /\ there = MailIn(folder) /\ told = Told(folder)
          /\ left = MailIn(folder)' /\ tells = Told(folder)'
  OBVIOUS
<1>2. Fresh(line, shows, f, there, told)
  BY <1>1 DEF FreshInv
<1>3. Fresh(line, shows, f, left, tells)
  BY <1>1, <1>2, FreshFewer
<1>4. Fresh(Line', shows, f, left, tells)
  <2>1. CASE UNCHANGED tasks
    <3>1. Line' = line
      BY <1>1, <2>1 DEF Line
    <3>2. QED
      BY <1>3, <3>1
  <2>2. ASSUME NEW t \in Jobs, Start(t), ~ t.read, ~ Lists(t)
        PROVE  Fresh(Line', shows, f, left, tells)
    <3>1. Joins(line, Line', t) /\ QueuesType
      BY <1>1, <2>2, LineStart DEF WindowType
    <3>2. Len(line) \in Nat
      BY <1>1, <3>1, LineParts, LenProperties DEF Line, QueuesType
    <3>3. QED
      BY <1>3, <2>2, <3>1, <3>2, FreshJoins
  <2>3. QED
    BY <2>1, <2>2
<1>5. QED
  BY <1>1, <1>4

\* A step that takes an answer and starts nothing.
LEMMA FreshTakes ==
    ASSUME WindowType, FreshInv, NEW kind, Take(kind), UNCHANGED <<tasks, account, folder, searching>>,
           Taken(Head(answers), list, list')
    PROVE  FreshInv'
<1>1. UNCHANGED <<setting, overrun, stored, ring, news>>
  BY DEF Take, db, supervisor
<1> SUFFICES ASSUME Orderly, ~ overrun, ~ searching, folder # None, Own(folder)
             PROVE  Fresh(Line, list, folder, MailIn(folder), Told(folder))'
  BY <1>1 DEF FreshInv, Orderly, Own
<1>2. PICK rest \in Seq(Jobs) : Leaves(Line, rest) /\ Line' = rest
  BY LineTakes, StartsNone DEF WindowType
<1>3. Line[1] = Head(answers) /\ Line[1].read /\ Line \in Seq(Jobs)
  BY LineTakes
<1>4. PICK line, f, shows, after, there, told :
          /\ line = Line /\ f = folder /\ shows = list /\ after = list'
          /\ there = MailIn(folder) /\ told = Told(folder)
  OBVIOUS
<1>5. /\ Len(line) \in Nat /\ Len(rest) \in Nat /\ Leaves(line, rest) /\ line[1].read
      /\ Taken(line[1], shows, after) /\ shows \in SUBSET Entries
  BY <1>2, <1>3, <1>4, LenProperties DEF WindowType, ShownType
<1>6. Fresh(line, shows, f, there, told)
  BY <1>4 DEF FreshInv
<1>7. Fresh(rest, after, f, there, told)
  BY <1>5, <1>6, FreshLeaves
<1>8. MailIn(folder)' = there /\ Told(folder)' = told /\ folder' = f /\ list' = after
  BY <1>1, <1>4 DEF MailIn, Told
<1>9. QED
  BY <1>2, <1>7, <1>8

LEMMA FreshAccess ==
    ASSUME WindowType, OrderInv, FreshInv, NEW i \in DOMAIN tasks, Access(i)
    PROVE  FreshInv'
<1>1. UNCHANGED <<setting, account, folder, list, searching, overrun, ring, news>>
  BY DEF Access, shown, supervisor
<1> SUFFICES ASSUME Orderly, ~ overrun, ~ searching, folder # None, Own(folder)
             PROVE  Fresh(Line, list, folder, MailIn(folder), Told(folder))'
  BY <1>1 DEF FreshInv, Orderly, Own
<1>2. IsLine(Line) /\ setting.inOrder
  BY DEF OrderInv, Orderly
<1>3. PICK p \in 1..Len(Line), u \in Jobs :
          /\ ReadUpTo(Line, p) /\ tasks[i] = Line[p]
          /\ u = [Line[p] EXCEPT !.read = TRUE, !.data = Result(Line[p])]
          /\ Reads(Line, Line', p, u)
  BY <1>2, LineAccess
<1>4. /\ u.kind = Line[p].kind /\ u.of = Line[p].of /\ u.data = Result(Line[p]) /\ u.read
      /\ Wrote(u, stored, flags, stored', flags')
  <2>1. u = [tasks[i] EXCEPT !.read = TRUE, !.data = Result(tasks[i])]
    BY <1>3
  <2>2. /\ u.kind = tasks[i].kind /\ u.of = tasks[i].of /\ u.data = Result(tasks[i]) /\ u.read
        /\ Wrote(u, stored, flags, stored', flags')
    BY <2>1, AccessWrites
  <2>3. QED
    BY <1>3, <2>2
<1>5. /\ MailIn(folder)' \subseteq MailIn(folder)
      /\ u.kind = "delete" => u.of \notin MailIn(folder)'
  BY <1>1, <1>4 DEF Wrote, MailIn
<1>6. ASSUME u.kind = "list", u.of = folder
      PROVE  OfFolder(u.data, folder) /\ HasAll(u.data, folder, MailIn(folder))
  <2>1. u.data = {Entry(m) : m \in MailIn(folder)}
    BY <1>4, <1>6 DEF Result
  <2>2. \A m : Entry(m).id = m
    BY DEF Entry
  <2>3. \A m \in MailIn(folder) : In[m] = folder
    BY DEF MailIn
  <2>4. QED
    BY <2>1, <2>2, <2>3 DEF OfFolder, HasAll
<1>7. PICK line, next, f, shows, there, left, told :
          /\ line = Line /\ next = Line' /\ f = folder /\ shows = list
          /\ there = MailIn(folder) /\ left = MailIn(folder)' /\ told = Told(folder)
  OBVIOUS
<1>8. /\ p \in 1..Len(line) /\ Len(line) \in Nat /\ ReadUpTo(line, p) /\ Reads(line, next, p, u)
      /\ u.kind = line[p].kind /\ u.of = line[p].of /\ u.read
  BY <1>2, <1>3, <1>4, <1>7, LenProperties DEF IsLine
<1>9. /\ left \in SUBSET there
      /\ u.kind = "delete" => u.of \notin left
      /\ u.kind = "list" /\ u.of = f => OfFolder(u.data, f)
      /\ u.kind = "list" /\ u.of = f => HasAll(u.data, f, left)
  BY <1>5, <1>6, <1>7 DEF HasAll
<1>10. Fresh(line, shows, f, there, told)
  BY <1>7 DEF FreshInv
<1>11. Fresh(next, shows, f, left, told)
  BY <1>8, <1>9, <1>10, FreshReads
<1>12. Told(folder)' = told
  BY <1>1, <1>7 DEF Told
<1>13. QED
  BY <1>1, <1>7, <1>11, <1>12

\* A step that takes an answer and starts the list of the folder that is selected then.
LEMMA FreshTakesNew ==
    ASSUME WindowType, NEW kind, Take(kind), MayStart, NEW t \in Jobs, Start(t), ~ t.read,
           t.kind = "list", t.of = folder'
    PROVE  FreshInv'
<1>1. QueuesType
  BY DEF WindowType
<1>2. PICK rest \in Seq(Jobs), u \in Jobs : Joins(rest, Line', u) /\ ~ u.read /\ Start(u)
  BY <1>1, LineTakes, StartsNone DEF MayStart
<1>3. u = t /\ Len(rest) \in Nat
  BY <1>1, <1>2, StartsOne, LenProperties
<1>4. QED
  BY <1>2, <1>3, FreshNew

\* One that takes none.
LEMMA FreshStartsNew ==
    ASSUME WindowType, UNCHANGED answers, NEW t \in Jobs, Start(t), ~ t.read,
           t.kind = "list", t.of = folder'
    PROVE  FreshInv'
<1>1. QueuesType
  BY DEF WindowType
<1>2. Joins(Line, Line', t)
  BY <1>1, LineStart
<1>3. Len(Line) \in Nat
  BY <1>1, LineParts, LenProperties DEF Line, QueuesType
<1>4. QED
  BY <1>2, <1>3, FreshNew

\* A list that is started.
LEMMA ListJob ==
    ASSUME NEW f \in Folders, Start(Task("list", f))
    PROVE  \E t \in Jobs : Start(t) /\ ~ t.read /\ t.kind = "list" /\ t.of = f /\ t.data = {}
<1>1. Task("list", f) \in Jobs /\ Task("list", f).kind = "list" /\ Task("list", f).of = f
      /\ ~ Task("list", f).read
  BY NewJobs, UnreadTask
<1>2. Task("list", f).data = {}
  BY DEF Task
<1>3. QED
  BY <1>1, <1>2

LEMMA FreshDraw ==
    ASSUME MailWindowAssumption, WindowType, FoldersInv, EventsInv, FreshInv, Orderly, Draw
    PROVE  FreshInv'
<1>1. MayStart /\ QueuesType
  BY DrawStarts DEF WindowType
<1>2. ASSUME NEW kind \in {"accounts", "folders", "detail"}, Take(kind),
             UNCHANGED <<tasks, account, folder, searching, list>>
      PROVE  FreshInv'
  <2>1. Taken(Head(answers), list, list')
    BY <1>2 DEF Take, Taken
  <2>2. QED
    BY <1>2, <2>1, FreshTakes
<1>3. CASE AccountsLoaded
  <2>1. Take("accounts") /\ UNCHANGED <<folder, folders, list, message, detail, searching>>
    BY <1>3 DEF AccountsLoaded
  <2>2. Head(answers).data = Accounts
    <3>1. Line[1] = Head(answers) /\ Line[1].kind = "accounts" /\ Line[1].read /\ 1 \in 1..Len(Line)
      BY <1>1, <2>1, LineTakes DEF MayStart
    <3>2. QED
      BY <3>1 DEF FoldersInv, FoldersCome
  <2>3. CASE UNCHANGED <<account, tasks>>
    BY <1>2, <2>1, <2>3
  <2>4. CASE ~ UNCHANGED <<account, tasks>>
    <3>1. account = None
      BY <1>3, <2>2, <2>4 DEF AccountsLoaded, WindowType, ShownType
    <3>2. folder' = None
      BY <2>1, <3>1 DEF FoldersInv, Nothing
    <3>3. QED
      BY <3>2 DEF FreshInv
  <2>5. QED
    BY <2>3, <2>4
<1>4. CASE FoldersLoaded
  <2>1. Take("folders") /\ UNCHANGED <<account, list, message, detail, searching>>
    BY <1>4 DEF FoldersLoaded
  <2>2. CASE UNCHANGED <<folder, tasks>>
    BY <1>2, <2>1, <2>2
  <2>3. CASE ~ UNCHANGED <<folder, tasks>>
    <3>1. PICK f : folder' = f /\ Start(Task("list", f)) /\ f \in folders'
      BY <1>4, <2>3 DEF FoldersLoaded
    <3>2. f \in Folders
      BY <3>1, DrawType DEF WindowType, ShownType
    <3>3. QED
      BY <1>1, <2>1, <3>1, <3>2, ListJob, FreshTakesNew
  <2>4. QED
    BY <2>2, <2>3
<1>5. CASE MessagesLoaded
  <2>1. PICK kind \in {"list", "search"} : Take(kind)
    BY <1>5 DEF MessagesLoaded
  <2>2. Taken(Head(answers), list, list')
    BY <1>5, <2>1 DEF MessagesLoaded, Take, Taken, Lists
  <2>3. QED
    BY <1>5, <2>1, <2>2, FreshTakes DEF MessagesLoaded
<1>6. CASE DetailLoaded
  BY <1>2, <1>6 DEF DetailLoaded
<1>7. CASE FlagsUpdated
  <2>1. Take("flags") /\ Taken(Head(answers), list, list')
    BY <1>7 DEF FlagsUpdated, Take, Taken
  <2>2. QED
    BY <1>7, <2>1, FreshTakes DEF FlagsUpdated
<1>8. CASE MessageDeleted
  <2>1. Take("delete") /\ Taken(Head(answers), list, list')
    BY <1>8 DEF MessageDeleted, Take, Taken
  <2>2. QED
    BY <1>8, <2>1, FreshTakes DEF MessageDeleted
<1>9. ASSUME NEW f \in Folders, NewMessages(f) \/ FolderUpdated(f) PROVE FreshInv'
  <2>1. /\ UNCHANGED <<setting, stored, account, folder, list, searching, answers, overrun>>
        /\ setting \in Settings
    BY <1>9 DEF NewMessages, FolderUpdated, TakeNews, db, shown, supervisor, WindowType
  <2>2. CASE NewMessages(f) /\ ~ UNCHANGED tasks
    <3>1. folder' = f /\ Start(Task("list", f))
      BY <2>1, <2>2 DEF NewMessages
    <3>2. QED
      BY <2>1, <3>1, ListJob, FreshStartsNew
  <2>3. CASE UNCHANGED tasks
    <3>1. CASE ~ (folder \in Folders /\ account = Owner[folder] /\ ~ searching)
      BY <2>1, <3>1, NobodyThere DEF FreshInv, Own, WindowType, ShownType
    <3>2. CASE folder \in Folders /\ account = Owner[folder] /\ ~ searching
      <4>1. ~ NewMessages(folder)
        <5>1. Task("list", folder) \in Jobs
          BY <3>2, NewJobs
        <5>2. ~ Start(Task("list", folder))
          BY <1>1, <2>3, <5>1, StartsNone
        <5>3. QED
          BY <3>2, <5>2 DEF NewMessages
      <4>2. [Next]_vars
        BY <1>9 DEF Next, Draw
      <4>3. Told(folder) => overrun' \/ Told(folder)'
        <5>1. PICK g \in Folders : g = folder
          BY <3>2
        <5>2. Told(g) => overrun' \/ Told(g)'
          BY <2>1, <4>1, <4>2, <5>1, EventsStep
        <5>3. QED
          BY <2>1, <5>1, <5>2 DEF Told
      <4>4. MailIn(folder)' = MailIn(folder)
        BY <2>1 DEF MailIn
      <4>5. QED
        BY <2>1, <2>3, <4>3, <4>4, FreshKept
    <3>3. QED
      BY <3>1, <3>2
  <2>4. QED
    BY <1>9, <2>2, <2>3 DEF FolderUpdated
<1>10. QED
  BY <1>3, <1>4, <1>5, <1>6, <1>7, <1>8, <1>9 DEF Draw

LEMMA FreshClick ==
    ASSUME MailWindowAssumption, WindowType, FreshInv, Orderly, User
    PROVE  FreshInv'
<1>1. QueuesType /\ UNCHANGED <<setting, stored, answers>> /\ tasks' \in Seq(Jobs)
  BY ClickStarts, ClickType DEF WindowType, QueuesType, db
<1>2. UNCHANGED <<ring, news, overrun>>
  <2>1. PICK use : Click(use)
    BY DEF User, SelectAccount, SelectFolder, SelectMessage, Delete, Toggle, SyncFolder,
           SyncAllFolders, Search, ClearSearch
  <2>2. QED
    BY <2>1 DEF Click
<1>3. ASSUME UNCHANGED <<account, folder, list, searching>>,
             UNCHANGED tasks \/ \E t \in Jobs : Start(t) /\ ~ t.read /\ ~ Lists(t)
      PROVE  FreshInv'
  <2>1. MailIn(folder)' = MailIn(folder) /\ Told(folder)' = Told(folder)
    BY <1>1, <1>2, <1>3 DEF MailIn, Told
  <2>2. QED
    BY <1>1, <1>2, <1>3, <2>1, FreshKept
<1>4. ASSUME NEW kind \in {"detail", "flags", "delete"}, NEW of, NEW fl,
             Start(Task(kind, of)) \/ Start([Task(kind, of) EXCEPT !.flags = fl])
      PROVE  \E t \in Jobs : Start(t) /\ ~ t.read /\ ~ Lists(t)
  <2>1. PICK u : u.kind = kind /\ Start(u) /\ ~ u.read
    <3>1. CASE Start(Task(kind, of))
      BY <3>1, NewJobs, UnreadTask
    <3>2. CASE Start([Task(kind, of) EXCEPT !.flags = fl])
      <4>1. PICK u : u = [Task(kind, of) EXCEPT !.flags = fl]
        OBVIOUS
      <4>2. u.kind = kind /\ ~ u.read
        BY <4>1, NewJobs, UnreadTask
      <4>3. QED
        BY <3>2, <4>1, <4>2
    <3>3. QED
      BY <1>4, <3>1, <3>2
  <2>2. u \in Jobs
    BY <1>1, <2>1, StartedJob
  <2>3. QED
    BY <2>1, <2>2 DEF Lists
<1>5. ASSUME NEW a \in Accounts, SelectAccount(a) PROVE FreshInv'
  BY <1>5 DEF SelectAccount, FreshInv
<1>6. ASSUME NEW f \in Folders, SelectFolder(f) PROVE FreshInv'
  <2>1. folder' = f /\ Start(Task("list", f))
    BY <1>6 DEF SelectFolder
  <2>2. QED
    BY <1>1, <2>1, ListJob, FreshStartsNew
<1>7. ASSUME NEW e \in Entries, SelectMessage(e) \/ Delete(e) PROVE FreshInv'
  BY <1>3, <1>4, <1>7 DEF SelectMessage, Delete, shown
<1>8. ASSUME NEW e \in Entries, NEW flag \in {"seen", "flagged"}, Toggle(e, flag) PROVE FreshInv'
  <2>1. \E fl : Start([Task("flags", e.id) EXCEPT !.flags = fl])
    BY <1>8 DEF Toggle
  <2>2. UNCHANGED <<account, folder, list, searching>>
    BY <1>8 DEF Toggle, shown
  <2>3. QED
    BY <1>3, <1>4, <2>1, <2>2
<1>9. CASE SyncFolder \/ SyncAllFolders
  BY <1>3, <1>9 DEF SyncFolder, SyncAllFolders, shown
<1>10. CASE Search
  BY <1>10 DEF Search, FreshInv
<1>11. CASE ClearSearch
  <2>1. UNCHANGED folder
    BY <1>11 DEF ClearSearch
  <2>2. CASE folder = None
    BY <2>1, <2>2 DEF FreshInv
  <2>3. CASE folder # None
    <3>1. Start(Task("list", folder)) /\ folder \in Folders
      BY <1>11, <2>3 DEF ClearSearch, WindowType, ShownType
    <3>2. QED
      BY <1>1, <2>1, <3>1, ListJob, FreshStartsNew
  <2>4. QED
    BY <2>2, <2>3
<1>12. QED
  BY <1>5, <1>6, <1>7, <1>8, <1>9, <1>10, <1>11 DEF User

LEMMA FreshStep ==
    ASSUME MailWindowAssumption, WindowType, OrderInv, FoldersInv, EventsInv, FreshInv, [Next]_vars
    PROVE  FreshInv'
<1>1. UNCHANGED setting
  BY SettingStays
<1> SUFFICES ASSUME Orderly, folder' # None PROVE FreshInv'
  BY <1>1 DEF FreshInv, Orderly
<1>2. setting \in Settings /\ QueuesType
  BY DEF WindowType
<1>3. ASSUME UNCHANGED <<account, folder, list, searching, tasks, answers>>, folder \in Folders,
             ~ NewMessages(folder),
             MailIn(folder)' \subseteq MailIn(folder) \/ overrun' \/ Told(folder)'
      PROVE  FreshInv'
  <2>1. PICK f \in Folders : f = folder /\ f = folder'
    BY <1>3
  <2>2. (overrun => overrun') /\ (Told(f) => overrun' \/ Told(f)')
    BY <1>2, <1>3, <2>1, EventsStep
  <2>3. Told(folder) => overrun' \/ Told(folder)'
    BY <1>3, <2>1, <2>2 DEF Told
  <2>4. QED
    BY <1>1, <1>3, <2>2, <2>3, FreshKept
<1>4. ASSUME NEW i \in DOMAIN tasks, Answer(i) PROVE FreshInv'
  <2>1. Line' = Line /\ UNCHANGED <<account, folder, list, searching, stored, ring, news, overrun>>
    BY <1>2, <1>4, LineAnswer DEF Orderly, Answer, db, shown, supervisor
  <2>2. MailIn(folder)' = MailIn(folder) /\ Told(folder)' = Told(folder)
    BY <2>1 DEF MailIn, Told
  <2>3. QED
    BY <1>1, <2>1, <2>2 DEF FreshInv, Orderly, Own
<1>5. ASSUME NEW i \in DOMAIN tasks PROVE ~ TaskFails(i)
  BY DEF TaskFails, Orderly
<1>6. ASSUME ~ User, ~ Draw, UNCHANGED <<shown, tasks, answers>>,
             MailIn(folder)' \subseteq MailIn(folder) \/ overrun' \/ Told(folder)'
      PROVE  FreshInv'
  <2>1. UNCHANGED <<account, folder, list, searching>> /\ folder \in Folders
    BY <1>6 DEF shown, WindowType, ShownType
  <2>2. ~ NewMessages(folder)
    BY <1>6, <2>1 DEF Draw
  <2>3. QED
    BY <1>3, <1>6, <2>1, <2>2
<1>7. ASSUME ~ User, ~ Draw, UNCHANGED <<shown, tasks, answers, stored>> PROVE FreshInv'
  <2>1. MailIn(folder)' = MailIn(folder)
    BY <1>7 DEF MailIn, shown
  <2>2. QED
    BY <1>6, <1>7, <2>1
<1>8. CASE ~ User /\ ~ Draw /\ (Drawn \/ Touch \/ Relay \/ UNCHANGED vars)
  BY <1>7, <1>8 DEF Drawn, Touch, Relay, db, vars
<1>9. ASSUME ~ User, ~ Draw, NEW a \in Accounts, FindFolders(a) PROVE FreshInv'
  BY <1>7, <1>9 DEF FindFolders
<1>10. ASSUME ~ User, ~ Draw, NEW m \in Messages, Store(m) PROVE FreshInv'
  <2>1. UNCHANGED <<shown, tasks, answers>> /\ stored' = stored \cup {m}
    BY <1>10 DEF Store
  <2>2. overrun' \/ Told(In[m])'
    BY <1>2, <1>10, StoreTells
  <2>3. folder' = folder
    BY <2>1 DEF shown
  <2>4. CASE In[m] = folder
    BY <1>6, <1>10, <2>1, <2>2, <2>3, <2>4 DEF Told
  <2>5. CASE In[m] # folder
    <3>1. MailIn(folder)' \subseteq MailIn(folder)
      BY <2>1, <2>3, <2>5 DEF MailIn
    <3>2. QED
      BY <1>6, <1>10, <2>1, <3>1
  <2>6. QED
    BY <2>4, <2>5
<1>11. QED
  BY <1>4, <1>5, <1>8, <1>9, <1>10, FreshAccess, FreshDraw, FreshClick DEF Next, Work, Supervisor

LEMMA FreshInit == Init => FreshInv
BY DEF Init, FreshInv

-----------------------------------------------------------------------------
(***************************************************************************)
(* Once nothing is on its way.                                              *)
(***************************************************************************)
SettleInv == WindowType /\ OrderInv /\ FoldersInv /\ EventsInv /\ FreshInv /\ DetailInv

\* The line is empty: what the list shows stands.
LEMMA NothingBehind ==
    ASSUME NEW line, Len(line) = 0, NEW shows, NEW there, NEW now, View(line, shows, there, now)
    PROVE  \A e \in shows : e.id \in there /\ e.flags = now[e.id]
<1>1. \A e \in shows : Stands(line, 0, e, there, now)
  BY DEF View, Loaded, Seen
<1>2. 1..Len(line) = {}
  OBVIOUS
<1>3. QED
  BY <1>1, <1>2 DEF Stands, Settles, Gone

LEMMA QuietSettles ==
    ASSUME MailWindowAssumption, SettleInv
    PROVE  WindowSettles
<1> SUFFICES ASSUME Quiet PROVE
        /\ setting.inOrder => Ids(list) \subseteq stored
        /\ Orderly /\ ~searching /\ ~overrun /\ folder \in folders =>
             list = {Entry(m) : m \in MailIn(folder)}
        /\ Orderly /\ "refresh" \notin setting.uses /\ account # None =>
             folders = FoldersOf(account)
        /\ setting.patient /\ setting.faults = {} => Ids(detail) \subseteq {message}
  BY DEF WindowSettles
<1>1. tasks = <<>> /\ answers = <<>> /\ ring = <<>> /\ news = <<>>
  BY DEF Quiet
<1>2. Len(Line) = 0
  <2>1. PICK a \in Seq(Jobs), b \in Seq(Jobs) : a = answers /\ b = tasks /\ Len(a) = 0 /\ Len(b) = 0
    BY <1>1, EmptySeq
  <2>2. Len(a \o b) = 0
    BY <2>1, LineParts
  <2>3. QED
    BY <2>1, <2>2 DEF Line
<1>3. setting.inOrder => \A e \in list : e.id \in stored /\ e.flags = flags[e.id]
  BY <1>2, NothingBehind DEF SettleInv, OrderInv
<1>4. setting.inOrder => Ids(list) \subseteq stored
  BY <1>3 DEF Ids
<1>5. Orderly => /\ \A f \in folders : Own(f)
                 /\ NoRefresh /\ account # None => folders = FoldersOf(account)
  <2>1. ~ Loads(Line, "folders")
    BY <1>2 DEF Loads
  <2>2. QED
    BY <2>1 DEF SettleInv, FoldersInv, FoldersShown, OwnedBy, FoldersOf, Own
<1>6. ASSUME Orderly, ~searching, ~overrun, folder \in folders
      PROVE  list = {Entry(m) : m \in MailIn(folder)}
  <2>1. folder # None /\ Own(folder) /\ setting.inOrder
    BY <1>5, <1>6, NobodyThere DEF SettleInv, WindowType, ShownType, Orderly
  <2>2. ~ Told(folder)
    BY <1>1, EmptyQueue DEF Told
  <2>3. Fresh(Line, list, folder, MailIn(folder), Told(folder))
    BY <1>6, <2>1 DEF SettleInv, FreshInv
  <2>4. 0 \in 0..Len(Line) /\ Latest(Line, 0) /\ Loaded(Line, 0) /\ Seen(Line, list, 0) = list
    BY <1>2 DEF Latest, Loaded, Seen
  <2>5. OfFolder(list, folder) /\ HasAll(list, folder, MailIn(folder))
    BY <2>2, <2>3, <2>4 DEF Fresh
  <2>6. ASSUME NEW e \in list PROVE e = Entry(e.id) /\ e.id \in MailIn(folder)
    <3>1. e \in Entries /\ e.id \in stored /\ e.flags = flags[e.id] /\ In[e.id] = folder
      BY <1>3, <2>1, <2>5 DEF SettleInv, WindowType, ShownType, OfFolder
    <3>2. QED
      BY <3>1 DEF Entries, Entry, MailIn
  <2>7. ASSUME NEW m \in MailIn(folder) PROVE Entry(m) \in list
    <3>1. PICK e \in list : e.id = m
      BY <2>5 DEF HasAll
    <3>2. QED
      BY <2>6, <3>1
  <2>8. QED
    BY <2>6, <2>7
<1>7. setting.patient /\ setting.faults = {} => Ids(detail) \subseteq {message}
  <2>1. OnTheWay = {}
    BY <1>1, EmptyQueue DEF OnTheWay
  <2>2. QED
    BY <2>1 DEF SettleInv, DetailInv, DetailComes, Calm
<1>8. QED
  BY <1>4, <1>5, <1>6, <1>7 DEF NoRefresh

LEMMA SettleInit ==
    ASSUME MailWindowAssumption, ComposerInit
    PROVE  SettleInv
BY WindowTypeInit, OrderInit, FoldersInit, EventsInit, FreshInit, DetailInit DEF ComposerInit, SettleInv

\* The composer changes nothing of the main window.
LEMMA ComposingSettled ==
    ASSUME SettleInv, UNCHANGED window
    PROVE  SettleInv'
<1>1. UNCHANGED <<setting, stored, known, flags, account, folder, folders, list, message, detail,
                  searching, tasks, answers, news, ring, relay, refresh, overrun>>
  BY DEF window, db, shown, supervisor
<1>2. WindowType'
  BY <1>1 DEF SettleInv, WindowType, DatabaseType, ShownType, QueuesType
<1>3. Line' = Line /\ OnTheWay' = OnTheWay /\ Orderly' = Orderly /\ Calm' = Calm
      /\ NoRefresh' = NoRefresh
  BY <1>1 DEF Line, OnTheWay, Orderly, Calm, NoRefresh
<1>4. OrderInv' /\ FoldersInv'
  BY <1>1, <1>3 DEF SettleInv, OrderInv, FoldersInv
<1>5. EventsInv'
  BY <1>1 DEF SettleInv, EventsInv
<1>6. Told(folder)' = Told(folder) /\ MailIn(folder)' = MailIn(folder) /\ Own(folder)' = Own(folder)
  BY <1>1 DEF Told, MailIn, Own
<1>7. FreshInv'
  BY <1>1, <1>3, <1>6 DEF SettleInv, FreshInv
<1>8. DetailComes' = DetailComes
  BY <1>3 DEF DetailComes
<1>9. DetailInv'
  BY <1>1, <1>3, <1>8 DEF SettleInv, DetailInv, Ids
<1>10. QED
  BY <1>2, <1>4, <1>5, <1>7, <1>9 DEF SettleInv

LEMMA SettleStep ==
    ASSUME MailWindowAssumption, SettleInv, [ComposerNext]_<<vars, composing>>
    PROVE  SettleInv'
<1>1. [Next]_vars \/ UNCHANGED window
  BY DEF ComposerNext, Compose, Reply, Forward, Write, WriteTo, WriteText, WriteCopies,
         PickAttachment, RemoveAttachment, Edit, Begin, Stroke, Send, SaveDraft, Cancel, HandOver
<1>2. CASE [Next]_vars
  BY <1>2, WindowTypeStep, OrderStep, FoldersStep, EventsStep, FreshStep, DetailStep
  DEF SettleInv, WindowType
<1>3. QED
  BY <1>1, <1>2, ComposingSettled

THEOREM SettleInvariance == ComposerSpec => []SettleInv
BY SettleInit, SettleStep, MailWindowAssumption, PTL DEF ComposerSpec

\* Once nothing is on its way, the window shows what the database has: for any accounts,
\* folders, messages, ring and number of clicks, with everything the user does and whatever
\* the supervisor stores meanwhile (handle_responses and handle_incoming_ipc).
THEOREM SettlesWindow == ComposerSpec => []WindowSettles
<1>1. SettleInv => WindowSettles
  BY QuietSettles, MailWindowAssumption
<1>2. QED
  BY <1>1, SettleInvariance, PTL

-----------------------------------------------------------------------------
(***************************************************************************)
(* Flags, if the user also waits for each answer and does not search: what  *)
(* a click started is at the front of the line, and behind it are lists of  *)
(* the selected folder that news started.                                   *)
(***************************************************************************)
Begins(line, kind) == Len(line) > 0 /\ line[1].kind = kind

Arranged(line, shows, f, open) ==
    /\ \A i \in 1..Len(line) :
         /\ line[i].kind # "search" /\ (i > 1 => line[i].kind = "list")
         /\ line[i].kind = "list" => f # None /\ line[i].of = f /\ OfFolder(line[i].data, f)
    /\ Begins(line, "accounts") \/ Begins(line, "folders") => f = None
    /\ f = None => shows = {} /\ open = None
    /\ OfFolder(shows, f) \/ (open = None /\ Loads(line, "list"))

\* The open message is in the list, and in every list that has been read.
Listed(line, shows, m) ==
    \A i \in 0..Len(line) : Loaded(line, i) => \E e \in Seen(line, shows, i) : e.id = m

OpenKept(line, shows, f, open, there) ==
    \/ open = None
    \/ Begins(line, "delete") /\ line[1].of = open
    \/ open \in there /\ In[open] = f /\ Listed(line, shows, open)

\* The flags of a message are on their way to the database.
Sets(line, m) == Begins(line, "flags") /\ ~ line[1].read /\ line[1].of = m

Wished(line, there, now, wanted) ==
    /\ \A m : Sets(line, m) => m \in there /\ line[1].flags = wanted[m]
    /\ \A m \in there : now[m] = wanted[m] \/ Sets(line, m)

LEMMA ArrangedJoins ==
    ASSUME NEW line, NEW next, Len(line) \in Nat, NEW t, Joins(line, next, t),
           NEW f, NEW shows, NEW open, Arranged(line, shows, f, open),
           t.kind = "list", t.of = f, f # None, t.data = {}
    PROVE  Arranged(next, shows, f, open)
<1>1. /\ Len(next) = Len(line) + 1 /\ next[Len(line) + 1] = t
      /\ \A i \in 1..Len(line) : next[i] = line[i] /\ i \in 1..Len(next)
      /\ \A i \in 1..Len(next) : i \in 1..Len(line) \/ i = Len(line) + 1
  BY DEF Joins
<1>2. \A i \in 1..Len(next) :
        /\ next[i].kind # "search" /\ (i > 1 => next[i].kind = "list")
        /\ next[i].kind = "list" => f # None /\ next[i].of = f /\ OfFolder(next[i].data, f)
  BY <1>1 DEF Arranged, OfFolder
<1>3. \A kind \in {"accounts", "folders"} : ~ Begins(next, kind)
  <2>1. CASE Len(line) = 0
    BY <1>1, <2>1 DEF Begins
  <2>2. CASE Len(line) # 0
    <3>1. next[1] = line[1] /\ Len(line) > 0
      BY <1>1, <2>2
    <3>2. QED
      BY <3>1 DEF Begins, Arranged
  <2>3. QED
    BY <2>1, <2>2
<1>4. Loads(next, "list")
  BY <1>1 DEF Loads
<1>5. QED
  BY <1>2, <1>3, <1>4 DEF Arranged

LEMMA ArrangedLeaves ==
    ASSUME NEW line, NEW next, Len(line) \in Nat, Len(next) \in Nat, Leaves(line, next),
           NEW shows \in SUBSET Entries, NEW after, Taken(line[1], shows, after),
           NEW f, NEW open, NEW opens \in {open, None}, Arranged(line, shows, f, open)
    PROVE  Arranged(next, after, f, opens)
<1>1. /\ Len(line) = Len(next) + 1 /\ 1 \in 1..Len(line)
      /\ \A i \in 1..Len(next) : next[i] = line[i + 1] /\ i + 1 \in 1..Len(line) /\ i + 1 > 1
      /\ \A i \in 1..Len(line) : i = 1 \/ (i - 1 \in 1..Len(next) /\ next[i - 1] = line[i])
  BY DEF Leaves
<1>2. \A i \in 1..Len(next) : next[i].kind = "list" /\ f # None /\ next[i].of = f /\ OfFolder(next[i].data, f)
  BY <1>1 DEF Arranged
<1>3. \A kind \in {"accounts", "folders"} : ~ Begins(next, kind)
  <2>1. Len(next) > 0 => 1 \in 1..Len(next)
    OBVIOUS
  <2>2. QED
    BY <1>2, <2>1 DEF Begins
<1>4. /\ line[1].kind # "search"
      /\ Lists(line[1]) => after = line[1].data /\ OfFolder(after, f) /\ f # None
  BY <1>1 DEF Arranged, Taken, Lists
<1>5. ASSUME ~ Lists(line[1]) PROVE \A e \in after : \E d \in shows : d.id = e.id
  <2>1. CASE line[1].kind = "flags" /\ after = WithFlags(shows, line[1].of, line[1].flags)
    <3>1. \A d \in shows : [d EXCEPT !.flags = line[1].flags].id = d.id
      BY DEF Entries
    <3>2. QED
      BY <2>1, <3>1 DEF WithFlags
  <2>2. CASE line[1].kind = "delete" /\ after = {e \in shows : e.id # line[1].of}
    BY <2>2
  <2>3. CASE after = shows
    BY <2>3
  <2>4. QED
    BY <1>5, <2>1, <2>2, <2>3 DEF Taken
<1>6. f = None => after = {} /\ opens = None
  BY <1>4, <1>5 DEF Arranged
<1>7. ASSUME ~ Lists(line[1]), Loads(line, "list") PROVE Loads(next, "list")
  BY <1>1, <1>7 DEF Loads, Lists
<1>8. OfFolder(after, f) \/ (opens = None /\ Loads(next, "list"))
  BY <1>4, <1>5, <1>7 DEF Arranged, OfFolder
<1>9. QED
  BY <1>2, <1>3, <1>6, <1>8 DEF Arranged

LEMMA ArrangedReads ==
    ASSUME NEW line, NEW next, NEW p \in 1..Len(line), NEW t, Len(line) \in Nat,
           Reads(line, next, p, t), t.kind = line[p].kind, t.of = line[p].of,
           NEW f, NEW shows, NEW open, Arranged(line, shows, f, open),
           t.kind = "list" /\ t.of = f => OfFolder(t.data, f)
    PROVE  Arranged(next, shows, f, open)
<1>1. /\ Len(next) = Len(line) /\ next[p] = t
      /\ \A i \in 1..Len(line) : i # p => next[i] = line[i]
      /\ \A i \in 1..Len(line) : next[i].kind = line[i].kind /\ next[i].of = line[i].of
  BY DEF Reads
<1>2. \A i \in 1..Len(next) :
        /\ next[i].kind # "search" /\ (i > 1 => next[i].kind = "list")
        /\ next[i].kind = "list" => f # None /\ next[i].of = f /\ OfFolder(next[i].data, f)
  BY <1>1 DEF Arranged
<1>3. \A kind : Begins(next, kind) => Begins(line, kind)
  BY <1>1 DEF Begins
<1>4. Loads(line, "list") => Loads(next, "list")
  BY <1>1 DEF Loads
<1>5. QED
  BY <1>2, <1>3, <1>4 DEF Arranged

\* A click starts something else than a list.
LEMMA ArrangedAlone ==
    ASSUME NEW next, Len(next) = 1, next[1].kind \notin {"list", "search"},
           NEW f, NEW shows, NEW open,
           next[1].kind \in {"accounts", "folders"} => f = None,
           f = None => shows = {} /\ open = None,
           OfFolder(shows, f)
    PROVE  Arranged(next, shows, f, open)
<1>1. \A i \in 1..Len(next) : i = 1
  OBVIOUS
<1>2. QED
  BY <1>1 DEF Arranged, Begins

\* It starts a list.
LEMMA ArrangedList ==
    ASSUME NEW next, Len(next) = 1, NEW f, NEW shows,
           next[1].kind = "list", next[1].of = f, f # None, next[1].data = {}
    PROVE  Arranged(next, shows, f, None)
<1>1. \A i \in 1..Len(next) : i = 1
  OBVIOUS
<1>2. 1 \in 1..Len(next)
  OBVIOUS
<1>3. QED
  BY <1>1, <1>2 DEF Arranged, Begins, Loads, OfFolder

LEMMA OpenJoins ==
    ASSUME NEW line, NEW next, Len(line) \in Nat, NEW t, Joins(line, next, t), ~ t.read,
           NEW f, NEW shows, NEW open, NEW there, OpenKept(line, shows, f, open, there)
    PROVE  OpenKept(next, shows, f, open, there)
<1>1. /\ Len(next) = Len(line) + 1 /\ next[Len(line) + 1] = t
      /\ \A i \in 1..Len(line) : next[i] = line[i] /\ i \in 1..Len(next)
      /\ \A i \in 1..Len(next) : i \in 1..Len(line) \/ i = Len(line) + 1
  BY DEF Joins
<1>2. CASE Begins(line, "delete") /\ line[1].of = open
  <2>1. 1 \in 1..Len(line) /\ Len(next) > 0
    BY <1>1, <1>2 DEF Begins
  <2>2. QED
    BY <1>1, <1>2, <2>1 DEF Begins, OpenKept
<1>3. CASE open \in there /\ In[open] = f /\ Listed(line, shows, open)
  <2>1. ASSUME NEW i \in 0..Len(next), Loaded(next, i)
        PROVE  \E e \in Seen(next, shows, i) : e.id = open
    <3>1. i \in 0..Len(line) /\ Loaded(line, i) /\ Seen(next, shows, i) = Seen(line, shows, i)
      <4>1. CASE i = 0
        BY <4>1 DEF Loaded, Seen
      <4>2. CASE i # 0
        <5>1. i \in 1..Len(line) /\ next[i] = line[i]
          BY <1>1, <2>1, <4>2 DEF Loaded
        <5>2. QED
          BY <2>1, <5>1 DEF Loaded, Seen
      <4>3. QED
        BY <4>1, <4>2
    <3>2. QED
      BY <1>3, <3>1 DEF Listed
  <2>2. Listed(next, shows, open)
    BY <2>1 DEF Listed
  <2>3. QED
    BY <1>3, <2>2 DEF OpenKept
<1>4. QED
  BY <1>2, <1>3 DEF OpenKept

\* An answer to a deletion of the open message closes it.
LEMMA OpenLeaves ==
    ASSUME NEW line, NEW next, Len(line) \in Nat, Len(next) \in Nat, Leaves(line, next),
           NEW shows \in SUBSET Entries, NEW after, Taken(line[1], shows, after), line[1].read,
           NEW f, NEW open, NEW there, OpenKept(line, shows, f, open, there),
           NEW opens, opens = IF line[1].kind = "delete" /\ line[1].of = open THEN None ELSE open
    PROVE  OpenKept(next, after, f, opens, there)
<1>1. /\ Len(line) = Len(next) + 1 /\ Len(line) > 0 /\ 1 \in 0..Len(line) /\ 0 \in 0..Len(line)
      /\ \A i \in 1..Len(next) : next[i] = line[i + 1] /\ i + 1 \in 0..Len(line) /\ i + 1 # 0
  BY DEF Leaves
<1>2. CASE opens = None
  BY <1>2 DEF OpenKept
<1>3. CASE opens # None
  <2>1. opens = open /\ open \in there /\ In[open] = f /\ Listed(line, shows, open)
        /\ ~ (line[1].kind = "delete" /\ line[1].of = open)
    BY <1>3 DEF OpenKept, Begins
  <2>2. \E e \in after : e.id = open
    <3>1. CASE Lists(line[1]) /\ after = line[1].data
      BY <1>1, <2>1, <3>1 DEF Listed, Loaded, Seen
    <3>2. PICK e \in shows : e.id = open
      BY <1>1, <2>1 DEF Listed, Loaded, Seen
    <3>3. CASE line[1].kind = "flags" /\ after = WithFlags(shows, line[1].of, line[1].flags)
      <4>1. [e EXCEPT !.flags = line[1].flags].id = e.id
        BY DEF Entries
      <4>2. PICK d \in after : d = IF e.id = line[1].of THEN [e EXCEPT !.flags = line[1].flags] ELSE e
        BY <3>3 DEF WithFlags
      <4>3. QED
        BY <3>2, <4>1, <4>2
    <3>4. CASE line[1].kind = "delete" /\ after = {d \in shows : d.id # line[1].of}
      BY <2>1, <3>2, <3>4
    <3>5. CASE after = shows
      BY <3>2, <3>5
    <3>6. QED
      BY <3>1, <3>3, <3>4, <3>5 DEF Taken
  <2>3. ASSUME NEW i \in 0..Len(next), Loaded(next, i)
        PROVE  \E e \in Seen(next, after, i) : e.id = open
    <3>1. CASE i = 0
      BY <2>2, <3>1 DEF Seen
    <3>2. CASE i # 0
      <4>1. i \in 1..Len(next) /\ next[i] = line[i + 1] /\ i + 1 \in 0..Len(line) /\ i + 1 # 0
        BY <1>1, <2>3, <3>2
      <4>2. Loaded(line, i + 1) /\ Seen(line, shows, i + 1) = line[i + 1].data
        BY <2>3, <3>2, <4>1 DEF Loaded, Seen
      <4>3. \E e \in line[i + 1].data : e.id = open
        BY <2>1, <4>1, <4>2 DEF Listed
      <4>4. QED
        BY <3>2, <4>1, <4>3 DEF Seen
    <3>3. QED
      BY <3>1, <3>2
  <2>4. QED
    BY <2>1, <2>3 DEF Listed, OpenKept
<1>4. QED
  BY <1>2, <1>3

\* A deletion is at the front, and a list that is read has the open message.
LEMMA OpenReads ==
    ASSUME NEW line, NEW next, NEW p \in 1..Len(line), NEW t, Len(line) \in Nat,
           Reads(line, next, p, t), t.kind = line[p].kind, t.of = line[p].of,
           NEW f, NEW shows, NEW open, Arranged(line, shows, f, open),
           NEW there, NEW now, NEW left, NEW after, Wrote(t, there, now, left, after),
           NEW mine, mine = {m \in there : In[m] = f}, t.kind = "list" /\ t.of = f => HasAll(t.data, f, mine),
           OpenKept(line, shows, f, open, there)
    PROVE  OpenKept(next, shows, f, open, left)
<1>1. /\ Len(next) = Len(line) /\ next[p] = t /\ p \in Nat /\ p > 0
      /\ \A i \in 1..Len(line) : i # p => next[i] = line[i]
  BY DEF Reads
<1>2. p > 1 => t.kind = "list"
  BY DEF Arranged
<1>3. /\ t.kind # "search"
      /\ t.kind = "list" => t.of = f
  BY DEF Arranged
<1>4. CASE open = None
  BY <1>4 DEF OpenKept
<1>5. CASE Begins(line, "delete") /\ line[1].of = open
  <2>1. next[1].kind = line[1].kind /\ next[1].of = line[1].of
    BY <1>1, <1>5 DEF Begins
  <2>2. QED
    BY <1>1, <1>5, <2>1 DEF Begins, OpenKept
<1>6. CASE open \in there /\ In[open] = f /\ Listed(line, shows, open)
  <2>1. CASE t.kind = "delete" /\ t.of = open
    <3>1. p = 1 /\ Len(next) > 0
      BY <1>1, <1>2, <2>1
    <3>2. QED
      BY <1>1, <2>1, <3>1 DEF Begins, OpenKept
  <2>2. CASE ~ (t.kind = "delete" /\ t.of = open)
    <3>1. open \in left
      BY <1>6, <2>2 DEF Wrote
    <3>2. ASSUME NEW i \in 0..Len(next), Loaded(next, i)
          PROVE  \E e \in Seen(next, shows, i) : e.id = open
      <4>1. CASE i = p
        <5>1. t.kind = "list" /\ t.of = f
          BY <1>1, <1>3, <3>2, <4>1 DEF Loaded, Lists
        <5>2. \E e \in t.data : e.id = open
          BY <1>6, <5>1 DEF HasAll
        <5>3. QED
          BY <1>1, <4>1, <5>2 DEF Seen
      <4>2. CASE i # p
        <5>1. i \in 0..Len(line) /\ Loaded(line, i) /\ Seen(line, shows, i) = Seen(next, shows, i)
          BY <1>1, <3>2, <4>2 DEF Loaded, Seen
        <5>2. QED
          BY <1>6, <5>1 DEF Listed
      <4>3. QED
        BY <4>1, <4>2
    <3>3. Listed(next, shows, open)
      BY <3>2 DEF Listed
    <3>4. QED
      BY <1>6, <3>1, <3>3 DEF OpenKept
  <2>3. QED
    BY <2>1, <2>2
<1>7. QED
  BY <1>4, <1>5, <1>6 DEF OpenKept

\* A message that is selected is in the list.
LEMMA OpenAlone ==
    ASSUME NEW next, Len(next) = 1, next[1].kind = "detail",
           NEW f, NEW shows, NEW open, NEW there, open \in there, In[open] = f,
           \E e \in shows : e.id = open
    PROVE  OpenKept(next, shows, f, open, there)
<1>1. \A i \in 0..Len(next) : i = 0 \/ i = 1
  OBVIOUS
<1>2. ~ Loaded(next, 1)
  BY DEF Loaded, Lists
<1>3. Listed(next, shows, open)
  BY <1>1, <1>2 DEF Listed, Seen
<1>4. QED
  BY <1>3 DEF OpenKept

LEMMA WishedJoins ==
    ASSUME NEW line, NEW next, Len(line) \in Nat, NEW t, Joins(line, next, t), t.kind # "flags",
           NEW there, NEW now, NEW wanted, Wished(line, there, now, wanted)
    PROVE  Wished(next, there, now, wanted)
<1>1. CASE Len(line) = 0
  <2>1. next[1] = t
    BY <1>1 DEF Joins
  <2>2. QED
    BY <1>1, <2>1 DEF Wished, Sets, Begins
<1>2. CASE Len(line) # 0
  <2>1. next[1] = line[1] /\ Len(next) > 0 /\ Len(line) > 0
    BY <1>2 DEF Joins
  <2>2. QED
    BY <2>1 DEF Wished, Sets, Begins
<1>3. QED
  BY <1>1, <1>2

LEMMA WishedLeaves ==
    ASSUME NEW line, NEW next, Len(line) \in Nat, Len(next) \in Nat, Leaves(line, next), line[1].read,
           NEW f, NEW shows, NEW open, Arranged(line, shows, f, open),
           NEW there, NEW now, NEW wanted, Wished(line, there, now, wanted)
    PROVE  Wished(next, there, now, wanted)
<1>1. Len(next) > 0 => next[1].kind = "list"
  <2>1. Len(next) > 0 => 1 \in 1..Len(next) /\ 2 \in 1..Len(line) /\ next[1] = line[2]
    BY DEF Leaves
  <2>2. QED
    BY <2>1 DEF Arranged
<1>2. \A m : ~ Sets(next, m) /\ ~ Sets(line, m)
  BY <1>1 DEF Sets, Begins
<1>3. QED
  BY <1>2 DEF Wished

LEMMA WishedReads ==
    ASSUME NEW line, NEW next, NEW p \in 1..Len(line), NEW t, Len(line) \in Nat,
           ReadUpTo(line, p), Reads(line, next, p, t),
           t.kind = line[p].kind, t.of = line[p].of, t.flags = line[p].flags, t.read,
           NEW f, NEW shows, NEW open, Arranged(line, shows, f, open),
           NEW there, NEW now, NEW left, NEW after, Wrote(t, there, now, left, after),
           NEW wanted, Wished(line, there, now, wanted)
    PROVE  Wished(next, left, after, wanted)
<1>1. /\ Len(next) = Len(line) /\ next[p] = t /\ p \in Nat /\ p > 0 /\ 1 \in 1..Len(line) /\ Len(line) > 0
      /\ \A i \in 1..Len(line) : i # p => next[i] = line[i]
  BY DEF Reads
<1>2. /\ ~ line[p].read
      /\ p > 1 => t.kind = "list"
  BY DEF ReadUpTo, Arranged
<1>3. /\ left \subseteq there
      /\ \A m \in left : after[m] = IF t.kind = "flags" /\ m = t.of THEN t.flags ELSE now[m]
      /\ t.kind # "delete" => left = there
  BY DEF Wrote
<1>4. CASE p = 1
  <2>1. \A m : ~ Sets(next, m)
    BY <1>1, <1>4 DEF Sets
  <2>2. ASSUME NEW m \in left PROVE after[m] = wanted[m]
    <3>1. now[m] = wanted[m] \/ Sets(line, m)
      BY <1>3, <2>2 DEF Wished
    <3>2. CASE Sets(line, m)
      <4>1. t.kind = "flags" /\ t.of = m /\ line[1].flags = wanted[m]
        BY <1>4, <3>2 DEF Sets, Begins, Wished
      <4>2. QED
        BY <1>3, <1>4, <2>2, <4>1
    <3>3. CASE ~ Sets(line, m)
      <4>1. ~ (t.kind = "flags" /\ t.of = m)
        BY <1>1, <1>2, <1>4, <3>3 DEF Sets, Begins
      <4>2. QED
        BY <1>3, <2>2, <3>1, <3>3, <4>1
    <3>4. QED
      BY <3>2, <3>3
  <2>3. QED
    BY <2>1, <2>2 DEF Wished
<1>5. CASE p # 1
  <2>1. next[1] = line[1] /\ t.kind = "list"
    BY <1>1, <1>2, <1>5
  <2>2. \A m : Sets(next, m) <=> Sets(line, m)
    BY <1>1, <2>1 DEF Sets, Begins
  <2>3. left = there /\ \A m \in left : after[m] = now[m]
    BY <1>3, <2>1
  <2>4. next[1].flags = line[1].flags
    BY <2>1
  <2>5. QED
    BY <2>2, <2>3, <2>4 DEF Wished
<1>6. QED
  BY <1>4, <1>5

\* A click on a flag of m, with nothing on its way.
LEMMA WishedAlone ==
    ASSUME NEW line, Len(line) = 0, NEW next, Len(next) = 1,
           NEW there, NEW now, NEW wanted, Wished(line, there, now, wanted),
           NEW m \in there, next[1].of = m, next[1].kind = "flags", ~ next[1].read,
           NEW wants, next[1].flags = wants[m], \A n \in there : n # m => wants[n] = wanted[n]
    PROVE  Wished(next, there, now, wants)
<1>1. \A n \in there : now[n] = wanted[n]
  BY DEF Wished, Sets, Begins
<1>2. \A n : Sets(next, n) <=> n = m
  BY DEF Sets, Begins
<1>3. QED
  BY <1>1, <1>2 DEF Wished

\* The supervisor stores m.
LEMMA WishedStores ==
    ASSUME NEW line, NEW there, NEW now, NEW wanted, Wished(line, there, now, wanted),
           NEW m, m \notin there, NEW left, left = there \cup {m}, NEW after, NEW wants,
           after[m] = wants[m], \A n \in there : after[n] = now[n] /\ wants[n] = wanted[n]
    PROVE  Wished(line, left, after, wants)
BY DEF Wished

Plain == setting.patient /\ "search" \notin setting.uses /\ Orderly

WishInv ==
    Plain =>
        /\ Arranged(Line, list, folder, message)
        /\ OpenKept(Line, list, folder, message, stored)
        /\ Wished(Line, stored, flags, wish)

LEMMA SingleLine ==
    ASSUME NEW line, NEW next, Len(line) = 0, NEW t, Joins(line, next, t)
    PROVE  Len(next) = 1 /\ next[1] = t
BY DEF Joins

\* While no folder is selected, the line has no list, and so at most one task.
LEMMA LoadsAlone ==
    ASSUME NEW line, NEW next, Len(line) \in Nat, Len(next) \in Nat, Leaves(line, next),
           NEW shows, NEW open, Arranged(line, shows, None, open)
    PROVE  Len(next) = 0
<1> SUFFICES ASSUME Len(next) > 0 PROVE FALSE
  OBVIOUS
<1>1. 2 \in 1..Len(line)
  BY DEF Leaves
<1>2. QED
  BY <1>1 DEF Arranged

\* A step that takes an answer and starts nothing.
LEMMA WishTakes ==
    ASSUME WindowType, WishInv, NEW kind, Take(kind), UNCHANGED <<tasks, folder>>,
           Taken(Head(answers), list, list'),
           message' = IF kind = "delete" /\ Head(answers).of = message THEN None ELSE message
    PROVE  WishInv'
<1>1. UNCHANGED <<setting, stored, flags, wish>>
  BY DEF Take, db, histories
<1> SUFFICES ASSUME Plain
             PROVE  /\ Arranged(Line, list, folder, message)'
                    /\ OpenKept(Line, list, folder, message, stored)'
                    /\ Wished(Line, stored, flags, wish)'
  BY <1>1 DEF WishInv, Plain, Orderly
<1>2. PICK rest \in Seq(Jobs) : Leaves(Line, rest) /\ Line' = rest
  BY LineTakes, StartsNone DEF WindowType
<1>3. Line[1] = Head(answers) /\ Line[1].read /\ Line[1].kind = kind /\ Line \in Seq(Jobs)
  BY LineTakes
<1>4. PICK line, f, shows, after, open, opens, there, now, wanted :
          /\ line = Line /\ f = folder /\ shows = list /\ after = list'
          /\ open = message /\ opens = message'
          /\ there = stored /\ now = flags /\ wanted = wish
  OBVIOUS
<1>5. /\ Len(line) \in Nat /\ Len(rest) \in Nat /\ Leaves(line, rest) /\ line[1].read
      /\ Taken(line[1], shows, after) /\ shows \in SUBSET Entries
      /\ opens = IF line[1].kind = "delete" /\ line[1].of = open THEN None ELSE open
  BY <1>2, <1>3, <1>4, LenProperties DEF WindowType, ShownType
<1>6. Arranged(line, shows, f, open) /\ OpenKept(line, shows, f, open, there) /\ Wished(line, there, now, wanted)
  BY <1>4 DEF WishInv
<1>7. Arranged(rest, after, f, opens)
  <2>1. opens \in {open, None}
    BY <1>5
  <2>2. QED
    BY <1>5, <1>6, <2>1, ArrangedLeaves
<1>8. OpenKept(rest, after, f, opens, there)
  BY <1>5, <1>6, OpenLeaves
<1>9. Wished(rest, there, now, wanted)
  BY <1>5, <1>6, WishedLeaves
<1>10. QED
  BY <1>1, <1>2, <1>4, <1>7, <1>8, <1>9

\* One that takes the answer while no folder is selected, and starts a task.
LEMMA WishTakesNew ==
    ASSUME WindowType, WishInv, Plain, NEW kind, Take(kind), MayStart, folder = None, UNCHANGED message,
           UNCHANGED list, NEW t \in Jobs, Start(t), ~ t.read, t.data = {},
           \/ t.kind = "folders" /\ UNCHANGED folder
           \/ t.kind = "list" /\ t.of = folder' /\ folder' # None
    PROVE  WishInv'
<1>1. UNCHANGED <<setting, stored, flags, wish>> /\ QueuesType
  BY DEF Take, db, histories, WindowType
<1>2. PICK rest \in Seq(Jobs), u \in Jobs : Leaves(Line, rest) /\ Joins(rest, Line', u) /\ ~ u.read /\ Start(u)
  BY <1>1, LineTakes, StartsNone DEF MayStart
<1>3. u = t
  BY <1>1, <1>2, StartsOne
<1>4. Line[1].read /\ Line \in Seq(Jobs)
  BY <1>1, LineTakes DEF MayStart
<1>5. PICK line, next, f, shows, there, now, wanted :
          /\ line = Line /\ next = Line' /\ f = folder' /\ shows = list
          /\ there = stored /\ now = flags /\ wanted = wish
  OBVIOUS
<1>6. /\ Len(line) \in Nat /\ Len(rest) \in Nat /\ Leaves(line, rest) /\ line[1].read
      /\ Joins(rest, next, t)
  BY <1>2, <1>3, <1>4, <1>5, LenProperties
<1>7. Arranged(line, shows, None, message) /\ Wished(line, there, now, wanted)
  BY <1>5 DEF WishInv
<1>8. Len(rest) = 0 /\ message = None /\ shows = {}
  <2>1. Len(rest) = 0
    BY <1>6, <1>7, LoadsAlone
  <2>2. QED
    BY <1>7, <2>1 DEF Arranged
<1>9. Len(next) = 1 /\ next[1] = t
  BY <1>6, <1>8, SingleLine
<1>10. Arranged(next, shows, f, None)
  <2>1. CASE t.kind = "folders" /\ UNCHANGED folder
    BY <1>5, <1>8, <1>9, <2>1, ArrangedAlone DEF OfFolder
  <2>2. CASE t.kind = "list" /\ t.of = folder' /\ folder' # None
    BY <1>5, <1>9, <2>2, ArrangedList
  <2>3. QED
    BY <2>1, <2>2
<1>11. OpenKept(next, shows, f, None, there)
  BY DEF OpenKept
<1>12. Wished(next, there, now, wanted)
  <2>1. Wished(rest, there, now, wanted)
    BY <1>6, <1>7, WishedLeaves
  <2>2. t.kind # "flags"
    OBVIOUS
  <2>3. QED
    BY <1>6, <2>1, <2>2, WishedJoins
<1>13. QED
  BY <1>1, <1>5, <1>8, <1>10, <1>11, <1>12 DEF WishInv

LEMMA WishAccess ==
    ASSUME WindowType, OrderInv, WishInv, NEW i \in DOMAIN tasks, Access(i)
    PROVE  WishInv'
<1>1. UNCHANGED <<setting, folder, list, message, wish>>
  BY DEF Access, shown, histories
<1> SUFFICES ASSUME Plain
             PROVE  /\ Arranged(Line, list, folder, message)'
                    /\ OpenKept(Line, list, folder, message, stored)'
                    /\ Wished(Line, stored, flags, wish)'
  BY <1>1 DEF WishInv, Plain, Orderly
<1>2. IsLine(Line) /\ setting.inOrder
  BY DEF OrderInv, Plain, Orderly
<1>3. PICK p \in 1..Len(Line), u \in Jobs :
          /\ ReadUpTo(Line, p) /\ tasks[i] = Line[p]
          /\ u = [Line[p] EXCEPT !.read = TRUE, !.data = Result(Line[p])]
          /\ Reads(Line, Line', p, u)
  BY <1>2, LineAccess
<1>4. /\ u.kind = Line[p].kind /\ u.of = Line[p].of /\ u.flags = Line[p].flags
      /\ u.data = Result(Line[p]) /\ u.read
      /\ Wrote(u, stored, flags, stored', flags')
  <2>1. u = [tasks[i] EXCEPT !.read = TRUE, !.data = Result(tasks[i])]
    BY <1>3
  <2>2. /\ u.kind = tasks[i].kind /\ u.of = tasks[i].of /\ u.flags = tasks[i].flags
        /\ u.data = Result(tasks[i]) /\ u.read
        /\ Wrote(u, stored, flags, stored', flags')
    BY <2>1, AccessWrites
  <2>3. QED
    BY <1>3, <2>2
<1>5. ASSUME u.kind = "list", u.of = folder
      PROVE  /\ OfFolder(u.data, folder)
             /\ HasAll(u.data, folder, {m \in stored : In[m] = folder})
  <2>1. u.data = {Entry(m) : m \in MailIn(folder)}
    BY <1>4, <1>5 DEF Result
  <2>2. \A m : Entry(m).id = m
    BY DEF Entry
  <2>3. QED
    BY <2>1, <2>2 DEF OfFolder, HasAll, MailIn
<1>6. PICK line, next, f, shows, open, there, left, now, after, wanted :
          /\ line = Line /\ next = Line' /\ f = folder /\ shows = list /\ open = message
          /\ there = stored /\ left = stored' /\ now = flags /\ after = flags' /\ wanted = wish
  OBVIOUS
<1>7. /\ p \in 1..Len(line) /\ Len(line) \in Nat /\ ReadUpTo(line, p) /\ Reads(line, next, p, u)
      /\ u.kind = line[p].kind /\ u.of = line[p].of /\ u.flags = line[p].flags /\ u.read
      /\ Wrote(u, there, now, left, after)
  BY <1>2, <1>3, <1>4, <1>6, LenProperties DEF IsLine
<1>8. Arranged(line, shows, f, open) /\ OpenKept(line, shows, f, open, there) /\ Wished(line, there, now, wanted)
  BY <1>6 DEF WishInv
<1>9. Arranged(next, shows, f, open)
  <2>1. u.kind = "list" /\ u.of = f => OfFolder(u.data, f)
    BY <1>5, <1>6
  <2>2. QED
    BY <1>7, <1>8, <2>1, ArrangedReads
<1>10. OpenKept(next, shows, f, open, left)
  <2>1. PICK mine : mine = {m \in there : In[m] = f}
    OBVIOUS
  <2>2. u.kind = "list" /\ u.of = f => HasAll(u.data, f, mine)
    BY <1>5, <1>6, <2>1
  <2>3. QED
    BY <1>7, <1>8, <2>1, <2>2, OpenReads
<1>11. Wished(next, left, after, wanted)
  BY <1>7, <1>8, WishedReads
<1>12. QED
  BY <1>1, <1>6, <1>9, <1>10, <1>11

LEMMA WishDraw ==
    ASSUME MailWindowAssumption, WindowType, FoldersInv, WishInv, Plain, Draw
    PROVE  WishInv'
<1>1. MayStart /\ QueuesType /\ Orderly
  BY DrawStarts DEF WindowType, Plain
<1>2. ASSUME NEW kind \in {"accounts", "folders", "detail"}, Take(kind),
             UNCHANGED <<tasks, folder, list, message>>
      PROVE  WishInv'
  <2>1. Taken(Head(answers), list, list')
    BY <1>2 DEF Take, Taken
  <2>2. QED
    BY <1>2, <2>1, WishTakes
<1>3. ASSUME NEW kind \in {"accounts", "folders"}, Take(kind) PROVE folder = None
  <2>1. Line[1].kind = kind /\ Line \in Seq(Jobs) /\ 1 \in 1..Len(Line)
    BY <1>1, <1>3, LineTakes DEF MayStart
  <2>2. Begins(Line, kind)
    BY <2>1 DEF Begins
  <2>3. QED
    BY <1>3, <2>2 DEF WishInv, Arranged
<1>4. CASE AccountsLoaded
  <2>1. Take("accounts") /\ UNCHANGED <<folder, folders, list, message, detail, searching>>
    BY <1>4 DEF AccountsLoaded
  <2>2. CASE UNCHANGED <<account, tasks>>
    BY <1>2, <2>1, <2>2
  <2>3. CASE ~ UNCHANGED <<account, tasks>>
    <3>1. Head(answers).data = Accounts
      <4>1. Line[1] = Head(answers) /\ Line[1].kind = "accounts" /\ Line[1].read /\ 1 \in 1..Len(Line)
        BY <1>1, <2>1, LineTakes DEF MayStart
      <4>2. QED
        BY <1>1, <4>1 DEF FoldersInv, FoldersCome
    <3>2. PICK a \in Accounts : Start(Task("folders", a))
      BY <1>4, <2>3, <3>1 DEF AccountsLoaded
    <3>3. PICK t \in Jobs : Start(t) /\ t.kind = "folders" /\ ~ t.read /\ t.data = {}
      BY <3>2, NewJobs, UnreadTask DEF Task
    <3>4. QED
      BY <1>1, <1>3, <2>1, <3>3, WishTakesNew
  <2>4. QED
    BY <2>2, <2>3
<1>5. CASE FoldersLoaded
  <2>1. Take("folders") /\ UNCHANGED <<account, list, message, detail, searching>>
    BY <1>5 DEF FoldersLoaded
  <2>2. CASE UNCHANGED <<folder, tasks>>
    BY <1>2, <2>1, <2>2
  <2>3. CASE ~ UNCHANGED <<folder, tasks>>
    <3>1. PICK f : folder' = f /\ Start(Task("list", f)) /\ f \in folders'
      BY <1>5, <2>3 DEF FoldersLoaded
    <3>2. f \in Folders /\ f # None
      BY <3>1, DrawType, NobodyThere DEF WindowType, ShownType
    <3>3. PICK t \in Jobs : Start(t) /\ ~ t.read /\ t.kind = "list" /\ t.of = f /\ t.data = {}
      BY <3>1, <3>2, ListJob
    <3>4. QED
      BY <1>1, <1>3, <2>1, <3>1, <3>2, <3>3, WishTakesNew
  <2>4. QED
    BY <2>2, <2>3
<1>6. CASE MessagesLoaded
  <2>1. PICK kind \in {"list", "search"} : Take(kind)
    BY <1>6 DEF MessagesLoaded
  <2>2. Taken(Head(answers), list, list') /\ UNCHANGED <<tasks, folder, message>>
    BY <1>6, <2>1 DEF MessagesLoaded, Take, Taken, Lists
  <2>3. QED
    BY <2>1, <2>2, WishTakes
<1>7. CASE DetailLoaded
  BY <1>2, <1>7 DEF DetailLoaded
<1>8. CASE FlagsUpdated
  <2>1. Take("flags") /\ Taken(Head(answers), list, list') /\ UNCHANGED <<tasks, folder, message>>
    BY <1>8 DEF FlagsUpdated, Take, Taken
  <2>2. QED
    BY <2>1, WishTakes
<1>9. CASE MessageDeleted
  <2>1. /\ Take("delete") /\ Taken(Head(answers), list, list') /\ UNCHANGED <<tasks, folder>>
        /\ message' = IF Head(answers).of = message THEN None ELSE message
    BY <1>9 DEF MessageDeleted, Take, Taken
  <2>2. QED
    BY <2>1, WishTakes
<1>10. ASSUME NEW f \in Folders, NewMessages(f) \/ FolderUpdated(f) PROVE WishInv'
  <2>1. UNCHANGED <<setting, stored, flags, folder, list, message, answers, wish>>
    BY <1>10 DEF NewMessages, FolderUpdated, TakeNews, db, shown, histories
  <2>2. CASE UNCHANGED tasks
    BY <2>1, <2>2 DEF WishInv, Plain, Orderly, Line
  <2>3. CASE ~ UNCHANGED tasks
    <3>1. Start(Task("list", f)) /\ folder = f /\ f # None
      BY <1>10, <2>3, NobodyThere DEF NewMessages, FolderUpdated
    <3>2. PICK t \in Jobs : Start(t) /\ ~ t.read /\ t.kind = "list" /\ t.of = f /\ t.data = {}
      BY <3>1, ListJob
    <3>3. PICK line, next, shows, open, there, now, wanted :
              /\ line = Line /\ next = Line' /\ shows = list /\ open = message
              /\ there = stored /\ now = flags /\ wanted = wish
      OBVIOUS
    <3>4. Joins(line, next, t) /\ Len(line) \in Nat
      BY <1>1, <2>1, <3>2, <3>3, LineStart, LineParts, LenProperties DEF Line, QueuesType
    <3>5. Arranged(line, shows, f, open) /\ OpenKept(line, shows, f, open, there) /\ Wished(line, there, now, wanted)
      BY <3>1, <3>3 DEF WishInv
    <3>6. Arranged(next, shows, f, open)
      BY <3>1, <3>2, <3>4, <3>5, ArrangedJoins
    <3>7. OpenKept(next, shows, f, open, there)
      BY <3>2, <3>4, <3>5, OpenJoins
    <3>8. Wished(next, there, now, wanted)
      <4>1. t.kind # "flags"
        BY <3>2
      <4>2. QED
        BY <3>4, <3>5, <4>1, WishedJoins
    <3>9. QED
      BY <2>1, <3>1, <3>3, <3>6, <3>7, <3>8 DEF WishInv
  <2>4. QED
    BY <2>2, <2>3
<1>11. QED
  BY <1>4, <1>5, <1>6, <1>7, <1>8, <1>9, <1>10 DEF Draw

\* What a click finds: nothing on its way, and a window that shows what the database has.
LEMMA ClickFinds ==
    ASSUME MailWindowAssumption, SettleInv, WishInv, Plain, User
    PROVE  /\ Len(Line) = 0 /\ QueuesType /\ UNCHANGED <<setting, stored, flags, answers>>
           /\ Wished(Line, stored, flags, wish) /\ OpenKept(Line, list, folder, message, stored)
           /\ OfFolder(list, folder) /\ (folder = None => list = {} /\ message = None)
           /\ \A e \in list : e.id \in stored /\ e.flags = flags[e.id] /\ In[e.id] = folder
           /\ message # None =>
                message \in stored /\ In[message] = folder /\ \E e \in list : e.id = message
           /\ \A m \in stored : flags[m] = wish[m]
           /\ Ids(detail) \subseteq {message}
<1>1. WindowType /\ QueuesType /\ Calm /\ setting.inOrder
  BY DEF SettleInv, WindowType, Plain, Calm, Orderly
<1>2. OnTheWay = {} /\ tasks = <<>> /\ answers = <<>>
  BY <1>1, ClickAlone
<1>3. Len(Line) = 0
  <2>1. Len(answers) = 0 /\ Len(tasks) = 0
    BY <1>2, LenProperties, EmptySeq
  <2>2. QED
    BY <1>1, <2>1, LineParts DEF Line, QueuesType
<1>4. UNCHANGED <<setting, stored, flags, answers>>
  BY <1>1, ClickStarts DEF db
<1>5. PICK line : line = Line
  OBVIOUS
<1>6. Arranged(line, list, folder, message) /\ OpenKept(line, list, folder, message, stored)
      /\ Wished(line, stored, flags, wish) /\ View(line, list, stored, flags) /\ Len(line) = 0
  BY <1>1, <1>3, <1>5 DEF WishInv, SettleInv, OrderInv
<1>7. ~ Loads(line, "list") /\ (\A kind : ~ Begins(line, kind)) /\ Loaded(line, 0) /\ 0 \in 0..Len(line)
      /\ Seen(line, list, 0) = list
  BY <1>6 DEF Loads, Begins, Loaded, Seen
<1>8. OfFolder(list, folder) /\ (folder = None => list = {} /\ message = None)
  BY <1>6, <1>7 DEF Arranged
<1>9. \A e \in list : e.id \in stored /\ e.flags = flags[e.id] /\ In[e.id] = folder
  BY <1>6, <1>8, NothingBehind DEF OfFolder
<1>10. message # None => message \in stored /\ In[message] = folder /\ \E e \in list : e.id = message
  <2>1. Listed(line, list, message) => \E e \in list : e.id = message
    BY <1>7 DEF Listed
  <2>2. QED
    BY <1>6, <1>7, <2>1 DEF OpenKept
<1>11. \A m \in stored : flags[m] = wish[m]
  BY <1>6, <1>7 DEF Wished, Sets
<1>12. Ids(detail) \subseteq {message}
  BY <1>1, <1>2 DEF SettleInv, DetailInv, DetailComes
<1>13. QED
  BY <1>1, <1>3, <1>4, <1>5, <1>6, <1>8, <1>9, <1>10, <1>11, <1>12

\* A click that starts a task alone.
LEMMA ClickJoins ==
    ASSUME QueuesType, UNCHANGED answers, Len(Line) = 0, NEW t \in Jobs, Start(t)
    PROVE  Joins(Line, Line', t) /\ Len(Line') = 1 /\ Line'[1] = t
<1>1. Joins(Line, Line', t)
  BY LineStart
<1>2. PICK line, next : line = Line /\ next = Line'
  OBVIOUS
<1>3. QED
  BY <1>1, <1>2, SingleLine

\* The flags the user wants are of all messages.
WishType == DOMAIN wish = Messages

LEMMA WishTypeStep ==
    ASSUME WishType, [Next]_vars
    PROVE  WishType'
<1>1. ASSUME UNCHANGED wish PROVE WishType'
  BY <1>1 DEF WishType
<1>2. CASE Work \/ (\E i \in DOMAIN tasks : TaskFails(i)) \/ Drawn \/ Touch \/ UNCHANGED vars
  BY <1>1, <1>2 DEF Work, Access, Answer, TaskFails, Drawn, Touch, histories, vars
<1>3. CASE Draw
  BY <1>1, <1>3 DEF Draw, AccountsLoaded, FoldersLoaded, MessagesLoaded, DetailLoaded, FlagsUpdated,
                    MessageDeleted, Take, NewMessages, FolderUpdated, TakeNews, histories
<1>4. CASE Supervisor
  BY <1>1, <1>4 DEF Supervisor, FindFolders, Relay, histories
<1>5. ASSUME NEW m \in Messages, Store(m) PROVE WishType'
  BY <1>5 DEF Store, WishType
<1>6. ASSUME NEW e \in Entries, NEW flag \in {"seen", "flagged"}, Toggle(e, flag) PROVE WishType'
  BY <1>6 DEF Toggle, WishType
<1>7. CASE User
  BY <1>1, <1>6, <1>7 DEF User, SelectAccount, SelectFolder, SelectMessage, Delete, SyncFolder,
                          SyncAllFolders, Search, ClearSearch
<1>8. QED
  BY <1>2, <1>3, <1>4, <1>5, <1>7 DEF Next

LEMMA WishClick ==
    ASSUME MailWindowAssumption, SettleInv, WishType, WishInv, Plain, User
    PROVE  WishInv'
<1>1. /\ Len(Line) = 0 /\ QueuesType /\ UNCHANGED <<setting, stored, flags, answers>>
      /\ Wished(Line, stored, flags, wish) /\ OpenKept(Line, list, folder, message, stored)
      /\ OfFolder(list, folder) /\ (folder = None => list = {} /\ message = None)
  BY ClickFinds
<1>2. /\ \A e \in list : e.id \in stored /\ e.flags = flags[e.id] /\ In[e.id] = folder
      /\ message # None =>
           message \in stored /\ In[message] = folder /\ \E e \in list : e.id = message
      /\ \A m \in stored : flags[m] = wish[m]
      /\ Ids(detail) \subseteq {message}
  BY ClickFinds
<1>3. WindowType /\ tasks' \in Seq(Jobs)
  BY ClickType DEF SettleInv, WindowType, QueuesType
<1>4. PICK line, next, shows, f, open : line = Line /\ next = Line' /\ shows = list' /\ f = folder' /\ open = message'
  OBVIOUS
<1>5. ASSUME NEW t \in Jobs, Start(t), t.kind # "flags", UNCHANGED wish,
             Arranged(next, shows, f, open), OpenKept(next, shows, f, open, stored)
      PROVE  WishInv'
  <2>1. Joins(line, next, t)
    BY <1>1, <1>4, <1>5, ClickJoins
  <2>2. Wished(next, stored, flags, wish)
    BY <1>1, <1>4, <1>5, <2>1, WishedJoins
  <2>3. QED
    BY <1>1, <1>4, <1>5, <2>2 DEF WishInv
<1>6. ASSUME NEW a \in Accounts, SelectAccount(a) PROVE WishInv'
  <2>1. shows = {} /\ f = None /\ open = None /\ UNCHANGED wish
    BY <1>4, <1>6 DEF SelectAccount
  <2>2. PICK t \in Jobs : Start(t) /\ t.kind = "folders"
    BY <1>6, NewJobs DEF SelectAccount
  <2>3. Len(next) = 1 /\ next[1] = t
    BY <1>1, <1>4, <2>2, ClickJoins
  <2>4. Arranged(next, shows, f, open)
    BY <2>1, <2>2, <2>3, ArrangedAlone DEF OfFolder
  <2>5. OpenKept(next, shows, f, open, stored)
    BY <2>1 DEF OpenKept
  <2>6. QED
    BY <1>5, <2>1, <2>2, <2>4, <2>5
<1>7. ASSUME NEW g \in Folders, SelectFolder(g) PROVE WishInv'
  <2>1. f = g /\ f # None /\ open = None /\ UNCHANGED wish
    BY <1>4, <1>7, NobodyThere DEF SelectFolder
  <2>2. PICK t \in Jobs : Start(t) /\ t.kind = "list" /\ t.of = g /\ t.data = {}
    BY <1>7, ListJob DEF SelectFolder
  <2>3. Len(next) = 1 /\ next[1] = t
    BY <1>1, <1>4, <2>2, ClickJoins
  <2>4. Arranged(next, shows, f, open)
    BY <2>1, <2>2, <2>3, ArrangedList
  <2>5. OpenKept(next, shows, f, open, stored)
    BY <2>1 DEF OpenKept
  <2>6. QED
    BY <1>5, <2>1, <2>2, <2>4, <2>5
<1>8. ASSUME NEW e \in Entries, SelectMessage(e) PROVE WishInv'
  <2>1. e \in list /\ shows = list /\ f = folder /\ open = e.id /\ UNCHANGED wish
    BY <1>4, <1>8 DEF SelectMessage
  <2>2. open \in stored /\ In[open] = f /\ f # None
    BY <1>1, <1>2, <2>1
  <2>3. PICK t \in Jobs : Start(t) /\ t.kind = "detail"
    <3>1. e.id \in Messages
      BY DEF Entries
    <3>2. QED
      BY <1>8, <3>1, NewJobs DEF SelectMessage
  <2>4. Len(next) = 1 /\ next[1] = t
    BY <1>1, <1>4, <2>3, ClickJoins
  <2>5. Arranged(next, shows, f, open)
    BY <1>1, <2>1, <2>2, <2>3, <2>4, ArrangedAlone
  <2>6. OpenKept(next, shows, f, open, stored)
    BY <2>1, <2>2, <2>3, <2>4, OpenAlone
  <2>7. QED
    BY <1>5, <2>1, <2>3, <2>5, <2>6
<1>9. ASSUME NEW t \in Jobs, Start(t), t.kind \in {"flags", "delete"}, ~ t.read, UNCHANGED shown
      PROVE  Arranged(next, shows, f, open) /\ OpenKept(next, shows, f, open, stored)
  <2>1. shows = list /\ f = folder /\ open = message
    BY <1>4, <1>9 DEF shown
  <2>2. Len(next) = 1 /\ next[1] = t /\ Joins(line, next, t)
    BY <1>1, <1>4, <1>9, ClickJoins
  <2>3. Arranged(next, shows, f, open)
    BY <1>1, <1>9, <2>1, <2>2, ArrangedAlone
  <2>4. OpenKept(line, shows, f, open, stored) /\ Len(line) \in Nat
    BY <1>1, <1>4, <2>1
  <2>5. QED
    BY <1>9, <2>2, <2>3, <2>4, OpenJoins
<1>10. ASSUME NEW e \in Entries, Delete(e) PROVE WishInv'
  <2>1. PICK t \in Jobs : Start(t) /\ t.kind = "delete" /\ ~ t.read
    <3>1. e.id \in Messages
      BY DEF Entries
    <3>2. QED
      BY <1>10, <3>1, NewJobs, UnreadTask DEF Delete
  <2>2. UNCHANGED <<shown, wish>>
    BY <1>10 DEF Delete
  <2>3. QED
    BY <1>5, <1>9, <2>1, <2>2
<1>11. ASSUME NEW e \in Entries, NEW flag \in {"seen", "flagged"}, Toggle(e, flag) PROVE WishInv'
  <2>1. PICK m : m = e.id
    OBVIOUS
  <2>2. PICK listed, others, fl, wants :
            /\ listed = UNION {d.flags : d \in {l \in list : l.id = e.id}}
            /\ others = listed \ {flag}
            /\ fl = (IF flag \in e.flags THEN others \ {flag} ELSE others \cup {flag})
            /\ Start([Task("flags", e.id) EXCEPT !.flags = fl])
            /\ wish' = wants
            /\ wants = [wish EXCEPT ![e.id] = IF flag \in e.flags THEN @ \ {flag} ELSE @ \cup {flag}]
    BY <1>11 DEF Toggle
  <2>3. e \in list \cup detail /\ UNCHANGED shown
    BY <1>11 DEF Toggle
  <2>4. PICK found \in list : found.id = m
    <3>1. CASE e \in list
      BY <2>1, <3>1
    <3>2. CASE e \in detail
      <4>1. e.id = message /\ e.id \in Messages
        BY <1>2, <3>2 DEF Ids, Entries
      <4>2. message # None
        BY <4>1, NobodyThere
      <4>3. QED
        BY <1>2, <2>1, <4>1, <4>2
    <3>3. QED
      BY <2>3, <3>1, <3>2
  <2>5. m \in stored /\ flags[m] = wish[m] /\ \A l \in list : l.id = m => l.flags = wish[m]
    BY <1>2, <2>4
  <2>6. others = wish[m] \ {flag}
    <3>1. {d.flags : d \in {l \in list : l.id = e.id}} = {wish[m]}
      BY <2>1, <2>4, <2>5
    <3>2. listed = wish[m]
      BY <2>2, <3>1
    <3>3. QED
      BY <2>2, <3>2
  <2>7. m \in DOMAIN wish
    BY <2>1 DEF WishType, Entries
  <2>8. fl = wants[m] /\ \A n \in stored : n # m => wants[n] = wish[n]
    <3>1. stored \subseteq DOMAIN wish
      BY <1>1 DEF SettleInv, WindowType, DatabaseType, WishType
    <3>2. /\ wants[m] = IF flag \in e.flags THEN wish[m] \ {flag} ELSE wish[m] \cup {flag}
          /\ \A n \in stored : n # m => wants[n] = wish[n]
      BY <2>1, <2>2, <2>7, <3>1
    <3>3. fl = IF flag \in e.flags THEN wish[m] \ {flag} ELSE wish[m] \cup {flag}
      BY <2>2, <2>6
    <3>4. QED
      BY <3>2, <3>3
  <2>9. PICK t \in Jobs : Start(t) /\ t.kind = "flags" /\ t.of = m /\ t.flags = fl /\ ~ t.read
    <3>1. PICK u : u = [Task("flags", e.id) EXCEPT !.flags = fl]
      OBVIOUS
    <3>2. Start(u) /\ u.kind = "flags" /\ u.of = m /\ u.flags = fl /\ ~ u.read
      BY <2>1, <2>2, <3>1, NewJobs, UnreadTask
    <3>3. u \in Jobs
      BY <1>1, <1>3, <3>2, StartedJob
    <3>4. QED
      BY <3>2, <3>3
  <2>10. Arranged(next, shows, f, open) /\ OpenKept(next, shows, f, open, stored)
    BY <1>9, <2>3, <2>9
  <2>11. Len(next) = 1 /\ next[1] = t
    BY <1>1, <1>4, <2>9, ClickJoins
  <2>12. Wished(next, stored, flags, wants)
    <3>1. PICK wanted : wanted = wish
      OBVIOUS
    <3>2. Wished(line, stored, flags, wanted) /\ Len(line) = 0
      BY <1>1, <1>4, <3>1
    <3>3. next[1].flags = wants[m] /\ \A n \in stored : n # m => wants[n] = wanted[n]
      BY <2>8, <2>9, <2>11, <3>1
    <3>4. QED
      BY <2>5, <2>9, <2>11, <3>2, <3>3, WishedAlone
  <2>13. QED
    BY <1>1, <1>4, <2>2, <2>10, <2>12 DEF WishInv
<1>12. CASE SyncFolder \/ SyncAllFolders
  <2>1. Line' = Line /\ UNCHANGED <<list, folder, message, wish>>
    BY <1>1, <1>12 DEF SyncFolder, SyncAllFolders, shown, Line
  <2>2. QED
    BY <1>1, <2>1 DEF WishInv, Plain, Orderly
<1>13. ~ Search /\ ~ ClearSearch
  BY DEF Search, ClearSearch, Click, Plain
<1>14. QED
  BY <1>6, <1>7, <1>8, <1>10, <1>11, <1>12, <1>13 DEF User

LEMMA WishStep ==
    ASSUME MailWindowAssumption, SettleInv, WishType, WishInv, [Next]_vars
    PROVE  WishInv'
<1>1. UNCHANGED setting /\ WindowType /\ OrderInv /\ FoldersInv
  BY SettingStays DEF SettleInv
<1> SUFFICES ASSUME Plain PROVE WishInv'
  BY <1>1 DEF WishInv, Plain, Orderly
<1>2. setting.inOrder /\ setting.faults = {} /\ QueuesType
  BY <1>1 DEF Plain, Orderly, WindowType
<1>3. ASSUME Line' = Line, UNCHANGED <<shown, stored, flags, wish>> PROVE WishInv'
  BY <1>3 DEF WishInv, shown
<1>4. ASSUME NEW i \in DOMAIN tasks, Answer(i) PROVE WishInv'
  BY <1>2, <1>3, <1>4, LineAnswer DEF Answer, db, histories
<1>5. ASSUME NEW i \in DOMAIN tasks PROVE ~ TaskFails(i)
  BY <1>2 DEF TaskFails
<1>6. CASE Drawn \/ Touch \/ Relay \/ UNCHANGED vars
  BY <1>3, <1>6 DEF Drawn, Touch, Relay, db, vars, histories, Line
<1>7. ASSUME NEW a \in Accounts, FindFolders(a) PROVE WishInv'
  BY <1>3, <1>7 DEF FindFolders, histories, Line
<1>8. ASSUME NEW m \in Messages, Store(m) PROVE WishInv'
  <2>1. /\ Line' = Line /\ UNCHANGED <<list, folder, message>>
        /\ m \notin stored /\ stored' = stored \cup {m}
    BY <1>8 DEF Store, Line, shown
  <2>2. /\ flags'[m] = {} /\ wish'[m] = {}
        /\ \A n \in stored : flags'[n] = flags[n] /\ wish'[n] = wish[n]
    <3>1. m \in DOMAIN flags /\ m \in DOMAIN wish
      BY <1>1 DEF WindowType, DatabaseType, WishType
    <3>2. QED
      BY <1>8, <2>1, <3>1 DEF Store
  <2>3. PICK line, there, now, wanted, left, after, wants :
            /\ line = Line /\ there = stored /\ now = flags /\ wanted = wish
            /\ left = stored' /\ after = flags' /\ wants = wish'
    OBVIOUS
  <2>4. Wished(line, left, after, wants)
    <3>1. Wished(line, there, now, wanted)
      BY <2>3 DEF WishInv
    <3>2. /\ m \notin there /\ left = there \cup {m} /\ after[m] = wants[m]
          /\ \A n \in there : after[n] = now[n] /\ wants[n] = wanted[n]
      BY <2>1, <2>2, <2>3
    <3>3. QED
      BY <3>1, <3>2, WishedStores
  <2>5. OpenKept(Line, list, folder, message, stored')
    BY <2>1 DEF WishInv, OpenKept
  <2>6. QED
    BY <2>1, <2>3, <2>4, <2>5 DEF WishInv
<1>9. QED
  BY <1>1, <1>4, <1>5, <1>6, <1>7, <1>8, WishAccess, WishDraw, WishClick DEF Next, Work, Supervisor

LEMMA WishInit ==
    ASSUME MailWindowAssumption, Init
    PROVE  WishType /\ WishInv
<1>1. Len(Line) = 1 /\ Line[1].kind = "accounts"
  BY LineInit
<1>2. folder = None /\ list = {} /\ message = None /\ DOMAIN wish = Messages /\ \A m \in stored : FALSE
  BY DEF Init
<1>3. PICK line : line = Line
  OBVIOUS
<1>4. Arranged(line, list, folder, message)
  BY <1>1, <1>2, <1>3, ArrangedAlone DEF OfFolder
<1>5. OpenKept(line, list, folder, message, stored)
  BY <1>2 DEF OpenKept
<1>6. Wished(line, stored, flags, wish)
  BY <1>1, <1>2, <1>3 DEF Wished, Sets, Begins
<1>7. QED
  BY <1>2, <1>3, <1>4, <1>5, <1>6 DEF WishType, WishInv

LEMMA ComposingWished ==
    ASSUME WishType, WishInv, UNCHANGED window
    PROVE  WishType' /\ WishInv'
<1>1. UNCHANGED <<setting, stored, flags, folder, list, message, tasks, answers, wish>>
  BY DEF window, db, shown, histories
<1>2. QED
  BY <1>1 DEF WishType, WishInv, Plain, Orderly, Line

THEOREM WishInvariance == ComposerSpec => [](WishType /\ WishInv)
<1>1. ComposerInit => WishType /\ WishInv
  BY WishInit, MailWindowAssumption DEF ComposerInit
<1>2. SettleInv /\ WishType /\ WishInv /\ [ComposerNext]_<<vars, composing>> => (WishType /\ WishInv)'
  <2> SUFFICES ASSUME SettleInv, WishType, WishInv, [ComposerNext]_<<vars, composing>>
               PROVE  (WishType /\ WishInv)'
    OBVIOUS
  <2>1. [Next]_vars \/ UNCHANGED window
    BY DEF ComposerNext, Compose, Reply, Forward, Write, WriteTo, WriteText, WriteCopies,
           PickAttachment, RemoveAttachment, Edit, Begin, Stroke, Send, SaveDraft, Cancel, HandOver
  <2>2. QED
    BY <2>1, WishTypeStep, WishStep, ComposingWished, MailWindowAssumption
<1>3. QED
  BY <1>1, <1>2, SettleInvariance, PTL DEF ComposerSpec

\* Once nothing is on its way, each flag of a message is as the user last set it, if the user
\* waits for each answer and does not search and tasks end in order without failing: for any
\* number of clicks, on any flags of any messages, with deletions and with mail that arrives
\* meanwhile (ToggleFlag and ToggleRead).
THEOREM SetsFlagsAsWished == ComposerSpec => []FlagsAsWished
<1>1. WishInv => FlagsAsWished
  <2> SUFFICES ASSUME WishInv, Plain, Quiet PROVE \A m \in stored : flags[m] = wish[m]
    BY DEF FlagsAsWished, Plain
  <2>1. Line = <<>> \o <<>>
    BY DEF Quiet, Line
  <2>2. Len(Line) = 0
    BY <2>1, LineParts, EmptySeq, LenProperties
  <2>3. \A m : ~ Sets(Line, m)
    BY <2>2 DEF Sets, Begins
  <2>4. QED
    BY <2>3 DEF WishInv, Wished
<1>2. QED
  BY <1>1, WishInvariance, PTL
=============================================================================
