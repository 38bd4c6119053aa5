-------------------------- MODULE FolderSyncProofs --------------------------
(***************************************************************************)
(* While the server keeps its UIDVALIDITY, any number of tasks may          *)
(* synchronize a folder of any size at the same time, whatever fails: the   *)
(* cache shows what the server has under each UID, and skips nothing        *)
(* silently.  When UIDVALIDITY changes, the same holds of syncs that come   *)
(* one after the other and know what the folder is marked with.             *)
(***************************************************************************)
EXTENDS FolderSync, BlobStore, TLAPS, FiniteSetTheorems, WellFoundedInduction

USE FolderSyncAssumption

-----------------------------------------------------------------------------
\* MAX and MIN of a set of UIDs.
LEMMA TopIsMax ==
    ASSUME NEW S \in SUBSET Uids
    PROVE  /\ Top(S) \in 0..MaxUid
           /\ \A u \in S : u <= Top(S)
           /\ S # {} => Top(S) \in S
<1> DEFINE B == {n \in 0..MaxUid : \A u \in S : u <= n}
<1>1. MaxUid \in B /\ B \subseteq Nat
  BY DEF Uids
<1>2. PICK n \in B : \A k \in B : ~ (<<k, n>> \in OpToRel(<, Nat))
  BY <1>1, NatLessThanWellFounded, WFMin
<1>3. n \in 0..MaxUid /\ \A u \in S : u \in Nat /\ 0 < u /\ u <= n
  BY <1>1 DEF Uids
<1>4. CASE S # {}
  <2>1. n \in S
    <3>1. SUFFICES ASSUME n \notin S PROVE FALSE
      OBVIOUS
    <3>2. 0 < n /\ n - 1 \in 0..MaxUid
      BY <1>3, <1>4
    <3>3. \A u \in S : u <= n - 1
      BY <1>3, <3>1
    <3>4. n - 1 \in B
      BY <3>2, <3>3
    <3>5. <<n - 1, n>> \in Nat \X Nat /\ n - 1 < n
      BY <1>3, <3>2
    <3>6. <<n - 1, n>> \in OpToRel(<, Nat)
      BY <3>5 DEF OpToRel
    <3>7. QED
      BY <1>2, <3>4, <3>6, Zenon
  <2>2. \E u \in S : \A v \in S : v <= u
    BY <1>3, <2>1
  <2>3. Top(S) \in S /\ \A v \in S : v <= Top(S)
    BY <1>4, <2>2 DEF Top
  <2>4. Top(S) \in Uids
    BY <2>3
  <2>5. Top(S) \in 0..MaxUid
    BY <2>4 DEF Uids
  <2>6. QED
    BY <2>3, <2>5
<1>5. CASE S = {}
  BY <1>5 DEF Top
<1>6. QED
  BY <1>4, <1>5

LEMMA AtIsMin ==
    ASSUME NEW t \in Tasks, Pending(t) # {}
    PROVE  At(t) \in Pending(t) /\ At(t) \in Uids /\ \A u \in Pending(t) : At(t) <= u
<1>1. Pending(t) \subseteq Uids /\ Uids \subseteq Nat
  BY DEF Pending, Uids
<1>2. PICK n \in Pending(t) : \A k \in Pending(t) : ~ (<<k, n>> \in OpToRel(<, Nat))
  <2>1. Pending(t) \subseteq Nat
    BY <1>1
  <2>2. QED
    BY <2>1, NatLessThanWellFounded, WFMin
<1>3. ASSUME NEW k \in Pending(t) PROVE n <= k
  <2>1. n \in Nat /\ k \in Nat /\ <<k, n>> \in Nat \X Nat
    BY <1>1
  <2>2. k < n => <<k, n>> \in OpToRel(<, Nat)
    BY <2>1 DEF OpToRel
  <2>3. ~ (k < n)
    BY <1>2, <2>2, Zenon
  <2>4. QED
    BY <2>1, <2>3
<1>4. At(t) \in Pending(t) /\ \A u \in Pending(t) : At(t) <= u
  BY <1>3 DEF At
<1>5. QED
  BY <1>1, <1>4

-----------------------------------------------------------------------------
(***************************************************************************)
(* Typing.                                                                  *)
(***************************************************************************)

\* A task that stores messages has one to store.
BusyInv == \A t \in Tasks : pc[t] \in {"lookup", "upsert", "attach"} => Pending(t) # {}

LEMMA EmptyBoxType == EmptyBox \in [Uids -> Mails \cup {NoMail}]
BY DEF EmptyBox

LEMMA RowsType == NoRow \in Rows /\ \A m \in Mails : [head |-> m, body |-> m, files |-> FALSE] \in Rows
BY DEF Rows, NoRow

LEMMA RowUpdate ==
    ASSUME NEW old \in Rows \ {NoRow}, NEW m \in Mails
    PROVE  /\ [old EXCEPT !.body = m] \in Rows \ {NoRow}
           /\ [old EXCEPT !.body = m].head = old.head
           /\ [old EXCEPT !.body = m].body = m
           /\ [old EXCEPT !.files = TRUE] \in Rows \ {NoRow}
           /\ [old EXCEPT !.files = TRUE].head = old.head
           /\ [old EXCEPT !.files = TRUE].body = old.body
<1>1. old \in [head : Mails, body : Mails, files : BOOLEAN]
  BY DEF Rows
<1>2. \A r \in [head : Mails, body : Mails, files : BOOLEAN] : r # NoRow
  BY DEF NoRow
<1>3. QED
  BY <1>1, <1>2 DEF Rows

LEMMA TypeInit == Init => TypeOK /\ BusyInv
<1> SUFFICES ASSUME Init PROVE TypeOK /\ BusyInv
  OBVIOUS
<1> USE EmptyBoxType, RowsType DEF Init
<1>1. TypeOK
  BY DEF TypeOK, Steps, Knowledge
<1>2. BusyInv
  BY DEF BusyInv
<1>3. QED
  BY <1>1, <1>2

\* What the helpers of the loop do to the batch of a task.
LEMMA OwnBatch ==
    ASSUME NEW t \in Tasks, batch'[t] = batch[t]
    PROVE  Pending(t)' = Pending(t) /\ At(t)' = At(t)
BY DEF Pending, At

LEMMA NextFetchEffect ==
    ASSUME TypeOK, NEW t \in Tasks, Pending(t) # {}, NextFetch(t)
    PROVE  /\ pc' \in [Tasks -> Steps]
           /\ row' \in [Tasks -> Knowledge]
           /\ batch' \in [Tasks -> [Uids -> Mails \cup {NoMail}]]
           /\ Pending(t)' = Pending(t) \ {At(t)}
           /\ \A u \in Pending(t)' : batch'[t][u] = batch[t][u]
           /\ pc'[t] \in {"lookup", "save"}
           /\ pc'[t] = "lookup" => Pending(t)' # {}
           /\ pc'[t] = "save" => Pending(t)' = {}
           /\ \A r \in Tasks \ {t} : pc'[r] = pc[r] /\ batch'[r] = batch[r] /\ row'[r] = row[r]
<1> USE DEF TypeOK, NextFetch, GoTo
<1>1. At(t) \in Uids
  BY AtIsMin
<1>2. batch'[t] = [batch[t] EXCEPT ![At(t)] = NoMail]
  OBVIOUS
<1>3. batch'[t] \in [Uids -> Mails \cup {NoMail}]
  BY <1>2
<1>4. batch' \in [Tasks -> [Uids -> Mails \cup {NoMail}]]
  BY <1>3
<1>5. Pending(t)' = Pending(t) \ {At(t)}
  BY <1>1, <1>2 DEF Pending
<1>6. \A u \in Pending(t)' : batch'[t][u] = batch[t][u]
  BY <1>1, <1>2, <1>5 DEF Pending
<1>7. pc'[t] = IF Pending(t) = {At(t)} THEN "save" ELSE "lookup"
  OBVIOUS
<1>8. (pc'[t] = "lookup" => Pending(t)' # {}) /\ (pc'[t] = "save" => Pending(t)' = {})
  BY <1>5, <1>7, AtIsMin
<1>9. pc' \in [Tasks -> Steps] /\ row' \in [Tasks -> Knowledge]
  BY DEF Steps, Knowledge
<1>10. QED
  BY <1>4, <1>5, <1>6, <1>7, <1>8, <1>9

LEMMA ReturnEffect ==
    ASSUME TypeOK, NEW t \in Tasks, Return(t)
    PROVE  /\ pc' \in [Tasks -> Steps] /\ pc' = [pc EXCEPT ![t] = "idle"]
           /\ snap' \in [Tasks -> 0..MaxEpoch]
           /\ sel' \in [Tasks -> 0..MaxEpoch]
           /\ some' \in [Tasks -> BOOLEAN]
           /\ doomed' \in [Tasks -> SUBSET Uids]
           /\ start' \in [Tasks -> 0..(MaxUid + 1)]
           /\ batch' \in [Tasks -> [Uids -> Mails \cup {NoMail}]]
           /\ row' \in [Tasks -> Knowledge]
           /\ Pending(t)' = {}
           /\ \A r \in Tasks \ {t} : pc'[r] = pc[r] /\ batch'[r] = batch[r]
<1> USE EmptyBoxType DEF TypeOK, Return, GoTo, Steps, Knowledge
<1>1. batch'[t] = EmptyBox
  OBVIOUS
<1>2. Pending(t)' = {}
  BY <1>1 DEF Pending, EmptyBox
<1>3. 0 \in 0..MaxEpoch /\ 0 \in 0..(MaxUid + 1)
  OBVIOUS
<1>4. QED
  BY <1>2, <1>3

\* A row that goes away takes nothing with it but the knowledge of those who had it.
LEMMA RemoveType ==
    ASSUME TypeOK, NEW u \in Uids, Remove(u)
    PROVE  /\ rows' \in [Uids -> Rows]
           /\ doomed' \in [Tasks -> SUBSET Uids]
           /\ row' \in [Tasks -> Knowledge]
           /\ undeleted' \subseteq Uids
BY RowsType DEF TypeOK, Remove, Knowledge

\* What the delete button excuses: its row, and with one that an invalidation had left all
\* that syncs passed over because of it.
LEMMA DeleteExcuses ==
    ASSUME TypeOK, NEW u \in Uids, DeleteLocally(u)
    PROVE  /\ excused \subseteq excused' /\ <<epoch, u>> \in excused'
           /\ u \in undeleted => \A v \in Uids : v <= u => <<epoch, v>> \in excused'
           /\ excused' \subseteq (1..MaxEpoch) \X Uids
<1> DEFINE S == IF u \in undeleted THEN 1..u ELSE {u}
<1>1. excused' = excused \cup {<<epoch, v>> : v \in S}
  BY DEF DeleteLocally
<1>2. S \subseteq Uids
  <2>1. \A v \in 1..u : v \in 1..MaxUid
    BY DEF Uids
  <2>2. QED
    BY <2>1 DEF Uids
<1>3. u \in S /\ (u \in undeleted => \A v \in Uids : v <= u => v \in S)
  BY DEF Uids
<1>4. epoch \in 1..MaxEpoch /\ excused \subseteq (1..MaxEpoch) \X Uids
  BY DEF TypeOK
<1> HIDE DEF S
<1>5. QED
  BY <1>1, <1>2, <1>3, <1>4

LEMMA StoreFailsType ==
    ASSUME TypeOK, NEW t \in Tasks, pc[t] \in {"lookup", "upsert", "attach"},
           Pending(t) # {}, sel[t] # 0, StoreFails(t)
    PROVE  TypeOK'
<1>1. sel[t] \in 1..MaxEpoch /\ At(t) \in Uids
  BY AtIsMin DEF TypeOK
<1>2. excused' \subseteq (1..MaxEpoch) \X Uids
  BY <1>1 DEF TypeOK, StoreFails
<1>3. QED
  BY <1>2, NextFetchEffect DEF TypeOK, StoreFails, serverVars, tableVars

\* A session that is open has selected the folder.
OpenInv == \A t \in Tasks : pc[t] \notin {"idle", "select"} => sel[t] # 0

LEMMA OpenStep ==
    ASSUME TypeOK, OpenInv, [Next]_vars
    PROVE  OpenInv'
<1> USE DEF TypeOK, OpenInv, serverVars, tableVars, localVars, GoTo
<1>1. CASE Server
  BY <1>1 DEF Server, Arrive, Expunge, Renumber
<1>2. CASE \E u \in Uids : DeleteLocally(u)
  BY <1>2 DEF DeleteLocally
<1>3. ASSUME NEW t \in Tasks, StartSync(t) \/ SyncStep(t) PROVE OpenInv'
  <2>1. CASE StartSync(t)
    BY <2>1 DEF StartSync
  <2>2. CASE Select(t)
    BY <2>2 DEF Select
  <2>3. CASE ListRows(t) \/ DeleteRow(t) \/ DeleteRowFails(t)
    BY <2>3 DEF ListRows, DeleteRow, DeleteRowFails
  <2>4. CASE Invalidated(t) \/ FindStart(t)
    BY <2>4 DEF Invalidated, FindStart, From
  <2>5. CASE Fetch(t) \/ Lookup(t)
    BY <2>5 DEF Fetch, Lookup
  <2>6. CASE SyncFails(t) \/ SaveState(t)
    BY <2>6 DEF SyncFails, SaveState, Return
  <2>7. CASE StoreError(t) \/ InsertClashes(t) \/ AttachClashes(t)
    BY <2>7 DEF StoreError, InsertClashes, AttachClashes, StoreFails, NextFetch
  <2>8. CASE UpdateRow(t) \/ InsertRow(t) \/ Attach(t)
    BY <2>8 DEF UpdateRow, InsertRow, Attach, NextFetch
  <2>9. QED
    BY <1>3, <2>1, <2>2, <2>3, <2>4, <2>5, <2>6, <2>7, <2>8 DEF SyncStep
<1>4. CASE Restart
  BY <1>4 DEF Restart
<1>5. CASE UNCHANGED vars
  BY <1>5 DEF vars
<1>6. QED
  BY <1>1, <1>2, <1>3, <1>4, <1>5 DEF Next

\* What the server shows has been given a UID.
LiveInv == live \subseteq Given

LEMMA RenumberType ==
    ASSUME TypeOK, LiveInv, Renumber
    PROVE  /\ epoch' \in 1..MaxEpoch
           /\ box' \in [Uids -> Mails \cup {NoMail}]
           /\ live' \subseteq Given'
           /\ live' \subseteq Uids
<1> USE DEF TypeOK, Renumber
<1>1. IsFiniteSet(live) /\ Cardinality(live) \in Nat /\ Cardinality(live) <= MaxUid
  <2>1. IsFiniteSet(Uids) /\ Cardinality(Uids) = MaxUid
    BY FS_Interval DEF Uids
  <2>2. QED
    BY <2>1, FS_Subset, FS_CardinalityType
<1>2. live' = 1..Cardinality(live) /\ live' \subseteq Uids
  BY <1>1 DEF Uids
<1>3. PICK order \in [live' -> live] :
        box' = [u \in Uids |-> IF u \in live' THEN box[order[u]] ELSE NoMail]
  OBVIOUS
<1>4. \A u \in live' : order[u] \in live /\ order[u] \in Uids /\ box[order[u]] # NoMail
  BY <1>3 DEF LiveInv, Given
<1>5. \A u \in live' : box'[u] # NoMail
  BY <1>2, <1>3, <1>4
<1>6. live' \subseteq Given'
  BY <1>2, <1>5 DEF Given
<1>7. box' \in [Uids -> Mails \cup {NoMail}]
  BY <1>3, <1>4
<1>8. QED
  BY <1>2, <1>6, <1>7

LEMMA ArriveEffect ==
    ASSUME TypeOK, NEW m \in Mails, Arrive(m)
    PROVE  /\ Top(Given) + 1 \in Uids \ Given
           /\ box' \in [Uids -> Mails \cup {NoMail}]
           /\ box'[Top(Given) + 1] = m
           /\ \A u \in Uids \ {Top(Given) + 1} : box'[u] = box[u]
           /\ live' = live \cup {Top(Given) + 1}
           /\ \A u \in Given : u < Top(Given) + 1
<1> USE DEF TypeOK, Arrive
<1>1. Given \subseteq Uids
  BY DEF Given
<1>2. Top(Given) \in 0..MaxUid /\ \A u \in Given : u <= Top(Given)
  BY <1>1, TopIsMax
<1>3. \A u \in Given : u \in Nat /\ u < Top(Given) + 1
  BY <1>1, <1>2 DEF Uids
<1>4. Top(Given) + 1 \in Uids /\ Top(Given) + 1 \notin Given
  BY <1>2, <1>3 DEF Uids
<1>5. QED
  BY <1>3, <1>4

LEMMA LiveStep ==
    ASSUME TypeOK, LiveInv, [Next]_vars
    PROVE  LiveInv'
<1>1. CASE \E m \in Mails : Arrive(m)
  BY <1>1, ArriveEffect, FolderSyncAssumption DEF LiveInv, Given, TypeOK
<1>2. CASE \E u \in Uids : Expunge(u)
  BY <1>2 DEF Expunge, LiveInv, Given
<1>3. CASE Renumber
  BY <1>3, RenumberType DEF LiveInv
<1>4. CASE UNCHANGED serverVars
  BY <1>4 DEF serverVars, LiveInv, Given
<1>5. CASE \E u \in Uids : DeleteLocally(u)
  BY <1>4, <1>5 DEF DeleteLocally
<1>6. ASSUME NEW t \in Tasks, StartSync(t) \/ SyncStep(t) PROVE LiveInv'
  BY <1>4, <1>6 DEF StartSync, SyncStep, Select, ListRows, DeleteRow, DeleteRowFails,
       Invalidated, FindStart, From, Fetch, SyncFails, Lookup, StoreError, StoreFails,
       UpdateRow, InsertRow, InsertClashes, Attach, AttachClashes, SaveState
<1>7. CASE Restart \/ UNCHANGED vars
  BY <1>4, <1>7 DEF Restart, vars, serverVars
<1>8. QED
  BY <1>1, <1>2, <1>3, <1>5, <1>6, <1>7 DEF Next, Server

LEMMA BusyStep ==
    ASSUME TypeOK, LiveInv, BusyInv, [Next]_vars
    PROVE  BusyInv'
<1> USE DEF TypeOK, BusyInv, serverVars, tableVars, localVars, GoTo
<1>1. CASE UNCHANGED <<pc, batch>>
  BY <1>1, OwnBatch
<1>2. CASE Server \/ (\E u \in Uids : DeleteLocally(u)) \/ UNCHANGED vars
  BY <1>1, <1>2 DEF Server, Arrive, Expunge, Renumber, DeleteLocally, vars
<1>3. ASSUME NEW t \in Tasks, StartSync(t) \/ SyncStep(t) PROVE BusyInv'
  <2> SUFFICES ASSUME NEW r \in Tasks, pc'[r] \in {"lookup", "upsert", "attach"}
               PROVE  Pending(r)' # {}
    BY DEF BusyInv
  <2>1. CASE StartSync(t) \/ Select(t) \/ ListRows(t) \/ DeleteRow(t) \/ DeleteRowFails(t)
    BY <2>1, OwnBatch DEF StartSync, Select, ListRows, DeleteRow, DeleteRowFails
  <2>2. CASE Invalidated(t) \/ FindStart(t)
    BY <2>2, OwnBatch DEF Invalidated, FindStart, From
  <2>3. CASE Lookup(t)
    BY <2>3, OwnBatch DEF Lookup
  <2>4. CASE Fetch(t)
    <3>1. CASE r # t
      BY <2>4, <3>1, OwnBatch DEF Fetch
    <3>2. CASE r = t
      <4>1. PICK u \in live : u >= start[t]
        BY <2>4, <3>2 DEF Fetch, Steps
      <4>2. u \in Uids /\ box[u] # NoMail
        BY DEF LiveInv, Given
      <4>3. batch'[t][u] = box[u]
        BY <2>4, <4>1, <4>2 DEF Fetch
      <4>4. QED
        BY <3>2, <4>2, <4>3 DEF Pending
    <3>3. QED
      BY <3>1, <3>2
  <2>5. CASE SyncFails(t) \/ SaveState(t)
    <3>1. Return(t)
      BY <2>5 DEF SyncFails, SaveState
    <3>2. QED
      BY <3>1, ReturnEffect, OwnBatch
  <2>6. CASE NextFetch(t) /\ pc[t] \in {"lookup", "upsert", "attach"}
    BY <2>6, NextFetchEffect, OwnBatch
  <2>7. CASE StoreError(t) \/ InsertClashes(t) \/ AttachClashes(t) \/ Attach(t)
    BY <2>6, <2>7 DEF StoreError, InsertClashes, AttachClashes, Attach, StoreFails
  <2>8. CASE UpdateRow(t) \/ InsertRow(t)
    BY <2>6, <2>8, OwnBatch DEF UpdateRow, InsertRow
  <2>9. QED
    BY <1>3, <2>1, <2>2, <2>3, <2>4, <2>5, <2>7, <2>8 DEF SyncStep
<1>4. CASE Restart
  BY <1>4 DEF Restart
<1>5. QED
  BY <1>2, <1>3, <1>4 DEF Next

\* A task that found its row, or inserted it, and has not lost it since, writes a row
\* that exists.
KnowInv ==
    \A t \in Tasks :
        \/ pc[t] = "upsert" /\ row[t] = "found"
        \/ pc[t] = "attach" /\ row[t] = "own"
        => rows[At(t)] # NoRow

LEMMA RemoveKeepsKnowledge ==
    ASSUME TypeOK, KnowInv, NEW u \in Uids, Remove(u), UNCHANGED <<pc, batch>>
    PROVE  KnowInv'
<1> SUFFICES ASSUME NEW r \in Tasks,
                    \/ pc[r] = "upsert" /\ row'[r] = "found"
                    \/ pc[r] = "attach" /\ row'[r] = "own"
             PROVE  rows'[At(r)] # NoRow
  BY OwnBatch DEF KnowInv
<1>1. row[r] = row'[r] /\ At(r) # u
  BY DEF Remove, Storing, TypeOK
<1>2. rows[At(r)] # NoRow
  BY <1>1 DEF KnowInv
<1>3. rows'[At(r)] = rows[At(r)]
  BY <1>1 DEF Remove, TypeOK
<1>4. QED
  BY <1>2, <1>3

\* A step of task t that adds to the rows, or leaves them alone, is one the others
\* do not notice.
LEMMA OthersKnow ==
    ASSUME TypeOK, KnowInv, NEW t \in Tasks,
           \A u \in Uids : rows[u] # NoRow => rows'[u] # NoRow,
           \A r \in Tasks \ {t} : Pending(r) # {} \/ pc'[r] \notin {"upsert", "attach"},
           \A r \in Tasks \ {t} : pc'[r] = pc[r] /\ row'[r] = row[r] /\ batch'[r] = batch[r],
           \/ pc'[t] = "upsert" /\ row'[t] = "found"
           \/ pc'[t] = "attach" /\ row'[t] = "own"
           => rows'[At(t)'] # NoRow
    PROVE  KnowInv'
<1> SUFFICES ASSUME NEW r \in Tasks,
                    \/ pc'[r] = "upsert" /\ row'[r] = "found"
                    \/ pc'[r] = "attach" /\ row'[r] = "own"
             PROVE  rows'[At(r)'] # NoRow
  BY DEF KnowInv
<1>1. CASE r = t
  BY <1>1
<1>2. CASE r # t
  <2>1. At(r)' = At(r) /\ At(r) \in Uids
    BY <1>2, OwnBatch, AtIsMin
  <2>2. rows[At(r)] # NoRow
    BY <1>2 DEF KnowInv
  <2>3. QED
    BY <2>1, <2>2
<1>3. QED
  BY <1>1, <1>2

LEMMA KnowStep ==
    ASSUME TypeOK, LiveInv, BusyInv, KnowInv, [Next]_vars
    PROVE  KnowInv'
<1> USE DEF TypeOK, serverVars, tableVars, localVars, GoTo
<1>1. CASE UNCHANGED <<rows, pc, row, batch>>
  BY <1>1, OwnBatch DEF KnowInv
<1>2. CASE Server \/ UNCHANGED vars
  BY <1>1, <1>2 DEF Server, Arrive, Expunge, Renumber, vars
<1>3. CASE \E u \in Uids : DeleteLocally(u)
  BY <1>3, RemoveKeepsKnowledge DEF DeleteLocally
<1>4. ASSUME NEW t \in Tasks, StartSync(t) \/ SyncStep(t) PROVE KnowInv'
  <2>1. CASE DeleteRow(t)
    BY <2>1, RemoveKeepsKnowledge DEF DeleteRow
  <2>2. \A r \in Tasks : pc[r] \in {"upsert", "attach"} => Pending(r) # {}
    BY DEF BusyInv
  <2>3. CASE UNCHANGED rows /\ pc'[t] \notin {"upsert", "attach"}
    <3>1. CASE \A r \in Tasks \ {t} : pc'[r] = pc[r] /\ row'[r] = row[r] /\ batch'[r] = batch[r]
      BY <2>2, <2>3, <3>1, OthersKnow
    <3>2. CASE NextFetch(t)
      BY <3>1, <3>2 DEF NextFetch
    <3>3. CASE Return(t)
      BY <3>1, <3>3 DEF Return
    <3>4. QED
      BY <1>4, <2>1, <2>3, <3>1, <3>2, <3>3
         DEF StartSync, SyncStep, Select, ListRows, DeleteRowFails, Invalidated, FindStart,
             From, Fetch, SyncFails, Lookup, StoreError, StoreFails, InsertClashes,
             AttachClashes, UpdateRow, InsertRow, Attach, SaveState
  <2>4. CASE StartSync(t) \/ Select(t) \/ ListRows(t) \/ DeleteRowFails(t) \/ Invalidated(t)
             \/ FindStart(t) \/ Fetch(t)
    BY <2>3, <2>4 DEF StartSync, Select, ListRows, DeleteRowFails, Invalidated, FindStart,
       From, Fetch
  <2>5. CASE SyncFails(t) \/ SaveState(t)
    BY <2>3, <2>5 DEF SyncFails, SaveState, Return
  <2>6. CASE StoreError(t) \/ InsertClashes(t) \/ AttachClashes(t)
    BY <2>3, <2>6 DEF StoreError, InsertClashes, AttachClashes, StoreFails, NextFetch
  <2>7. CASE Lookup(t)
    <3>1. At(t)' = At(t)
      BY <2>7, OwnBatch DEF Lookup
    <3>2. row'[t] = "found" => rows'[At(t)'] # NoRow
      BY <2>7, <3>1 DEF Lookup
    <3>3. QED
      BY <2>2, <2>7, <3>2, OthersKnow DEF Lookup
  <2>8. CASE UpdateRow(t) \/ InsertRow(t) \/ Attach(t)
    <3>1. At(t) \in Uids /\ batch[t][At(t)] \in Mails /\ Pending(t) # {}
      BY <2>2, <2>8, AtIsMin DEF UpdateRow, InsertRow, Attach, Pending
    <3>2. CASE UpdateRow(t) \/ Attach(t)
      <4>1. rows[At(t)] \in Rows \ {NoRow}
        BY <3>1, <3>2 DEF KnowInv, UpdateRow, Attach
      <4>2. rows'[At(t)] # NoRow /\ \A u \in Uids \ {At(t)} : rows'[u] = rows[u]
        BY <3>1, <3>2, <4>1, FolderSyncAssumption DEF UpdateRow, Attach, Rows, NoRow
      <4>3. pc'[t] # "upsert" /\ ~ (pc'[t] = "attach" /\ row'[t] = "own")
        BY <3>2 DEF UpdateRow, Attach, NextFetch
      <4>4. QED
        BY <2>2, <3>2, <4>2, <4>3, OthersKnow DEF UpdateRow, Attach, NextFetch
    <3>3. CASE InsertRow(t)
      <4>1. rows'[At(t)] # NoRow /\ \A u \in Uids \ {At(t)} : rows'[u] = rows[u]
        BY <3>1, <3>3, FolderSyncAssumption DEF InsertRow, NoRow
      <4>2. pc'[t] # "upsert" /\ (pc'[t] = "attach" => At(t)' = At(t))
        BY <3>3, OwnBatch DEF InsertRow, NextFetch
      <4>3. QED
        BY <2>2, <3>3, <4>1, <4>2, OthersKnow DEF InsertRow, NextFetch
    <3>4. QED
      BY <2>8, <3>2, <3>3
  <2>9. QED
    BY <1>4, <2>1, <2>4, <2>5, <2>6, <2>7, <2>8 DEF SyncStep
<1>5. CASE Restart
  BY <1>5 DEF Restart, KnowInv
<1>6. QED
  BY <1>2, <1>3, <1>4, <1>5 DEF Next

LEMMA ServerType ==
    ASSUME TypeOK, LiveInv, Server
    PROVE  TypeOK'
<1>1. CASE \E m \in Mails : Arrive(m)
  BY <1>1, ArriveEffect DEF TypeOK, Arrive, tableVars, localVars
<1>2. CASE \E u \in Uids : Expunge(u)
  BY <1>2 DEF TypeOK, Expunge, tableVars, localVars
<1>3. CASE Renumber
  BY <1>3, RenumberType DEF TypeOK, Renumber, tableVars, localVars
<1>4. QED
  BY <1>1, <1>2, <1>3 DEF Server

LEMMA TaskType ==
    ASSUME TypeOK, LiveInv, OpenInv, BusyInv, KnowInv, NEW t \in Tasks, StartSync(t) \/ SyncStep(t)
    PROVE  TypeOK'
<1> USE DEF TypeOK, GoTo, serverVars, tableVars
<1>1. CASE StartSync(t) \/ Select(t)
  <2>1. CASE StartSync(t)
    BY <2>1 DEF StartSync, Steps
  <2>2. CASE Select(t)
    <3>1. some' \in [Tasks -> BOOLEAN]
      BY <2>2, Zenon DEF Select
    <3>2. sel' \in [Tasks -> 0..MaxEpoch] /\ pc' \in [Tasks -> Steps]
      BY <2>2 DEF Select, Steps
    <3>3. QED
      BY <2>2, <3>1, <3>2 DEF Select
  <2>3. QED
    BY <1>1, <2>1, <2>2
<1>2. CASE ListRows(t) \/ DeleteRowFails(t)
  <2>1. doomed' \in [Tasks -> SUBSET Uids]
    <3>1. CASE ListRows(t)
      <4>1. PICK S \in SUBSET Cached : doomed' = [doomed EXCEPT ![t] = S]
        BY <3>1 DEF ListRows
      <4>2. QED
        BY <4>1 DEF Cached
    <3>2. CASE DeleteRowFails(t)
      <4>1. PICK u \in doomed[t] : doomed' = [doomed EXCEPT ![t] = @ \ {u}]
        BY <3>2 DEF DeleteRowFails
      <4>2. QED
        BY <4>1
    <3>3. QED
      BY <1>2, <3>1, <3>2
  <2>2. undeleted' \subseteq Uids
    BY <1>2 DEF ListRows, DeleteRowFails, Cached
  <2>3. QED
    BY <1>2, <2>1, <2>2 DEF ListRows, DeleteRowFails, Steps
<1>3. CASE DeleteRow(t)
  BY <1>3, RemoveType DEF DeleteRow
<1>4. CASE Invalidated(t) \/ FindStart(t)
  <2>1. Cached \subseteq Uids
    BY DEF Cached
  <2>2. Top(Cached) + 1 \in 0..(MaxUid + 1) /\ 1 \in 0..(MaxUid + 1)
    BY <2>1, TopIsMax
  <2>3. From(t, 1) \/ From(t, Top(Cached) + 1)
    BY <1>4 DEF Invalidated, FindStart
  <2>4. QED
    BY <2>2, <2>3 DEF From, Steps
<1>5. CASE Fetch(t)
  BY <1>5 DEF Fetch, Steps
<1>6. CASE SyncFails(t) \/ SaveState(t)
  <2>1. Return(t)
    BY <1>6 DEF SyncFails, SaveState
  <2>2. validity' \in 0..MaxEpoch
    BY <1>6 DEF SyncFails, SaveState
  <2>3. QED
    BY <1>6, <2>1, <2>2, ReturnEffect DEF SyncFails, SaveState
<1>7. CASE Lookup(t)
  BY <1>7 DEF Lookup, Steps, Knowledge
<1>8. CASE StoreError(t) \/ InsertClashes(t) \/ AttachClashes(t)
  <2>1. StoreFails(t) /\ pc[t] \in {"lookup", "upsert", "attach"}
    BY <1>8 DEF StoreError, InsertClashes, AttachClashes
  <2>2. Pending(t) # {} /\ sel[t] # 0
    BY <2>1 DEF BusyInv, OpenInv
  <2>3. QED
    BY <2>1, <2>2, StoreFailsType
<1>9. CASE UpdateRow(t) \/ InsertRow(t) \/ Attach(t)
  <2>1. Pending(t) # {} /\ At(t) \in Pending(t) /\ At(t) \in Uids
    BY <1>9, AtIsMin DEF UpdateRow, InsertRow, Attach, BusyInv
  <2>2. batch[t][At(t)] \in Mails
    BY <2>1 DEF Pending
  <2>3. rows' \in [Uids -> Rows]
    <3>1. CASE InsertRow(t)
      BY <2>1, <2>2, <3>1, RowsType DEF InsertRow
    <3>2. CASE UpdateRow(t) \/ Attach(t)
      <4>1. rows[At(t)] \in Rows \ {NoRow}
        BY <2>1, <3>2 DEF KnowInv, UpdateRow, Attach
      <4>2. \E new \in Rows : rows' = [rows EXCEPT ![At(t)] = new]
        BY <2>1, <2>2, <3>2, <4>1, RowUpdate DEF UpdateRow, Attach
      <4>3. QED
        BY <2>1, <4>2
    <3>3. QED
      BY <1>9, <3>1, <3>2
  <2>4. CASE NextFetch(t)
    BY <1>9, <2>1, <2>3, <2>4, NextFetchEffect DEF UpdateRow, InsertRow, Attach
  <2>5. CASE ~ NextFetch(t)
    BY <1>9, <2>3, <2>5 DEF UpdateRow, InsertRow, Attach, Steps, Knowledge
  <2>6. QED
    BY <2>4, <2>5
<1>10. QED
  BY <1>1, <1>2, <1>3, <1>4, <1>5, <1>6, <1>7, <1>8, <1>9 DEF SyncStep

LEMMA OtherType ==
    ASSUME TypeOK, BusyInv, OpenInv, Restart \/ \E u \in Uids : DeleteLocally(u)
    PROVE  TypeOK'
<1>1. CASE Restart
  <2>1. excused' \subseteq (1..MaxEpoch) \X Uids
    <3>1. \A r \in Tasks : pc[r] = "attach" => sel[r] \in 1..MaxEpoch /\ At(r) \in Uids
      BY AtIsMin DEF TypeOK, BusyInv, OpenInv
    <3>2. QED
      BY <1>1, <3>1 DEF Restart, TypeOK
  <2>2. QED
    BY <1>1, <2>1, EmptyBoxType DEF Restart, TypeOK, serverVars, tableVars, Steps, Knowledge
<1>2. CASE \E u \in Uids : DeleteLocally(u)
  BY <1>2, RemoveType, DeleteExcuses DEF DeleteLocally, TypeOK, serverVars
<1>3. QED
  BY <1>1, <1>2

\* Every variable keeps its type: in particular a task writes only at a UID the server
\* has given, and only in a session that knows its UIDVALIDITY.
THEOREM TypeCorrect == Spec => [](TypeOK /\ LiveInv /\ OpenInv /\ BusyInv /\ KnowInv)
<1> DEFINE Typed == TypeOK /\ LiveInv /\ OpenInv /\ BusyInv /\ KnowInv
<1>1. Init => Typed
  BY TypeInit DEF Init, LiveInv, OpenInv, KnowInv
<1>2. Typed /\ [Next]_vars => Typed'
  <2> SUFFICES ASSUME Typed, [Next]_vars PROVE Typed'
    OBVIOUS
  <2>1. TypeOK'
    <3>1. CASE UNCHANGED vars
      BY <3>1 DEF TypeOK, vars
    <3>2. QED
      BY <3>1, ServerType, TaskType, OtherType DEF Next
  <2>2. QED
    BY <2>1, LiveStep, OpenStep, BusyStep, KnowStep
<1>3. QED
  BY <1>1, <1>2, PTL DEF Spec

-----------------------------------------------------------------------------
(***************************************************************************)
(* One epoch: the server does not change UIDVALIDITY, so a UID names one    *)
(* message, and it does not matter who stores it or from which fetch.       *)
(***************************************************************************)
MirrorInv ==
    /\ \A u \in Cached : rows[u].head = box[u] /\ rows[u].body = box[u]
    /\ \A t \in Tasks : \A u \in Pending(t) : batch[t][u] = box[u]
    /\ \A t \in Tasks : pc[t] \notin {"list", "delete"}

Typed == TypeOK /\ LiveInv /\ OpenInv /\ BusyInv /\ KnowInv

\* Storing messages that were fetched, and dropping others, keeps the mirror.
LEMMA MirrorKept ==
    ASSUME TypeOK, MirrorInv, UNCHANGED box,
           \A u \in Uids : \/ rows'[u] \in {rows[u], NoRow}
                           \/ rows'[u].head = box[u] /\ rows'[u].body = box[u],
           \A r \in Tasks : \A u \in Pending(r)' : u \in Pending(r) /\ batch'[r][u] = batch[r][u],
           \A r \in Tasks : pc'[r] \notin {"list", "delete"}
    PROVE  MirrorInv'
<1>1. ASSUME NEW u \in Uids, rows'[u] # NoRow
      PROVE  rows'[u].head = box[u] /\ rows'[u].body = box[u]
  BY <1>1 DEF MirrorInv, Cached
<1>2. \A u \in Cached' : rows'[u].head = box'[u] /\ rows'[u].body = box'[u]
  BY <1>1 DEF Cached
<1>3. \A r \in Tasks : \A u \in Pending(r)' : batch'[r][u] = box'[u]
  BY DEF MirrorInv
<1>4. QED
  BY <1>2, <1>3 DEF MirrorInv

\* What is cached or about to be stored has been given its UID.
LEMMA KnownIsGiven ==
    ASSUME TypeOK, MirrorInv
    PROVE  Cached \subseteq Given /\ \A t \in Tasks : Pending(t) \subseteq Given
<1>1. ASSUME NEW u \in Cached PROVE u \in Given
  <2>1. u \in Uids /\ rows[u] \in [head : Mails, body : Mails, files : BOOLEAN]
    BY DEF Cached, TypeOK, Rows
  <2>2. box[u] \in Mails
    BY <2>1 DEF MirrorInv
  <2>3. QED
    BY <2>1, <2>2 DEF Given
<1>2. ASSUME NEW t \in Tasks, NEW u \in Pending(t) PROVE u \in Given
  BY DEF Pending, Given, MirrorInv
<1>3. QED
  BY <1>1, <1>2

\* What the task that stores its current message does to the tables and to its batch.
LEMMA StoreEffect ==
    ASSUME Typed, MirrorInv, NEW t \in Tasks, UpdateRow(t) \/ InsertRow(t) \/ Attach(t)
    PROVE  /\ At(t) \in Pending(t)
           /\ rows'[At(t)] # NoRow
           /\ rows'[At(t)].head = box[At(t)] /\ rows'[At(t)].body = box[At(t)]
           /\ \A u \in Uids \ {At(t)} : rows'[u] = rows[u]
           /\ Pending(t)' \subseteq Pending(t) /\ Pending(t) \subseteq Pending(t)' \cup {At(t)}
           /\ \A u \in Pending(t)' : batch'[t][u] = batch[t][u]
           /\ \A r \in Tasks \ {t} : Pending(r)' = Pending(r) /\ batch'[r] = batch[r]
           /\ pc'[t] \in {"lookup", "attach", "save"}
           /\ \A r \in Tasks \ {t} : pc'[r] = pc[r]
           /\ UNCHANGED <<epoch, box, live, start, excused>>
<1>1. /\ At(t) \in Pending(t) /\ At(t) \in Uids /\ batch[t][At(t)] = box[At(t)]
      /\ batch[t][At(t)] \in Mails /\ Pending(t) # {}
  <2>1. Pending(t) # {}
    BY DEF Typed, BusyInv, UpdateRow, InsertRow, Attach
  <2>2. QED
    BY <2>1, AtIsMin DEF Typed, TypeOK, Pending, MirrorInv
<1>2. /\ rows'[At(t)] # NoRow
      /\ rows'[At(t)].head = box[At(t)] /\ rows'[At(t)].body = box[At(t)]
      /\ \A u \in Uids \ {At(t)} : rows'[u] = rows[u]
  <2>1. CASE InsertRow(t)
    BY <1>1, <2>1, FolderSyncAssumption DEF InsertRow, Typed, TypeOK, NoRow
  <2>2. CASE UpdateRow(t) \/ Attach(t)
    <3>1. rows[At(t)] \in Rows \ {NoRow}
      BY <1>1, <2>2 DEF Typed, TypeOK, KnowInv, UpdateRow, Attach
    <3>2. rows[At(t)].head = box[At(t)] /\ rows[At(t)].body = box[At(t)]
      BY <1>1, <3>1 DEF MirrorInv, Cached
    <3>3. \E new \in Rows \ {NoRow} :
            /\ rows' = [rows EXCEPT ![At(t)] = new]
            /\ new.head = box[At(t)] /\ new.body = box[At(t)]
      <4>1. CASE UpdateRow(t)
        <5> DEFINE new == [rows[At(t)] EXCEPT !.body = batch[t][At(t)]]
        <5>1. rows' = [rows EXCEPT ![At(t)] = new]
          BY <4>1 DEF UpdateRow
        <5>2. new \in Rows \ {NoRow} /\ new.head = box[At(t)] /\ new.body = box[At(t)]
          BY <1>1, <3>1, <3>2, RowUpdate
        <5>3. QED
          BY <5>1, <5>2
      <4>2. CASE Attach(t)
        <5> DEFINE new == [rows[At(t)] EXCEPT !.files = TRUE]
        <5>1. rows' = [rows EXCEPT ![At(t)] = new]
          BY <4>2 DEF Attach
        <5>2. new \in Rows \ {NoRow} /\ new.head = box[At(t)] /\ new.body = box[At(t)]
          BY <1>1, <3>1, <3>2, RowUpdate
        <5>3. QED
          BY <5>1, <5>2
      <4>3. QED
        BY <2>2, <4>1, <4>2
    <3>4. QED
      BY <1>1, <3>3 DEF Typed, TypeOK
  <2>3. QED
    BY <2>1, <2>2
<1>3. UNCHANGED <<epoch, box, live, start, excused>>
  BY DEF UpdateRow, InsertRow, Attach, serverVars
<1>4. CASE NextFetch(t)
  BY <1>1, <1>2, <1>3, <1>4, NextFetchEffect, OwnBatch DEF Typed
<1>5. CASE ~ NextFetch(t)
  <2>1. pc' = [pc EXCEPT ![t] = "attach"] /\ batch' = batch
    BY <1>5 DEF UpdateRow, InsertRow, Attach, GoTo
  <2>2. QED
    BY <1>1, <1>2, <1>3, <2>1, OwnBatch DEF Typed, TypeOK
<1>6. QED
  BY <1>4, <1>5

LEMMA MirrorStep ==
    ASSUME MaxEpoch = 1, Typed, MirrorInv, [Next]_vars
    PROVE  MirrorInv'
<1> USE DEF Typed, TypeOK, serverVars, tableVars, localVars, GoTo
<1>1. CASE UNCHANGED <<box, rows, batch>> /\ \A r \in Tasks : pc'[r] \notin {"list", "delete"}
  BY <1>1, OwnBatch, MirrorKept
<1>2. CASE Server
  <2>1. ASSUME NEW m \in Mails, Arrive(m) PROVE MirrorInv'
    <3>1. \A u \in Given : box'[u] = box[u]
      BY <2>1, ArriveEffect DEF Given
    <3>2. QED
      BY <2>1, <3>1, KnownIsGiven, OwnBatch DEF Arrive, MirrorInv, Cached
  <2>2. ASSUME NEW u \in Uids, Expunge(u) PROVE MirrorInv'
    BY <1>1, <2>2 DEF Expunge, MirrorInv
  <2>3. ~ Renumber
    BY DEF Renumber
  <2>4. QED
    BY <1>2, <2>1, <2>2, <2>3 DEF Server
<1>3. ASSUME NEW u \in Uids, DeleteLocally(u) PROVE MirrorInv'
  BY <1>3, OwnBatch, MirrorKept DEF DeleteLocally, Remove, MirrorInv
<1>4. ASSUME NEW t \in Tasks, StartSync(t) \/ SyncStep(t) PROVE MirrorInv'
  <2>1. ~ (ListRows(t) \/ DeleteRow(t) \/ DeleteRowFails(t) \/ Invalidated(t))
    BY DEF MirrorInv, ListRows, DeleteRow, DeleteRowFails, Invalidated
  <2>2. CASE StartSync(t) \/ Select(t)
    BY <1>1, <2>2 DEF StartSync, Select, MirrorInv
  <2>3. CASE FindStart(t) \/ Lookup(t)
    BY <1>1, <2>3 DEF FindStart, From, Lookup, MirrorInv
  <2>4. CASE Fetch(t)
    <3>1. \A u \in Pending(t)' : batch'[t][u] = box[u]
      BY <2>4 DEF Fetch, Pending
    <3>2. \A r \in Tasks \ {t} : Pending(r)' = Pending(r) /\ batch'[r] = batch[r]
      BY <2>4, OwnBatch DEF Fetch
    <3>3. \A r \in Tasks : \A u \in Pending(r)' : batch'[r][u] = box'[u]
      <4>1. \A r \in Tasks \ {t} : \A u \in Pending(r)' : batch'[r][u] = box[u]
        BY <3>2 DEF MirrorInv
      <4>2. UNCHANGED box
        BY <2>4 DEF Fetch
      <4>3. QED
        BY <3>1, <4>1, <4>2
    <3>4. \A r \in Tasks : pc'[r] \notin {"list", "delete"}
      BY <2>4 DEF Fetch, MirrorInv
    <3>5. QED
      BY <2>4, <3>3, <3>4 DEF Fetch, MirrorInv, Cached
  <2>5. CASE SyncFails(t) \/ SaveState(t)
    <3>1. Return(t) /\ UNCHANGED <<box, rows>>
      BY <2>5 DEF SyncFails, SaveState
    <3>2. QED
      BY <3>1, ReturnEffect, OwnBatch, MirrorKept DEF MirrorInv
  <2>6. CASE StoreError(t) \/ InsertClashes(t) \/ AttachClashes(t)
    <3>1. NextFetch(t) /\ Pending(t) # {} /\ UNCHANGED <<box, rows>>
      BY <2>6 DEF StoreError, InsertClashes, AttachClashes, StoreFails, BusyInv
    <3>2. \A r \in Tasks : \A u \in Pending(r)' : u \in Pending(r) /\ batch'[r][u] = batch[r][u]
      BY <3>1, NextFetchEffect, OwnBatch
    <3>3. \A r \in Tasks : pc'[r] \notin {"list", "delete"}
      BY <3>1, NextFetchEffect DEF MirrorInv
    <3>4. QED
      BY <3>1, <3>2, <3>3, MirrorKept
  <2>7. CASE UpdateRow(t) \/ InsertRow(t) \/ Attach(t)
    <3> HIDE DEF Typed, TypeOK
    <3>1. /\ rows'[At(t)].head = box[At(t)] /\ rows'[At(t)].body = box[At(t)]
          /\ \A u \in Uids \ {At(t)} : rows'[u] = rows[u]
          /\ UNCHANGED box
      BY <2>7, StoreEffect
    <3>2. \A r \in Tasks : \A u \in Pending(r)' : u \in Pending(r) /\ batch'[r][u] = batch[r][u]
      BY <2>7, StoreEffect, OwnBatch
    <3>3. \A r \in Tasks : pc'[r] \notin {"list", "delete"}
      BY <2>7, StoreEffect DEF MirrorInv
    <3>4. ASSUME NEW u \in Uids
          PROVE  rows'[u] = rows[u] \/ (rows'[u].head = box[u] /\ rows'[u].body = box[u])
      <4>1. CASE u = At(t)
        BY <3>1, <4>1, Zenon
      <4>2. CASE u # At(t)
        BY <3>1, <4>2, Zenon
      <4>3. QED
        BY <4>1, <4>2
    <3>5. QED
      BY <3>1, <3>2, <3>3, <3>4, MirrorKept DEF Typed
  <2>8. QED
    BY <1>4, <2>1, <2>2, <2>3, <2>4, <2>5, <2>6, <2>7 DEF SyncStep
<1>5. CASE Restart
  <2>1. \A r \in Tasks : Pending(r)' = {}
    BY <1>5 DEF Restart, Pending, EmptyBox
  <2>2. QED
    BY <1>5, <2>1, MirrorKept DEF Restart
<1>6. CASE UNCHANGED vars
  BY <1>1, <1>6 DEF vars, MirrorInv
<1>7. QED
  BY <1>2, <1>3, <1>4, <1>5, <1>6 DEF Next

\* A live message that is below something cached, below something about to be stored
\* or below where a FETCH is about to begin is accounted for: it is cached, it is in the
\* same batch, or it is excused.
Settled(u) == u \in Cached \/ <<epoch, u>> \in excused

GapInv ==
    /\ \A u \in live : \A v \in Cached : u < v => Settled(u)
    /\ \A t \in Tasks : \A v \in Pending(t) : \A u \in live \ Pending(t) : u < v => Settled(u)
    /\ \A t \in Tasks : pc[t] = "fetch" => start[t] = 1 \/ \E v \in Given : start[t] = v + 1
    /\ \A t \in Tasks : pc[t] = "fetch" => \A u \in live : u < start[t] => Settled(u)

\* Steps after which nothing more is cached or pending, and nobody fetches who did not.
LEMMA GapKept ==
    ASSUME GapInv, UNCHANGED <<epoch, box>>, live' \subseteq live,
           \A u \in live : Settled(u) => Settled(u)',
           \A v \in Cached' : v \in Cached,
           \A r \in Tasks : Pending(r)' = Pending(r) \/ Pending(r)' = {},
           \A r \in Tasks : pc'[r] = "fetch" => pc[r] = "fetch" /\ start'[r] = start[r]
    PROVE  GapInv'
<1>1. \A u \in live' : \A v \in Cached' : u < v => Settled(u)'
  BY DEF GapInv
<1>2. ASSUME NEW r \in Tasks, NEW v \in Pending(r)', NEW u \in live' \ Pending(r)', u < v
      PROVE  Settled(u)'
  BY <1>2 DEF GapInv
<1>3. ASSUME NEW r \in Tasks, pc'[r] = "fetch"
      PROVE  start'[r] = 1 \/ \E v \in Given' : start'[r] = v + 1
  BY <1>3 DEF GapInv, Given
<1>4. ASSUME NEW r \in Tasks, pc'[r] = "fetch", NEW u \in live', u < start'[r]
      PROVE  Settled(u)'
  BY <1>4 DEF GapInv
<1>5. QED
  BY <1>1, <1>2, <1>3, <1>4 DEF GapInv

\* A new message is above everything known, so nothing is below it by mistake.
LEMMA GapArrive ==
    ASSUME Typed, MirrorInv, GapInv, NEW m \in Mails, Arrive(m)
    PROVE  GapInv'
<1> DEFINE n == Top(Given) + 1
<1>1. /\ n \in Uids /\ live' = live \cup {n} /\ \A u \in Given : u \in Nat /\ u < n
      /\ Given \subseteq Given'
  <2>1. TypeOK /\ Given \subseteq Uids
    BY DEF Typed, Given
  <2>2. /\ n \in Uids \ Given /\ live' = live \cup {n} /\ \A u \in Given : u < n
        /\ \A u \in Uids \ {n} : box'[u] = box[u]
    BY <2>1, ArriveEffect
  <2>3. Given \subseteq Given'
    BY <2>1, <2>2 DEF Given
  <2>4. QED
    BY <2>1, <2>2, <2>3 DEF Uids
<1>2. UNCHANGED <<epoch, rows, batch, pc, start, excused>>
  BY DEF Arrive, tableVars, localVars
<1>3. /\ Cached' = Cached
      /\ \A u : Settled(u)' <=> Settled(u)
      /\ \A r \in Tasks : Pending(r)' = Pending(r)
  BY <1>2 DEF Cached, Settled, Pending
<1>4. Cached \subseteq Given /\ \A r \in Tasks : Pending(r) \subseteq Given
  BY KnownIsGiven DEF Typed
<1>5. ASSUME NEW v \in Given PROVE ~ (n < v)
  <2>1. v < n /\ v \in Nat /\ n \in Nat
    BY <1>1 DEF Uids
  <2>2. QED
    BY <2>1
<1>6. \A u \in live' : \A v \in Cached' : u < v => Settled(u)'
  BY <1>1, <1>3, <1>4, <1>5 DEF GapInv
<1>7. \A r \in Tasks : \A v \in Pending(r)' : \A u \in live' \ Pending(r)' : u < v => Settled(u)'
  BY <1>1, <1>3, <1>4, <1>5 DEF GapInv
<1>8. ASSUME NEW r \in Tasks, pc'[r] = "fetch"
      PROVE  start'[r] = 1 \/ \E v \in Given' : start'[r] = v + 1
  BY <1>1, <1>2, <1>8 DEF GapInv
<1>9. ASSUME NEW r \in Tasks, pc'[r] = "fetch", NEW u \in live', u < start'[r]
      PROVE  Settled(u)'
  <2>1. u \in live
    <3>1. CASE start[r] = 1
      BY <1>1, <1>2, <1>9, <3>1 DEF Uids
    <3>2. CASE \E v \in Given : start[r] = v + 1
      BY <1>1, <1>2, <1>9, <3>2 DEF Uids
    <3>3. QED
      BY <1>2, <1>9, <3>1, <3>2 DEF GapInv
  <2>2. QED
    BY <1>2, <1>3, <1>9, <2>1 DEF GapInv
<1>10. QED
  BY <1>6, <1>7, <1>8, <1>9 DEF GapInv

\* One message leaves the batch, or is about to: it is cached or excused, and
\* everything below it is accounted for because messages are stored from the lowest up.
LEMMA GapStore ==
    ASSUME Typed, GapInv, UNCHANGED <<epoch, box, live>>, NEW t \in Tasks,
           NEW at \in Uids, at = At(t), Pending(t) # {}, Settled(at)',
           Cached \subseteq Cached', Cached' \subseteq Cached \cup {at},
           excused \subseteq excused',
           Pending(t)' \subseteq Pending(t), Pending(t) \subseteq Pending(t)' \cup {at},
           \A r \in Tasks \ {t} : Pending(r)' = Pending(r),
           pc'[t] # "fetch",
           \A r \in Tasks \ {t} : pc'[r] = pc[r] /\ start'[r] = start[r]
    PROVE  GapInv'
<1>1. at \in Pending(t) /\ at \in Nat /\ \A u \in Pending(t) : u \in Nat /\ at <= u
  BY AtIsMin DEF Uids, Pending
<1>2. \A u : Settled(u) => Settled(u)'
  BY DEF Settled
<1>3. ASSUME NEW u \in live', NEW v \in Cached', u < v PROVE Settled(u)'
  <2>1. CASE v \in Cached
    BY <1>2, <1>3, <2>1 DEF GapInv
  <2>2. CASE v = at
    <3>1. ASSUME u \in Pending(t) PROVE FALSE
      <4>1. u \in Nat /\ at \in Nat /\ at <= u
        BY <1>1, <3>1
      <4>2. u < at
        BY <1>3, <2>2
      <4>3. QED
        BY <4>1, <4>2
    <3>2. QED
      BY <1>1, <1>2, <1>3, <2>2, <3>1 DEF GapInv
  <2>3. QED
    BY <2>1, <2>2
<1>4. ASSUME NEW r \in Tasks, NEW v \in Pending(r)', NEW u \in live' \ Pending(r)', u < v
      PROVE  Settled(u)'
  <2>1. CASE u \in Pending(r)
    BY <1>4, <2>1
  <2>2. CASE u \notin Pending(r)
    BY <1>2, <1>4, <2>2 DEF GapInv
  <2>3. QED
    BY <2>1, <2>2
<1>5. ASSUME NEW r \in Tasks, pc'[r] = "fetch"
      PROVE  start'[r] = 1 \/ \E v \in Given' : start'[r] = v + 1
  BY <1>5 DEF GapInv, Given
<1>6. ASSUME NEW r \in Tasks, pc'[r] = "fetch", NEW u \in live', u < start'[r]
      PROVE  Settled(u)'
  BY <1>2, <1>6 DEF GapInv
<1>7. QED
  BY <1>3, <1>4, <1>5, <1>6 DEF GapInv

LEMMA GapFindStart ==
    ASSUME Typed, MirrorInv, GapInv, NEW t \in Tasks, FindStart(t)
    PROVE  GapInv'
<1>1. /\ UNCHANGED <<epoch, box, live, rows, batch, excused>>
      /\ start' = [start EXCEPT ![t] = Top(Cached) + 1]
      /\ \A r \in Tasks \ {t} : pc'[r] = pc[r] /\ start'[r] = start[r]
      /\ start'[t] = Top(Cached) + 1
  BY DEF FindStart, From, GoTo, serverVars, tableVars, Typed, TypeOK
<1>2. /\ Cached' = Cached
      /\ Given' = Given
      /\ \A u : Settled(u)' <=> Settled(u)
      /\ \A r \in Tasks : Pending(r)' = Pending(r)
  BY <1>1 DEF Cached, Given, Settled, Pending
<1>3. /\ Cached \subseteq Uids
      /\ Top(Cached) \in Nat
      /\ Cached # {} => Top(Cached) \in Cached
      /\ Cached = {} => Top(Cached) = 0
  <2>1. Cached \subseteq Uids
    BY DEF Cached
  <2>2. QED
    BY <2>1, TopIsMax DEF Top
<1>4. start'[t] = 1 \/ \E v \in Given' : start'[t] = v + 1
  BY <1>1, <1>2, <1>3, KnownIsGiven DEF Typed
<1>5. ASSUME NEW u \in live, u < Top(Cached) + 1 PROVE Settled(u)
  <2>1. u \in Nat /\ 0 < u
    BY DEF Typed, TypeOK, Uids
  <2>2. Top(Cached) \in Cached
    BY <1>3, <1>5, <2>1
  <2>3. u = Top(Cached) \/ u < Top(Cached)
    BY <1>3, <1>5, <2>1
  <2>4. QED
    BY <2>2, <2>3 DEF GapInv, Settled
<1>6. ASSUME NEW r \in Tasks, pc'[r] = "fetch"
      PROVE  /\ start'[r] = 1 \/ \E v \in Given' : start'[r] = v + 1
             /\ \A u \in live' : u < start'[r] => Settled(u)'
  <2>1. CASE r = t
    BY <1>1, <1>2, <1>4, <1>5, <2>1
  <2>2. CASE r # t
    BY <1>1, <1>2, <1>6, <2>2 DEF GapInv
  <2>3. QED
    BY <2>1, <2>2
<1>7. /\ \A u \in live' : \A v \in Cached' : u < v => Settled(u)'
      /\ \A r \in Tasks : \A v \in Pending(r)' : \A u \in live' \ Pending(r)' : u < v => Settled(u)'
  BY <1>1, <1>2 DEF GapInv
<1>8. QED
  BY <1>6, <1>7 DEF GapInv

LEMMA GapFetch ==
    ASSUME Typed, GapInv, NEW t \in Tasks, Fetch(t)
    PROVE  GapInv'
<1>1. /\ UNCHANGED <<epoch, box, live, rows, start, excused>>
      /\ \A r \in Tasks \ {t} : pc'[r] = pc[r] /\ Pending(r)' = Pending(r)
      /\ pc'[t] # "fetch" /\ pc[t] = "fetch"
  BY OwnBatch DEF Fetch, GoTo, serverVars, tableVars, Typed, TypeOK
<1>2. /\ Cached' = Cached
      /\ Given' = Given
      /\ \A u : Settled(u)' <=> Settled(u)
  BY <1>1 DEF Cached, Given, Settled
<1>3. \A u \in live : u >= start[t] => u \in Pending(t)'
  <2>1. \A u \in live : u \in Uids /\ box[u] # NoMail
    BY DEF Typed, LiveInv, Given
  <2>2. \A u \in Uids : batch'[t][u] = IF u \in live /\ u >= start[t] THEN box[u] ELSE NoMail
    BY DEF Fetch, Typed, TypeOK
  <2>3. QED
    BY <2>1, <2>2 DEF Pending
<1>4. ASSUME NEW u \in live \ Pending(t)' PROVE Settled(u)
  <2>1. u \in Nat /\ start[t] \in Nat
    BY DEF Typed, TypeOK, Uids
  <2>2. u < start[t]
    BY <1>3, <2>1
  <2>3. QED
    BY <1>1, <2>2 DEF GapInv
<1>5. ASSUME NEW r \in Tasks, NEW v \in Pending(r)', NEW u \in live' \ Pending(r)', u < v
      PROVE  Settled(u)'
  BY <1>1, <1>2, <1>4, <1>5 DEF GapInv
<1>6. ASSUME NEW r \in Tasks, pc'[r] = "fetch"
      PROVE  /\ start'[r] = 1 \/ \E v \in Given' : start'[r] = v + 1
             /\ \A u \in live' : u < start'[r] => Settled(u)'
  BY <1>1, <1>2, <1>6 DEF GapInv
<1>7. \A u \in live' : \A v \in Cached' : u < v => Settled(u)'
  BY <1>1, <1>2 DEF GapInv
<1>8. QED
  BY <1>5, <1>6, <1>7 DEF GapInv

LEMMA GapStep ==
    ASSUME MaxEpoch = 1, Typed, MirrorInv, GapInv, [Next]_vars
    PROVE  GapInv'
<1>1. ASSUME UNCHANGED <<epoch, box, live, rows, batch, excused>>,
             \A r \in Tasks : pc'[r] = "fetch" => pc[r] = "fetch" /\ start'[r] = start[r]
      PROVE  GapInv'
  <2>1. Cached' = Cached /\ (\A u : Settled(u)' = Settled(u)) /\ \A r \in Tasks : Pending(r)' = Pending(r)
    BY <1>1 DEF Cached, Settled, Pending
  <2>2. QED
    BY <1>1, <2>1, GapKept
<1>2. CASE Server
  <2>1. ASSUME NEW u \in Uids, Expunge(u) PROVE GapInv'
    <3>1. UNCHANGED <<epoch, box, rows, batch, pc, start, excused>> /\ live' \subseteq live
      BY <2>1 DEF Expunge, tableVars, localVars
    <3>2. Cached' = Cached /\ (\A v : Settled(v)' = Settled(v)) /\ \A r \in Tasks : Pending(r)' = Pending(r)
      BY <3>1 DEF Cached, Settled, Pending
    <3>3. QED
      BY <3>1, <3>2, GapKept
  <2>2. ~ Renumber
    BY DEF Renumber, Typed, TypeOK
  <2>3. QED
    BY <1>2, <2>1, <2>2, GapArrive DEF Server
<1>3. ASSUME NEW u \in Uids, DeleteLocally(u) PROVE GapInv'
  <2>1. /\ UNCHANGED <<epoch, box, live, batch, pc, start>>
        /\ excused \subseteq excused' /\ <<epoch, u>> \in excused'
    BY <1>3, DeleteExcuses DEF DeleteLocally, serverVars, Typed
  <2>2. Cached' = Cached \ {u} /\ \A r \in Tasks : Pending(r)' = Pending(r)
    BY <1>3, <2>1 DEF DeleteLocally, Remove, Cached, Pending, Typed, TypeOK
  <2>3. \A v \in live : Settled(v) => Settled(v)'
    BY <2>1, <2>2 DEF Settled
  <2>4. QED
    BY <2>1, <2>2, <2>3, GapKept
<1>4. ASSUME NEW t \in Tasks, StartSync(t) \/ SyncStep(t) PROVE GapInv'
  <2>1. ~ (ListRows(t) \/ DeleteRow(t) \/ DeleteRowFails(t) \/ Invalidated(t))
    BY DEF MirrorInv, ListRows, DeleteRow, DeleteRowFails, Invalidated
  <2>2. CASE StartSync(t) \/ Select(t) \/ Lookup(t)
    BY <1>1, <2>2 DEF StartSync, Select, Lookup, GoTo, serverVars, tableVars, Typed, TypeOK
  <2>3. CASE SyncFails(t) \/ SaveState(t)
    <3>1. Return(t) /\ UNCHANGED <<epoch, box, live, rows, excused>>
      BY <2>3 DEF SyncFails, SaveState, serverVars, tableVars
    <3>2. Cached' = Cached /\ \A u : Settled(u)' = Settled(u)
      BY <3>1 DEF Cached, Settled
    <3>3. \A r \in Tasks : Pending(r)' = Pending(r) \/ Pending(r)' = {}
      BY <3>1, ReturnEffect, OwnBatch DEF Typed
    <3>4. \A r \in Tasks : pc'[r] = "fetch" => pc[r] = "fetch" /\ start'[r] = start[r]
      BY <3>1 DEF Return, GoTo, Typed, TypeOK
    <3>5. QED
      BY <3>1, <3>2, <3>3, <3>4, GapKept
  <2>4. CASE StoreError(t) \/ InsertClashes(t) \/ AttachClashes(t)
    <3>1. StoreFails(t) /\ Pending(t) # {} /\ sel[t] = epoch
      BY <2>4 DEF StoreError, InsertClashes, AttachClashes, Typed, TypeOK, BusyInv, OpenInv
    <3>2. /\ UNCHANGED <<epoch, box, live, rows, start>>
          /\ NextFetch(t)
          /\ excused' = excused \cup {<<epoch, At(t)>>}
      BY <3>1 DEF StoreFails, serverVars, tableVars
    <3>3. PICK at \in Uids : at = At(t)
      BY <3>1, AtIsMin
    <3>4. Cached' = Cached /\ Settled(at)' /\ excused \subseteq excused'
      BY <3>2, <3>3 DEF Cached, Settled
    <3>5. /\ Pending(t)' = Pending(t) \ {at}
          /\ pc'[t] # "fetch"
          /\ \A r \in Tasks \ {t} : pc'[r] = pc[r] /\ batch'[r] = batch[r]
      BY <3>1, <3>2, <3>3, NextFetchEffect DEF Typed
    <3>6. \A r \in Tasks \ {t} : Pending(r)' = Pending(r)
      BY <3>5, OwnBatch
    <3>7. QED
      BY <3>1, <3>2, <3>3, <3>4, <3>5, <3>6, GapStore
  <2>5. CASE UpdateRow(t) \/ InsertRow(t) \/ Attach(t)
    <3>1. PICK at \in Uids : at = At(t)
      BY <2>5, StoreEffect DEF Pending
    <3>2. /\ at \in Pending(t) /\ rows'[at] # NoRow
          /\ \A u \in Uids \ {at} : rows'[u] = rows[u]
          /\ Pending(t)' \subseteq Pending(t) /\ Pending(t) \subseteq Pending(t)' \cup {at}
          /\ \A r \in Tasks \ {t} : Pending(r)' = Pending(r) /\ pc'[r] = pc[r]
          /\ pc'[t] # "fetch"
          /\ UNCHANGED <<epoch, box, live, start, excused>>
      BY <2>5, <3>1, StoreEffect
    <3>3. Cached' = Cached \cup {at}
      BY <3>2 DEF Cached
    <3>4. Settled(at)'
      BY <3>3 DEF Settled
    <3>5. QED
      BY <3>1, <3>2, <3>3, <3>4, GapStore
  <2>6. QED
    BY <1>4, <2>1, <2>2, <2>3, <2>4, <2>5, GapFindStart, GapFetch DEF SyncStep
<1>5. CASE Restart
  <2>1. /\ UNCHANGED <<epoch, box, live, rows>> /\ excused \subseteq excused'
        /\ \A r \in Tasks : pc'[r] # "fetch"
    BY <1>5 DEF Restart, serverVars, tableVars
  <2>2. Cached' = Cached /\ \A u : Settled(u) => Settled(u)'
    BY <2>1 DEF Cached, Settled
  <2>3. \A r \in Tasks : Pending(r)' = {}
    BY <1>5 DEF Restart, Pending, EmptyBox
  <2>4. QED
    BY <2>1, <2>2, <2>3, GapKept
<1>6. CASE UNCHANGED vars
  BY <1>1, <1>6 DEF vars
<1>7. QED
  BY <1>2, <1>3, <1>4, <1>5, <1>6 DEF Next

\* While the server keeps its UIDVALIDITY, the cache shows under each UID the message
\* the server has there, with its own headers: for any number of tasks at a time,
\* whatever fails, is expunged, deleted locally or interrupted by a restart.
THEOREM StableMailbox ==
    ASSUME MaxEpoch = 1
    PROVE  Spec => [](CacheMatchesServer /\ OneMailPerRow)
<1>1. Init => MirrorInv
  <2> SUFFICES ASSUME Init PROVE MirrorInv
    OBVIOUS
  <2>1. Cached = {} /\ \A t \in Tasks : Pending(t) = {} /\ pc[t] = "idle"
    BY DEF Init, Cached, Pending, EmptyBox
  <2>2. QED
    BY <2>1 DEF MirrorInv
<1>2. Typed /\ MirrorInv /\ [Next]_vars => MirrorInv'
  BY MirrorStep
<1>3. MirrorInv => CacheMatchesServer /\ OneMailPerRow
  BY DEF MirrorInv, CacheMatchesServer, OneMailPerRow
<1>4. Spec => []Typed
  BY TypeCorrect DEF Typed
<1>5. QED
  BY <1>1, <1>2, <1>3, <1>4, PTL DEF Spec

\* Nor does any number of tasks, under the same conditions, leave out a message below
\* the highest UID cached without an error or a delete to excuse it.
THEOREM NothingSkipped ==
    ASSUME MaxEpoch = 1
    PROVE  Spec => []NoSilentGap
<1>1. Init => MirrorInv /\ GapInv
  <2> SUFFICES ASSUME Init PROVE MirrorInv /\ GapInv
    OBVIOUS
  <2>1. Cached = {} /\ live = {} /\ \A t \in Tasks : Pending(t) = {} /\ pc[t] = "idle"
    BY DEF Init, Cached, Pending, EmptyBox
  <2>2. QED
    BY <2>1 DEF MirrorInv, GapInv
<1>2. Typed /\ MirrorInv /\ GapInv /\ [Next]_vars => MirrorInv' /\ GapInv'
  BY MirrorStep, GapStep
<1>3. Typed /\ GapInv => NoSilentGap
  <2> SUFFICES ASSUME Typed, GapInv, NEW u \in live \ Cached, u < Top(Cached)
               PROVE  <<epoch, u>> \in excused
    BY DEF NoSilentGap
  <2>1. Cached \subseteq Uids /\ u \in Nat /\ 0 < u
    BY DEF Cached, Typed, TypeOK, Uids
  <2>2. Top(Cached) \in Cached
    <3>1. Top(Cached) # 0
      BY <2>1
    <3>2. QED
      BY <2>1, <3>1, TopIsMax DEF Top
  <2>3. QED
    BY <2>2 DEF GapInv, Settled
<1>4. Spec => []Typed
  BY TypeCorrect DEF Typed
<1>5. QED
  BY <1>1, <1>2, <1>3, <1>4, PTL DEF Spec

-----------------------------------------------------------------------------
(***************************************************************************)
(* Several epochs: the server may give all messages new UIDs at any time,   *)
(* and an invalidation may leave rows. The cache that is marked with the    *)
(* UIDVALIDITY of the server has no other rows from before, if tasks do not *)
(* overlap and know with which UIDVALIDITY the rows were stored.            *)
(***************************************************************************)
Shown == Cached \ undeleted
AsServer(u) == rows[u].head = box[u] /\ rows[u].body = box[u]
Faithful == \A u \in Shown : AsServer(u)

\* Syncs of the folder do not overlap.
OneAtATime == \A t, r \in Tasks : pc[t] # "idle" /\ pc[r] # "idle" => t = r

\* A task that has no UIDVALIDITY in its Folder value works for a folder that has none: it
\* is no worker from before the first sync that was completed.
FolderValueKnown == \A t \in Tasks : pc[t] # "idle" /\ snap[t] = 0 => validity = 0

\* It works for the UIDVALIDITY the folder has.
FolderValueFresh == \A t \in Tasks : pc[t] # "idle" => snap[t] = validity

\* The mailbox is not rebuilt between the first message stored and the end of the first
\* sync that completes.
FirstUndisturbed ==
    epoch' # epoch => validity # 0 \/ (Cached = {} /\ \A t \in Tasks : Pending(t) = {})

\* What a task does with the UIDs of its session: they are those of the server now, or of
\* an earlier epoch, and then the table is not marked with the epoch of the server.
InEpoch(t) ==
    /\ snap[t] <= validity
    /\ sel[t] <= epoch
    /\ sel[t] = 0 \/ validity <= sel[t]
    /\ pc[t] = "idle" => sel[t] = 0
    /\ pc[t] \notin {"lookup", "upsert", "attach"} => Pending(t) = {}
    /\ pc[t] = "delete" => Shown \subseteq doomed[t]
    /\ sel[t] = epoch /\ pc[t] \notin {"list", "delete"} => Faithful
    /\ sel[t] = epoch => \A u \in Pending(t) : batch[t][u] = box[u]
    /\ \A u \in Pending(t) \cap Shown : rows[u].head = batch[t][u]

EpochInv ==
    /\ validity <= epoch
    /\ validity = epoch => Faithful
    /\ OneMailPerRow
    /\ \A t \in Tasks : InEpoch(t)

\* What no sync has marked yet is of the current epoch when a sync begins.
Ready == validity = 0 /\ (\A t \in Tasks : pc[t] \in {"idle", "select"}) => Faithful

LEMMA EpochTypes ==
    ASSUME TypeOK
    PROVE  /\ epoch \in Nat /\ 0 < epoch /\ validity \in Nat
           /\ \A t \in Tasks : sel[t] \in Nat /\ snap[t] \in Nat
BY DEF TypeOK

\* Rows that go, and rows that are given up, leave the others as they are.
LEMMA FewerShown ==
    ASSUME UNCHANGED box,
           \A u \in Uids : rows'[u] \in {rows[u], NoRow},
           \A u \in undeleted \ undeleted' : rows'[u] = NoRow
    PROVE  /\ Shown' \subseteq Shown
           /\ \A u \in Shown' : rows'[u] = rows[u]
           /\ Faithful => Faithful'
           /\ OneMailPerRow => OneMailPerRow'
<1>1. Shown' \subseteq Shown /\ \A u \in Shown' : rows'[u] = rows[u]
  BY DEF Shown, Cached
<1>2. QED
  BY <1>1 DEF Faithful, AsServer, OneMailPerRow, Shown

\* What the step of one task has to keep, if the others are idle and stay as they are.
Alone(t) == \A r \in Tasks \ {t} : /\ pc[r] = "idle" /\ pc'[r] = "idle" /\ sel'[r] = sel[r]
                                   /\ snap'[r] = snap[r] /\ batch'[r] = batch[r]

LEMMA AloneStep ==
    ASSUME TypeOK, TypeOK', EpochInv, NEW t \in Tasks, UNCHANGED epoch, validity <= validity',
           Alone(t), InEpoch(t)', validity' <= epoch, validity' = epoch => Faithful',
           OneMailPerRow'
    PROVE  EpochInv'
<1>1. ASSUME NEW r \in Tasks \ {t} PROVE InEpoch(r)'
  <2>1. snap[r] <= validity /\ sel[r] = 0 /\ Pending(r) = {} /\ pc'[r] = "idle"
    BY DEF EpochInv, InEpoch, Alone
  <2>2. Pending(r)' = {} /\ sel'[r] = 0 /\ snap'[r] = snap[r]
    BY <2>1, OwnBatch DEF Alone
  <2>3. snap'[r] <= validity'
    BY <2>1, <2>2, EpochTypes DEF TypeOK
  <2>4. epoch' # 0 /\ 0 <= epoch'
    BY EpochTypes
  <2>5. QED
    BY <2>1, <2>2, <2>3, <2>4 DEF InEpoch
<1>2. QED
  BY <1>1 DEF EpochInv

\* Steps that leave the table alone.
LEMMA TableStays ==
    ASSUME UNCHANGED <<box, rows, undeleted>>
    PROVE  /\ Shown' = Shown /\ Faithful' = Faithful /\ OneMailPerRow' = OneMailPerRow
           /\ \A u \in Shown' : rows'[u] = rows[u]
BY DEF Shown, Cached, Faithful, AsServer, OneMailPerRow

LEMMA SelectEpoch ==
    ASSUME Typed, TypeOK', OneAtATime, FolderValueKnown, Ready, EpochInv, NEW t \in Tasks,
           Select(t)
    PROVE  EpochInv'
<1>1. /\ pc[t] = "select" /\ UNCHANGED <<epoch, box, rows, validity, undeleted, snap, batch>>
      /\ sel' = [sel EXCEPT ![t] = epoch]
      /\ pc' = [pc EXCEPT ![t] = IF snap[t] \notin {0, epoch} THEN "list" ELSE "max"]
  BY DEF Select, GoTo, serverVars, tableVars
<1>2. Alone(t)
  BY <1>1 DEF Alone, OneAtATime, Typed, TypeOK
<1>3. Shown' = Shown /\ Faithful' = Faithful /\ OneMailPerRow' = OneMailPerRow
  BY <1>1, TableStays
<1>4. snap[t] <= validity /\ validity <= epoch /\ Pending(t) = {}
  BY <1>1 DEF EpochInv, InEpoch
<1>5. snap[t] \in {0, epoch} => Faithful
  <2>1. CASE snap[t] = 0
    <3>1. validity = 0 /\ \A r \in Tasks : pc[r] \in {"idle", "select"}
      BY <1>1, <1>2, <2>1 DEF FolderValueKnown, Alone
    <3>2. QED
      BY <3>1 DEF Ready
  <2>2. CASE snap[t] = epoch
    BY <1>4, <2>2, EpochTypes DEF Typed, EpochInv
  <2>3. QED
    BY <2>1, <2>2
<1>6. Pending(t)' = {} /\ sel'[t] = epoch /\ snap'[t] = snap[t] /\ epoch' = epoch /\ validity' = validity
  BY <1>1, <1>4, OwnBatch DEF Typed, TypeOK
<1>7. pc'[t] \in {"list", "max"} /\ (pc'[t] = "max" => Faithful')
  BY <1>1, <1>3, <1>5 DEF Typed, TypeOK
<1>8. InEpoch(t)'
  BY <1>4, <1>6, <1>7, EpochTypes DEF InEpoch, Typed
<1>9. validity' = epoch => Faithful'
  BY <1>3, <1>6 DEF EpochInv
<1>10. QED
  BY <1>1, <1>2, <1>3, <1>4, <1>6, <1>8, <1>9, AloneStep, EpochTypes DEF EpochInv, Typed

\* Listing and deleting rows.
LEMMA InvalidateEpoch ==
    ASSUME Typed, TypeOK', OneAtATime, EpochInv, NEW t \in Tasks,
           ListRows(t) \/ DeleteRow(t) \/ DeleteRowFails(t)
    PROVE  EpochInv'
<1>1. /\ pc[t] \in {"list", "delete"} /\ UNCHANGED <<epoch, box, validity, snap, sel, batch>>
      /\ pc' = [pc EXCEPT ![t] = "delete"]
  BY DEF ListRows, DeleteRow, DeleteRowFails, GoTo, serverVars, tableVars, Typed, TypeOK
<1>2. Alone(t)
  BY <1>1 DEF Alone, OneAtATime, Typed, TypeOK
<1>3. /\ \A u \in Uids : rows'[u] \in {rows[u], NoRow}
      /\ \A u \in undeleted \ undeleted' : rows'[u] = NoRow
      /\ Shown' \subseteq doomed'[t]
  <2>1. CASE ListRows(t)
    <3>1. PICK S \in SUBSET Cached : /\ doomed' = [doomed EXCEPT ![t] = S]
                                     /\ undeleted' = undeleted \cup (Cached \ S)
                                     /\ rows' = rows
      BY <2>1 DEF ListRows, tableVars
    <3>2. Cached' = Cached /\ doomed'[t] = S
      BY <3>1 DEF Cached, Typed, TypeOK
    <3>3. QED
      BY <3>1, <3>2 DEF Shown
  <2>2. CASE DeleteRow(t)
    <3>1. PICK u \in doomed[t] : Remove(u)
      BY <2>2 DEF DeleteRow
    <3>2. /\ rows' = [rows EXCEPT ![u] = NoRow] /\ undeleted' = undeleted \ {u}
          /\ doomed'[t] = doomed[t] \ {u} /\ u \in Uids
      BY <3>1 DEF Remove, Typed, TypeOK
    <3>3. Cached' = Cached \ {u}
      BY <3>2 DEF Cached, Typed, TypeOK
    <3>4. Shown \subseteq doomed[t]
      BY <2>2 DEF DeleteRow, EpochInv, InEpoch
    <3>5. QED
      BY <3>2, <3>3, <3>4 DEF Shown, Typed, TypeOK
  <2>3. CASE DeleteRowFails(t)
    <3>1. PICK u \in doomed[t] : /\ doomed' = [doomed EXCEPT ![t] = @ \ {u}]
                                 /\ undeleted' = undeleted \cup {u} /\ rows' = rows
      BY <2>3 DEF DeleteRowFails, tableVars
    <3>2. Cached' = Cached /\ doomed'[t] = doomed[t] \ {u}
      BY <3>1 DEF Cached, Typed, TypeOK
    <3>3. Shown \subseteq doomed[t]
      BY <2>3 DEF DeleteRowFails, EpochInv, InEpoch
    <3>4. QED
      BY <3>1, <3>2, <3>3 DEF Shown
  <2>4. QED
    BY <2>1, <2>2, <2>3
<1>4. (Faithful => Faithful') /\ OneMailPerRow'
  BY <1>1, <1>3, FewerShown DEF EpochInv
<1>5. snap[t] <= validity /\ sel[t] <= epoch /\ (sel[t] = 0 \/ validity <= sel[t]) /\ Pending(t) = {}
  BY <1>1 DEF EpochInv, InEpoch
<1>6. Pending(t)' = {} /\ pc'[t] = "delete"
  BY <1>1, <1>5, OwnBatch DEF Typed, TypeOK
<1>7. InEpoch(t)'
  BY <1>1, <1>3, <1>5, <1>6 DEF InEpoch
<1>8. QED
  BY <1>1, <1>2, <1>4, <1>7, AloneStep, EpochTypes DEF EpochInv, Typed

\* Steps between the tables: a task that was faithful to the epoch it selected, or for
\* which nothing is shown any more, goes on to fetch or to look up.
LEMMA FromEpoch ==
    ASSUME Typed, TypeOK', OneAtATime, EpochInv, NEW t \in Tasks,
           Invalidated(t) \/ FindStart(t) \/ Lookup(t)
    PROVE  EpochInv'
<1>1. /\ pc[t] \in {"delete", "max", "lookup"}
      /\ UNCHANGED <<epoch, box, rows, validity, undeleted, snap, sel, batch>>
      /\ \E where \in {"fetch", "save", "upsert"} : pc' = [pc EXCEPT ![t] = where]
      /\ pc[t] = "lookup" <=> pc'[t] = "upsert"
  BY DEF Invalidated, FindStart, From, Lookup, GoTo, serverVars, tableVars, Typed, TypeOK
<1>2. Alone(t)
  BY <1>1 DEF Alone, OneAtATime, Typed, TypeOK
<1>3. Shown' = Shown /\ Faithful' = Faithful /\ OneMailPerRow' = OneMailPerRow
      /\ \A u \in Shown' : rows'[u] = rows[u]
  BY <1>1, TableStays
<1>4. InEpoch(t) /\ (pc[t] = "delete" => Faithful)
  <2>1. InEpoch(t)
    BY DEF EpochInv
  <2>2. ASSUME pc[t] = "delete" PROVE Faithful
    <3>1. doomed[t] = {}
      BY <2>2 DEF Invalidated, FindStart, Lookup
    <3>2. QED
      BY <2>1, <2>2, <3>1 DEF InEpoch, Faithful
  <2>3. QED
    BY <2>1, <2>2
<1>5. Pending(t)' = Pending(t) /\ pc'[t] \in {"fetch", "save", "upsert"}
  BY <1>1, OwnBatch DEF Typed, TypeOK
<1>6. sel[t] = epoch => Faithful
  BY <1>1, <1>4 DEF InEpoch
<1>7. InEpoch(t)'
  BY <1>1, <1>3, <1>4, <1>5, <1>6 DEF InEpoch
<1>8. QED
  BY <1>1, <1>2, <1>3, <1>7, AloneStep, EpochTypes DEF EpochInv, Typed

LEMMA FetchEpoch ==
    ASSUME Typed, TypeOK', OneAtATime, EpochInv, NEW t \in Tasks, Fetch(t)
    PROVE  EpochInv'
<1>1. /\ pc[t] = "fetch" /\ sel[t] = epoch
      /\ UNCHANGED <<epoch, box, rows, validity, undeleted, snap, sel>>
      /\ \E where \in {"lookup", "save"} : pc' = [pc EXCEPT ![t] = where]
      /\ \A r \in Tasks \ {t} : batch'[r] = batch[r]
  BY DEF Fetch, GoTo, serverVars, tableVars, Typed, TypeOK
<1>2. Alone(t)
  BY <1>1 DEF Alone, OneAtATime, Typed, TypeOK
<1>3. Shown' = Shown /\ Faithful' = Faithful /\ OneMailPerRow' = OneMailPerRow
      /\ \A u \in Shown' : rows'[u] = rows[u]
  BY <1>1, TableStays
<1>4. InEpoch(t) /\ Faithful
  BY <1>1 DEF EpochInv, InEpoch
<1>5. /\ Pending(t)' \subseteq Uids
      /\ \A u \in Pending(t)' : u \in live /\ u >= start[t] /\ batch'[t][u] = box[u]
  BY DEF Fetch, Pending, Typed, TypeOK
<1>6. pc'[t] \in {"lookup", "save"} /\ (pc'[t] = "save" => Pending(t)' = {})
  BY <1>5 DEF Fetch, GoTo, Typed, TypeOK
<1>7. \A u \in Pending(t)' \cap Shown' : rows'[u].head = batch'[t][u]
  BY <1>3, <1>4, <1>5 DEF Faithful, AsServer
<1>8. \A u \in Pending(t)' : batch'[t][u] = box'[u]
  BY <1>1, <1>5
<1>9. InEpoch(t)'
  BY <1>1, <1>3, <1>4, <1>6, <1>7, <1>8 DEF InEpoch
<1>10. QED
  BY <1>1, <1>2, <1>3, <1>9, AloneStep, EpochTypes DEF EpochInv, Typed

\* The end of a sync: if it marks the table, then with the epoch it was faithful to.
LEMMA EndEpoch ==
    ASSUME Typed, TypeOK', OneAtATime, EpochInv, NEW t \in Tasks, SyncFails(t) \/ SaveState(t)
    PROVE  EpochInv'
<1>1. /\ pc[t] # "idle" /\ Return(t) /\ UNCHANGED <<epoch, box, rows, undeleted>>
      /\ validity' = validity \/ (validity' = sel[t] /\ pc[t] = "save")
  BY DEF SyncFails, SaveState, serverVars, tableVars
<1>2. /\ pc' = [pc EXCEPT ![t] = "idle"] /\ Pending(t)' = {} /\ sel'[t] = 0
      /\ snap'[t] \in {snap[t], 0}
      /\ \A r \in Tasks \ {t} : snap'[r] = snap[r] /\ sel'[r] = sel[r] /\ batch'[r] = batch[r]
  BY <1>1, ReturnEffect DEF Return, Typed, TypeOK
<1>3. Alone(t)
  BY <1>1, <1>2 DEF Alone, OneAtATime, Typed, TypeOK
<1>4. Shown' = Shown /\ Faithful' = Faithful /\ OneMailPerRow' = OneMailPerRow
  BY <1>1, TableStays
<1>5. InEpoch(t)
  BY DEF EpochInv
<1>6. validity <= validity' /\ validity' <= epoch /\ (validity' = epoch => Faithful)
  <2>1. CASE validity' = validity
    BY <2>1, EpochTypes DEF EpochInv, Typed
  <2>2. CASE validity' = sel[t] /\ pc[t] = "save"
    <3>1. sel[t] # 0
      BY <2>2 DEF Typed, OpenInv
    <3>2. QED
      BY <1>5, <2>2, <3>1 DEF InEpoch
  <2>3. QED
    BY <1>1, <2>1, <2>2
<1>7. snap'[t] <= validity' /\ 0 <= epoch
  <2>1. snap[t] <= validity
    BY <1>5 DEF InEpoch
  <2>2. validity' \in Nat
    BY DEF TypeOK
  <2>3. QED
    BY <1>2, <1>6, <2>1, <2>2, EpochTypes DEF Typed
<1>8. pc'[t] = "idle" /\ epoch' = epoch /\ epoch # 0
  BY <1>1, <1>2, EpochTypes DEF Typed, TypeOK
<1>9. InEpoch(t)'
  BY <1>2, <1>7, <1>8 DEF InEpoch
<1>10. QED
  BY <1>1, <1>3, <1>4, <1>6, <1>8, <1>9, AloneStep DEF EpochInv, Typed

\* An error of the loop.
LEMMA SkipEpoch ==
    ASSUME Typed, TypeOK', OneAtATime, EpochInv, NEW t \in Tasks,
           StoreError(t) \/ InsertClashes(t) \/ AttachClashes(t)
    PROVE  EpochInv'
<1>1. /\ pc[t] \in {"lookup", "upsert", "attach"} /\ NextFetch(t) /\ Pending(t) # {}
      /\ UNCHANGED <<epoch, box, rows, validity, undeleted, snap, sel>>
  BY DEF StoreError, InsertClashes, AttachClashes, StoreFails, serverVars, tableVars, Typed, BusyInv
<1>2. /\ Pending(t)' \subseteq Pending(t)
      /\ \A u \in Pending(t)' : batch'[t][u] = batch[t][u]
      /\ pc'[t] \in {"lookup", "save"} /\ (pc'[t] = "save" => Pending(t)' = {})
      /\ \A r \in Tasks \ {t} : pc'[r] = pc[r] /\ batch'[r] = batch[r]
  BY <1>1, NextFetchEffect DEF Typed
<1>3. Alone(t)
  BY <1>1, <1>2 DEF Alone, OneAtATime
<1>4. Shown' = Shown /\ Faithful' = Faithful /\ OneMailPerRow' = OneMailPerRow
      /\ \A u \in Shown' : rows'[u] = rows[u]
  BY <1>1, TableStays
<1>5. InEpoch(t)
  BY DEF EpochInv
<1>6. InEpoch(t)'
  BY <1>1, <1>2, <1>4, <1>5 DEF InEpoch
<1>7. QED
  BY <1>1, <1>3, <1>4, <1>6, AloneStep, EpochTypes DEF EpochInv, Typed

\* What storing a message does to the rows that are shown: whatever it finds there, the row
\* is of the message that was fetched.
LEMMA StoreShown ==
    ASSUME Typed, EpochInv, NEW t \in Tasks, UpdateRow(t) \/ InsertRow(t) \/ Attach(t)
    PROVE  /\ At(t) \in Pending(t) /\ rows'[At(t)] # NoRow
           /\ At(t) \in Shown' => rows'[At(t)].head = batch[t][At(t)]
                                  /\ rows'[At(t)].body = batch[t][At(t)]
           /\ \A u \in Uids \ {At(t)} : rows'[u] = rows[u]
<1>1. At(t) \in Pending(t) /\ At(t) \in Uids /\ batch[t][At(t)] \in Mails
  <2>1. Pending(t) # {}
    BY DEF Typed, BusyInv, UpdateRow, InsertRow, Attach
  <2>2. QED
    BY <2>1, AtIsMin DEF Typed, TypeOK, Pending
<1>2. CASE InsertRow(t)
  BY <1>1, <1>2, FolderSyncAssumption DEF InsertRow, Typed, TypeOK, NoRow
<1>3. CASE UpdateRow(t) \/ Attach(t)
  <2>1. rows[At(t)] \in Rows \ {NoRow}
    BY <1>1, <1>3 DEF Typed, TypeOK, KnowInv, UpdateRow, Attach
  <2>2. At(t) \in Shown' => rows[At(t)].head = batch[t][At(t)] /\ rows[At(t)].body = batch[t][At(t)]
    <3> SUFFICES ASSUME At(t) \in Shown'
                 PROVE  rows[At(t)].head = batch[t][At(t)] /\ rows[At(t)].body = batch[t][At(t)]
      OBVIOUS
    <3>1. At(t) \in Shown
      BY <1>1, <1>3, <2>1 DEF Shown, Cached, UpdateRow, Attach
    <3>2. rows[At(t)].head = batch[t][At(t)]
      BY <1>1, <3>1 DEF EpochInv, InEpoch
    <3>3. rows[At(t)].head = rows[At(t)].body
      BY <3>1 DEF EpochInv, OneMailPerRow, Shown
    <3>4. QED
      BY <3>2, <3>3
  <2>3. \E new \in Rows \ {NoRow} :
          /\ rows' = [rows EXCEPT ![At(t)] = new]
          /\ new.head = rows[At(t)].head
          /\ new.body \in {rows[At(t)].body, batch[t][At(t)]}
    <3>1. CASE UpdateRow(t)
      <4> DEFINE new == [rows[At(t)] EXCEPT !.body = batch[t][At(t)]]
      <4>1. rows' = [rows EXCEPT ![At(t)] = new]
        BY <3>1 DEF UpdateRow
      <4>2. QED
        BY <1>1, <2>1, <4>1, RowUpdate
    <3>2. CASE Attach(t)
      <4> DEFINE new == [rows[At(t)] EXCEPT !.files = TRUE]
      <4>1. rows' = [rows EXCEPT ![At(t)] = new]
        BY <3>2 DEF Attach
      <4>2. QED
        BY <1>1, <2>1, <4>1, RowUpdate
    <3>3. QED
      BY <1>3, <3>1, <3>2
  <2>4. QED
    BY <1>1, <2>2, <2>3 DEF Typed, TypeOK
<1>4. QED
  BY <1>2, <1>3

LEMMA StoreEpoch ==
    ASSUME Typed, TypeOK', OneAtATime, EpochInv, NEW t \in Tasks,
           UpdateRow(t) \/ InsertRow(t) \/ Attach(t)
    PROVE  EpochInv'
<1>1. /\ pc[t] \in {"upsert", "attach"}
      /\ UNCHANGED <<epoch, box, validity, undeleted, snap, sel>>
      /\ NextFetch(t) \/ (pc' = [pc EXCEPT ![t] = "attach"] /\ batch' = batch)
  BY DEF UpdateRow, InsertRow, Attach, GoTo, serverVars, Typed, TypeOK
<1>2. PICK at \in Pending(t) :
        /\ at \in Shown' => rows'[at].head = batch[t][at] /\ rows'[at].body = batch[t][at]
        /\ \A u \in Uids \ {at} : rows'[u] = rows[u]
  BY StoreShown
<1>3. /\ Pending(t)' \subseteq Pending(t)
      /\ \A u \in Pending(t)' : batch'[t][u] = batch[t][u]
      /\ pc'[t] \in {"lookup", "attach", "save"} /\ (pc'[t] = "save" => Pending(t)' = {})
      /\ \A r \in Tasks \ {t} : pc'[r] = pc[r] /\ batch'[r] = batch[r]
  <2>1. CASE NextFetch(t)
    BY <1>2, <2>1, NextFetchEffect DEF Typed
  <2>2. CASE pc' = [pc EXCEPT ![t] = "attach"] /\ batch' = batch
    BY <2>2, OwnBatch DEF Typed, TypeOK
  <2>3. QED
    BY <1>1, <2>1, <2>2
<1>4. Alone(t)
  BY <1>1, <1>3 DEF Alone, OneAtATime
<1>5. InEpoch(t)
  BY DEF EpochInv
<1>6. \A u \in Shown' : u # at => u \in Shown /\ rows'[u] = rows[u]
  BY <1>1, <1>2 DEF Shown, Cached
<1>7. OneMailPerRow'
  <2>1. ASSUME NEW u \in Shown' PROVE rows'[u].head = rows'[u].body
    <3>1. CASE u = at
      BY <1>2, <2>1, <3>1
    <3>2. CASE u # at
      BY <1>6, <2>1, <3>2 DEF EpochInv, OneMailPerRow, Shown
    <3>3. QED
      BY <3>1, <3>2
  <2>2. QED
    BY <2>1 DEF OneMailPerRow, Shown
<1>8. sel[t] = epoch => Faithful'
  <2> SUFFICES ASSUME sel[t] = epoch, NEW u \in Shown'
               PROVE  rows'[u].head = box'[u] /\ rows'[u].body = box'[u]
    BY DEF Faithful, AsServer
  <2>1. Faithful /\ batch[t][at] = box[at] /\ box' = box
    BY <1>1, <1>2, <1>5 DEF InEpoch
  <2>2. CASE u = at
    BY <1>2, <2>1, <2>2
  <2>3. CASE u # at
    BY <1>6, <2>1, <2>3 DEF Faithful, AsServer
  <2>4. QED
    BY <2>2, <2>3
<1>9. \A u \in Pending(t)' \cap Shown' : rows'[u].head = batch'[t][u]
  <2> SUFFICES ASSUME NEW u \in Pending(t)', u \in Shown' PROVE rows'[u].head = batch'[t][u]
    OBVIOUS
  <2>1. u \in Pending(t) /\ batch'[t][u] = batch[t][u]
    BY <1>3
  <2>2. CASE u = at
    BY <1>2, <2>1, <2>2
  <2>3. CASE u # at
    BY <1>5, <1>6, <2>1, <2>3 DEF InEpoch
  <2>4. QED
    BY <2>2, <2>3
<1>10. InEpoch(t)'
  BY <1>1, <1>3, <1>5, <1>8, <1>9 DEF InEpoch
<1>11. validity' = epoch => Faithful'
  <2>1. sel[t] # 0
    BY <1>1 DEF Typed, OpenInv
  <2>2. validity <= sel[t] /\ sel[t] <= epoch /\ validity' = validity
    BY <1>1, <1>5, <2>1 DEF InEpoch
  <2>3. QED
    BY <1>8, <2>2, EpochTypes DEF Typed
<1>12. QED
  BY <1>1, <1>4, <1>7, <1>10, <1>11, AloneStep, EpochTypes DEF EpochInv, Typed

LEMMA StartEpoch ==
    ASSUME Typed, TypeOK', OneAtATime', EpochInv, NEW t \in Tasks, StartSync(t)
    PROVE  EpochInv'
<1>1. /\ pc[t] = "idle" /\ pc' = [pc EXCEPT ![t] = "select"]
      /\ UNCHANGED <<epoch, box, rows, validity, undeleted, sel, batch>>
      /\ snap'[t] \in {snap[t], validity}
      /\ \A r \in Tasks \ {t} : snap'[r] = snap[r]
  BY DEF StartSync, GoTo, serverVars, tableVars, Typed, TypeOK
<1>2. Alone(t)
  BY <1>1 DEF Alone, OneAtATime, Typed, TypeOK
<1>3. Shown' = Shown /\ Faithful' = Faithful /\ OneMailPerRow' = OneMailPerRow
  BY <1>1, TableStays
<1>4. snap[t] <= validity /\ sel[t] = 0 /\ Pending(t) = {}
  BY <1>1 DEF EpochInv, InEpoch
<1>5. Pending(t)' = {} /\ pc'[t] = "select" /\ sel'[t] = 0 /\ snap'[t] <= validity'
      /\ 0 <= epoch' /\ epoch' # 0
  BY <1>1, <1>4, OwnBatch, EpochTypes DEF Typed, TypeOK
<1>6. InEpoch(t)'
  BY <1>5 DEF InEpoch
<1>7. QED
  BY <1>1, <1>2, <1>3, <1>6, AloneStep, EpochTypes DEF EpochInv, Typed

\* New mail gets a UID nothing shown has; a rebuilt mailbox has an epoch nobody has selected.
LEMMA ServerEpoch ==
    ASSUME Typed, TypeOK', EpochInv, Server
    PROVE  EpochInv'
<1>1. UNCHANGED <<rows, validity, undeleted, pc, snap, sel, doomed, batch>>
  BY DEF Server, Arrive, Expunge, Renumber, tableVars, localVars
<1>2. Shown' = Shown /\ OneMailPerRow' = OneMailPerRow /\ \A t \in Tasks : Pending(t)' = Pending(t)
  BY <1>1, OwnBatch DEF Shown, Cached, OneMailPerRow
<1>3. CASE epoch' = epoch /\ (\A u \in Given : box'[u] = box[u])
  <2>1. ASSUME NEW u \in Uids, box[u] \in Mails PROVE box'[u] = box[u]
    BY <1>3, <2>1 DEF Given
  <2>2. Faithful => Faithful'
    <3> SUFFICES ASSUME Faithful, NEW u \in Shown
                 PROVE  rows[u].head = box'[u] /\ rows[u].body = box'[u]
      BY <1>1, <1>2 DEF Faithful, AsServer
    <3>1. u \in Uids /\ rows[u] \in [head : Mails, body : Mails, files : BOOLEAN]
      BY DEF Shown, Cached, Typed, TypeOK, Rows
    <3>2. box[u] \in Mails
      BY <3>1 DEF Faithful, AsServer
    <3>3. QED
      BY <2>1, <3>1, <3>2 DEF Faithful, AsServer
  <2>3. ASSUME NEW t \in Tasks PROVE InEpoch(t)'
    <3>1. sel[t] = epoch => \A u \in Pending(t) : batch[t][u] = box'[u]
      <4> SUFFICES ASSUME sel[t] = epoch, NEW u \in Pending(t) PROVE batch[t][u] = box'[u]
        OBVIOUS
      <4>1. u \in Uids /\ batch[t][u] \in Mails
        BY DEF Pending, Typed, TypeOK
      <4>2. batch[t][u] = box[u]
        BY DEF EpochInv, InEpoch
      <4>3. QED
        BY <2>1, <4>1, <4>2
    <3>2. InEpoch(t)
      BY DEF EpochInv
    <3>3. QED
      BY <1>1, <1>2, <1>3, <2>2, <3>1, <3>2 DEF InEpoch
  <2>4. QED
    BY <1>1, <1>2, <1>3, <2>2, <2>3 DEF EpochInv
<1>4. CASE Renumber
  <2>1. epoch' = epoch + 1
    BY <1>4 DEF Renumber
  <2>2. ASSUME NEW t \in Tasks PROVE InEpoch(t)'
    <3>1. sel[t] <= epoch' /\ sel[t] # epoch'
      BY <2>1, EpochTypes DEF EpochInv, InEpoch, Typed
    <3>2. QED
      BY <1>1, <1>2, <3>1 DEF EpochInv, InEpoch
  <2>3. validity' <= epoch' /\ validity' # epoch'
    BY <1>1, <2>1, EpochTypes DEF EpochInv, Typed
  <2>4. QED
    BY <1>2, <2>2, <2>3 DEF EpochInv
<1>5. ASSUME NEW m \in Mails, Arrive(m) PROVE epoch' = epoch /\ (\A u \in Given : box'[u] = box[u])
  <2>1. Top(Given) + 1 \notin Given /\ \A u \in Uids \ {Top(Given) + 1} : box'[u] = box[u]
    BY <1>5, ArriveEffect DEF Typed
  <2>2. QED
    BY <1>5, <2>1 DEF Arrive, Given
<1>6. ASSUME NEW u \in Uids, Expunge(u) PROVE epoch' = epoch /\ box' = box
  BY <1>6 DEF Expunge
<1>7. QED
  BY <1>3, <1>4, <1>5, <1>6 DEF Server

LEMMA DeletedEpoch ==
    ASSUME Typed, TypeOK', EpochInv, NEW u \in Uids, DeleteLocally(u)
    PROVE  EpochInv'
<1>1. /\ UNCHANGED <<epoch, box, validity, pc, snap, sel, batch>>
      /\ rows' = [rows EXCEPT ![u] = NoRow] /\ undeleted' = undeleted \ {u}
      /\ \A t \in Tasks : doomed'[t] = doomed[t] \ {u}
  BY DEF DeleteLocally, Remove, serverVars
<1>2. Cached' = Cached \ {u}
  BY <1>1 DEF Cached, Typed, TypeOK
<1>3. /\ Shown' = Shown \ {u}
      /\ \A v \in Uids : rows'[v] \in {rows[v], NoRow}
      /\ \A v \in undeleted \ undeleted' : rows'[v] = NoRow
  BY <1>1, <1>2 DEF Shown, Typed, TypeOK
<1>4. /\ \A v \in Shown' : rows'[v] = rows[v]
      /\ (Faithful => Faithful') /\ (OneMailPerRow => OneMailPerRow')
  BY <1>1, <1>3, FewerShown
<1>5. ASSUME NEW t \in Tasks PROVE InEpoch(t)'
  BY <1>1, <1>3, <1>4, OwnBatch DEF EpochInv, InEpoch
<1>6. OneMailPerRow'
  BY <1>4 DEF EpochInv
<1>7. QED
  BY <1>1, <1>4, <1>5, <1>6 DEF EpochInv

LEMMA RestartEpoch ==
    ASSUME Typed, EpochInv, Restart
    PROVE  EpochInv'
<1>1. /\ UNCHANGED <<epoch, box, rows, validity, undeleted>>
      /\ \A t \in Tasks : pc'[t] = "idle" /\ sel'[t] = 0 /\ snap'[t] \in {validity, 0}
                          /\ Pending(t)' = {}
  BY DEF Restart, serverVars, tableVars, Pending, EmptyBox
<1>2. Shown' = Shown /\ Faithful' = Faithful /\ OneMailPerRow' = OneMailPerRow
  BY <1>1, TableStays
<1>3. \A t \in Tasks : snap'[t] <= validity'
  BY <1>1, EpochTypes DEF Typed
<1>4. 0 <= epoch' /\ epoch' # 0
  BY <1>1, EpochTypes DEF Typed
<1>5. \A t \in Tasks : InEpoch(t)'
  BY <1>1, <1>3, <1>4 DEF InEpoch
<1>6. QED
  BY <1>1, <1>2, <1>5 DEF EpochInv

LEMMA EpochStep ==
    ASSUME Typed, TypeOK', OneAtATime, OneAtATime', FolderValueKnown, Ready, EpochInv, [Next]_vars
    PROVE  EpochInv'
<1>1. ASSUME NEW t \in Tasks, SyncStep(t) PROVE EpochInv'
  BY <1>1, SelectEpoch, InvalidateEpoch, FromEpoch, FetchEpoch, EndEpoch, SkipEpoch, StoreEpoch
  DEF SyncStep
<1>2. CASE UNCHANGED vars
  BY <1>2, OwnBatch, TableStays DEF vars, EpochInv, InEpoch
<1>3. QED
  BY <1>1, <1>2, StartEpoch, ServerEpoch, DeletedEpoch, RestartEpoch DEF Next

LEMMA EpochInit == Init => EpochInv
<1> SUFFICES ASSUME Init PROVE EpochInv
  OBVIOUS
<1>1. Cached = {} /\ \A t \in Tasks : Pending(t) = {}
  BY DEF Init, Cached, Pending, EmptyBox
<1>2. Shown = {}
  BY <1>1 DEF Shown
<1>3. QED
  BY <1>1, <1>2 DEF Init, EpochInv, InEpoch, Faithful, OneMailPerRow, Shown

-----------------------------------------------------------------------------
\* No sync has been completed: the rows there are, of one that was interrupted, are those of
\* the epoch of the server, and so is what a task has fetched.
Fresh == validity = 0 => Faithful /\ \A t \in Tasks : Pending(t) # {} => sel[t] = epoch

\* Until a sync is completed, the rows there are have been stored by one that is still at it.
Virgin == /\ validity = 0
          /\ \A t \in Tasks : pc[t] \notin {"lookup", "upsert", "attach", "save"}
          => Cached = {}

LEMMA FreshTask ==
    ASSUME Typed, TypeOK', OneAtATime, EpochInv, EpochInv', Fresh,
           NEW t \in Tasks, StartSync(t) \/ SyncStep(t)
    PROVE  Fresh'
<1> SUFFICES ASSUME validity' = 0
             PROVE  Faithful' /\ \A r \in Tasks : Pending(r)' # {} => sel'[r] = epoch'
  BY DEF Fresh
<1>1. CASE StartSync(t) \/ Select(t) \/ Invalidated(t) \/ FindStart(t) \/ Lookup(t)
  <2>1. /\ UNCHANGED <<epoch, box, rows, validity, undeleted, batch>>
        /\ \A r \in Tasks : sel'[r] \in {sel[r], epoch}
    BY <1>1 DEF StartSync, Select, Invalidated, FindStart, From, Lookup, serverVars, tableVars,
       Typed, TypeOK
  <2>2. Faithful' = Faithful
    BY <2>1, TableStays
  <2>3. QED
    BY <2>1, <2>2, OwnBatch DEF Fresh
<1>2. CASE ListRows(t) \/ DeleteRow(t) \/ DeleteRowFails(t)
  <2>1. /\ UNCHANGED <<epoch, box, validity, sel, batch>>
        /\ \A u \in Uids : rows'[u] \in {rows[u], NoRow}
        /\ \A u \in undeleted \ undeleted' : rows'[u] = NoRow
    BY <1>2 DEF ListRows, DeleteRow, DeleteRowFails, Remove, serverVars, tableVars, Typed, TypeOK
  <2>2. Faithful => Faithful'
    BY <2>1, FewerShown
  <2>3. QED
    BY <2>1, <2>2, OwnBatch DEF Fresh
<1>3. CASE Fetch(t)
  <2>1. /\ UNCHANGED <<epoch, box, rows, validity, undeleted, sel>> /\ sel[t] = epoch
        /\ \A r \in Tasks \ {t} : batch'[r] = batch[r]
    BY <1>3 DEF Fetch, serverVars, tableVars, Typed, TypeOK
  <2>2. Faithful' = Faithful
    BY <2>1, TableStays
  <2>3. QED
    BY <2>1, <2>2, OwnBatch DEF Fresh
<1>4. CASE SyncFails(t)
  <2>1. /\ UNCHANGED <<epoch, box, rows, validity, undeleted>> /\ Pending(t)' = {}
        /\ \A r \in Tasks \ {t} : batch'[r] = batch[r] /\ sel'[r] = sel[r]
    BY <1>4, ReturnEffect DEF SyncFails, Return, serverVars, tableVars, Typed, TypeOK
  <2>2. Faithful' = Faithful
    BY <2>1, TableStays
  <2>3. QED
    BY <2>1, <2>2, OwnBatch DEF Fresh
<1>5. CASE SaveState(t)
  BY <1>5 DEF SaveState, Typed, OpenInv
<1>6. CASE \/ StoreError(t) \/ InsertClashes(t) \/ AttachClashes(t)
           \/ UpdateRow(t) \/ InsertRow(t) \/ Attach(t)
  <2>1. /\ pc[t] \in {"lookup", "upsert", "attach"} /\ Pending(t) # {}
        /\ UNCHANGED <<epoch, validity, sel>>
        /\ NextFetch(t) \/ (pc' = [pc EXCEPT ![t] = "attach"] /\ batch' = batch)
    BY <1>6 DEF StoreError, InsertClashes, AttachClashes, StoreFails, UpdateRow, InsertRow, Attach,
       GoTo, serverVars, tableVars, Typed, BusyInv
  <2>2. /\ pc'[t] \notin {"list", "delete"} /\ Pending(t)' \subseteq Pending(t)
        /\ \A r \in Tasks \ {t} : batch'[r] = batch[r]
    <3>1. CASE NextFetch(t)
      BY <2>1, <3>1, NextFetchEffect DEF Typed
    <3>2. CASE pc' = [pc EXCEPT ![t] = "attach"] /\ batch' = batch
      BY <3>2, OwnBatch DEF Typed, TypeOK
    <3>3. QED
      BY <2>1, <3>1, <3>2
  <2>3. sel[t] = epoch /\ \A r \in Tasks : Pending(r) # {} => sel[r] = epoch
    BY <2>1 DEF Fresh
  <2>4. Faithful'
    BY <2>1, <2>2, <2>3 DEF EpochInv, InEpoch
  <2>5. QED
    BY <2>1, <2>2, <2>3, <2>4, OwnBatch
<1>7. QED
  BY <1>1, <1>2, <1>3, <1>4, <1>5, <1>6 DEF SyncStep

LEMMA FreshStep ==
    ASSUME Typed, TypeOK', OneAtATime, EpochInv, EpochInv', Fresh, FirstUndisturbed, [Next]_vars
    PROVE  Fresh'
<1> SUFFICES ASSUME validity' = 0
             PROVE  Faithful' /\ \A r \in Tasks : Pending(r)' # {} => sel'[r] = epoch'
  BY DEF Fresh
<1>1. CASE Server
  <2>1. UNCHANGED <<rows, validity, undeleted, sel, batch>>
    BY <1>1 DEF Server, Arrive, Expunge, Renumber, tableVars, localVars
  <2>2. Shown' = Shown /\ \A r \in Tasks : Pending(r)' = Pending(r)
    BY <2>1, OwnBatch DEF Shown, Cached
  <2>3. CASE epoch' # epoch
    <3>1. Cached = {} /\ \A r \in Tasks : Pending(r) = {}
      BY <2>1, <2>3 DEF FirstUndisturbed
    <3>2. QED
      BY <2>2, <3>1 DEF Faithful, Shown
  <2>4. CASE epoch' = epoch
    <3>1. \A u \in Uids : box[u] # NoMail => box'[u] = box[u]
      <4>1. ASSUME NEW m \in Mails, Arrive(m) PROVE \A u \in Uids : box[u] # NoMail => box'[u] = box[u]
        BY <4>1, ArriveEffect DEF Typed, Given
      <4>2. ~ Renumber
        BY <2>4 DEF Renumber, Typed, TypeOK
      <4>3. QED
        BY <1>1, <4>1, <4>2 DEF Server, Expunge
    <3>2. Faithful
      BY <2>1 DEF Fresh
    <3>3. ASSUME NEW u \in Shown PROVE rows[u].head = box'[u] /\ rows[u].body = box'[u]
      <4>1. u \in Uids /\ rows[u] \in [head : Mails, body : Mails, files : BOOLEAN]
        BY DEF Shown, Cached, Typed, TypeOK, Rows
      <4>2. rows[u].head = box[u] /\ rows[u].body = box[u] /\ box[u] # NoMail
        BY <3>2, <4>1, FolderSyncAssumption DEF Faithful, AsServer
      <4>3. QED
        BY <3>1, <4>1, <4>2
    <3>4. Faithful'
      BY <2>1, <2>2, <3>3 DEF Faithful, AsServer
    <3>5. QED
      BY <2>1, <2>2, <2>4, <3>4 DEF Fresh
  <2>5. QED
    BY <2>3, <2>4
<1>2. ASSUME NEW u \in Uids, DeleteLocally(u)
      PROVE  Faithful' /\ \A r \in Tasks : Pending(r)' # {} => sel'[r] = epoch'
  <2>1. /\ UNCHANGED <<epoch, box, validity, sel, batch>>
        /\ \A v \in Uids : rows'[v] \in {rows[v], NoRow}
        /\ \A v \in undeleted \ undeleted' : rows'[v] = NoRow
    BY <1>2 DEF DeleteLocally, Remove, serverVars, Typed, TypeOK
  <2>2. Faithful => Faithful'
    BY <2>1, FewerShown
  <2>3. QED
    BY <2>1, <2>2, OwnBatch DEF Fresh
<1>3. CASE Restart
  <2>1. /\ UNCHANGED <<epoch, box, rows, validity, undeleted>>
        /\ \A t \in Tasks : Pending(t)' = {}
    BY <1>3 DEF Restart, serverVars, tableVars, Pending, EmptyBox
  <2>2. QED
    BY <2>1, TableStays DEF Fresh
<1>4. CASE UNCHANGED vars
  BY <1>4, TableStays, OwnBatch DEF vars, Fresh
<1>5. ASSUME NEW t \in Tasks, StartSync(t) \/ SyncStep(t)
      PROVE  Faithful' /\ \A r \in Tasks : Pending(r)' # {} => sel'[r] = epoch'
  BY <1>5, FreshTask DEF Fresh
<1>6. QED
  BY <1>1, <1>2, <1>3, <1>4, <1>5 DEF Next

LEMMA VirginStep ==
    ASSUME {"storage", "restart"} \cap Faults = {}, Typed, Virgin, [Next]_vars
    PROVE  Virgin'
<1> SUFFICES ASSUME validity' = 0,
                    \A t \in Tasks : pc'[t] \notin {"lookup", "upsert", "attach", "save"}
             PROVE  Cached' = {}
  BY DEF Virgin
<1> USE DEF Typed, TypeOK, Virgin
<1>1. CASE UNCHANGED <<validity, pc>> /\ \A u \in Uids : rows'[u] \in {rows[u], NoRow}
  BY <1>1 DEF Cached
<1>2. CASE Server \/ UNCHANGED vars
  BY <1>1, <1>2 DEF Server, Arrive, Expunge, Renumber, tableVars, vars
<1>3. ASSUME NEW u \in Uids, DeleteLocally(u) PROVE Cached' = {}
  BY <1>1, <1>3 DEF DeleteLocally, Remove
<1>4. ASSUME NEW t \in Tasks, StartSync(t) \/ SyncStep(t) PROVE Cached' = {}
  <2>1. CASE StartSync(t) \/ Select(t) \/ ListRows(t) \/ Invalidated(t) \/ FindStart(t)
             \/ Fetch(t) \/ SyncFails(t)
    <3>1. /\ pc[t] \notin {"lookup", "upsert", "attach", "save"} /\ UNCHANGED <<validity, rows>>
          /\ \A r \in Tasks \ {t} : pc'[r] = pc[r]
      BY <2>1 DEF StartSync, Select, ListRows, Invalidated, FindStart, From, Fetch, SyncFails,
         Return, GoTo, tableVars
    <3>2. Cached = {}
      BY <3>1
    <3>3. QED
      BY <3>1, <3>2 DEF Cached
  <2>2. CASE DeleteRow(t) \/ DeleteRowFails(t)
    BY <1>1, <2>2 DEF DeleteRow, DeleteRowFails, Remove, tableVars
  <2>3. CASE Lookup(t) \/ InsertRow(t) \/ UpdateRow(t)
    BY <2>3 DEF Lookup, InsertRow, UpdateRow, NextFetch, GoTo
  <2>4. CASE StoreError(t) \/ InsertClashes(t) \/ Attach(t) \/ AttachClashes(t)
    BY <2>4 DEF StoreError, InsertClashes, Attach, AttachClashes, StoreFails, NextFetch, GoTo
  <2>5. CASE SaveState(t)
    BY <2>5 DEF SaveState, OpenInv
  <2>6. QED
    BY <1>4, <2>1, <2>2, <2>3, <2>4, <2>5 DEF SyncStep
<1>5. ~ Restart
  BY DEF Restart
<1>6. QED
  BY <1>2, <1>3, <1>4, <1>5 DEF Next

\* A request reads the folder's row when it begins, and nobody else writes it until it ends.
LEMMA RequestsKnow ==
    ASSUME Workers = {}, "restart" \notin Faults, Typed, OneAtATime, FolderValueFresh, [Next]_vars
    PROVE  FolderValueFresh'
<1> SUFFICES ASSUME NEW r \in Tasks, pc'[r] # "idle"
             PROVE  snap'[r] = validity'
  BY DEF FolderValueFresh
<1> USE DEF Typed, TypeOK, FolderValueFresh
<1>1. CASE UNCHANGED <<validity, snap>> /\ pc[r] # "idle"
  BY <1>1
<1>2. CASE Server \/ UNCHANGED vars \/ \E u \in Uids : DeleteLocally(u)
  BY <1>1, <1>2 DEF Server, Arrive, Expunge, Renumber, DeleteLocally, tableVars, localVars, vars
<1>3. ASSUME NEW t \in Tasks, StartSync(t) PROVE snap'[r] = validity'
  BY <1>3 DEF StartSync, GoTo, tableVars
<1>4. ASSUME NEW t \in Tasks, SyncFails(t) \/ SaveState(t) PROVE snap'[r] = validity'
  <2>1. /\ pc[t] # "idle" /\ pc'[t] = "idle"
        /\ \A q \in Tasks \ {t} : pc'[q] = pc[q]
    BY <1>4 DEF SyncFails, SaveState, Return, GoTo
  <2>2. pc[r] # "idle" /\ r # t
    BY <2>1
  <2>3. QED
    BY <2>1, <2>2 DEF OneAtATime
<1>5. ASSUME NEW t \in Tasks, SyncStep(t), ~ (SyncFails(t) \/ SaveState(t)) PROVE snap'[r] = validity'
  <2>1. /\ UNCHANGED <<validity, snap>> /\ pc[t] # "idle"
        /\ \A q \in Tasks \ {t} : pc'[q] = pc[q]
    BY <1>5 DEF SyncStep, Select, ListRows, DeleteRow, DeleteRowFails, Invalidated, FindStart,
       From, Fetch, Lookup, StoreError, StoreFails, UpdateRow, InsertRow, InsertClashes, Attach,
       AttachClashes, NextFetch, GoTo, tableVars
  <2>2. QED
    BY <1>1, <2>1
<1>6. ~ Restart
  BY DEF Restart
<1>7. QED
  BY <1>2, <1>3, <1>4, <1>5, <1>6 DEF Next

LEMMA EpochMatches == EpochInv => CacheMatchesServer /\ OneMailPerRow
BY DEF EpochInv, CacheMatchesServer, Faithful, AsServer, Shown

(***************************************************************************)
(* sync_folder with a UIDVALIDITY that changes as often as it may: as long  *)
(* as the syncs of a folder come one after the other, each reads the        *)
(* folder's row when it begins, and none is interrupted by an error of the  *)
(* database or the end of the process, the cache that is marked with the    *)
(* UIDVALIDITY of the server shows under each UID the message that has it   *)
(* there, rows apart that an invalidation left.                             *)
(***************************************************************************)
THEOREM RequestsMatchServer ==
    ASSUME Workers = {}, {"storage", "restart"} \cap Faults = {}
    PROVE  Spec /\ []OneAtATime => [](CacheMatchesServer /\ OneMailPerRow)
<1> DEFINE Inv == EpochInv /\ FolderValueFresh /\ Virgin
<1>1. Init => Inv
  BY EpochInit DEF Init, FolderValueFresh, Virgin, Cached
<1>2. Typed /\ Typed' /\ OneAtATime /\ OneAtATime' /\ Inv /\ [Next]_vars => Inv'
  <2> SUFFICES ASSUME Typed, Typed', OneAtATime, OneAtATime', Inv, [Next]_vars PROVE Inv'
    OBVIOUS
  <2>1. TypeOK'
    BY DEF Typed
  <2>2. Ready
    <3> SUFFICES ASSUME validity = 0, \A t \in Tasks : pc[t] \in {"idle", "select"}
                 PROVE  Faithful
      BY DEF Ready
    <3>1. Cached = {}
      BY DEF Virgin
    <3>2. QED
      BY <3>1 DEF Faithful, Shown
  <2>3. FolderValueKnown
    BY DEF FolderValueFresh, FolderValueKnown
  <2>4. EpochInv'
    BY <2>1, <2>2, <2>3, EpochStep
  <2>5. FolderValueFresh'
    BY RequestsKnow
  <2>6. QED
    BY <2>4, <2>5, VirginStep
<1>3. Spec => []Typed
  BY TypeCorrect DEF Typed
<1>4. Inv => CacheMatchesServer /\ OneMailPerRow
  BY EpochMatches
<1>5. QED
  BY <1>1, <1>2, <1>3, <1>4, PTL DEF Spec

(***************************************************************************)
(* The same with IDLE workers and whatever may fail, errors of the database *)
(* and restarts at any step included, as long as no worker goes on with a   *)
(* Folder value from before the first sync that was completed, and the      *)
(* server does not give new UIDs before that one is.                        *)
(***************************************************************************)
THEOREM RenumberedMailbox ==
    Spec /\ []OneAtATime /\ []FolderValueKnown /\ [][FirstUndisturbed]_vars
        => [](CacheMatchesServer /\ OneMailPerRow)
<1>1. Init => EpochInv /\ Fresh
  <2> SUFFICES ASSUME Init PROVE EpochInv /\ Fresh
    OBVIOUS
  <2>1. Cached = {} /\ \A t \in Tasks : Pending(t) = {}
    BY DEF Init, Cached, Pending, EmptyBox
  <2>2. QED
    BY <2>1, EpochInit DEF Fresh, Faithful, Shown
<1>2. Typed /\ Typed' /\ OneAtATime /\ OneAtATime' /\ FolderValueKnown /\ EpochInv /\ Fresh
        /\ [Next]_vars /\ [FirstUndisturbed]_vars => EpochInv' /\ Fresh'
  <2> SUFFICES ASSUME Typed, Typed', OneAtATime, OneAtATime', FolderValueKnown, EpochInv, Fresh,
                      [Next]_vars, [FirstUndisturbed]_vars
               PROVE  EpochInv' /\ Fresh'
    OBVIOUS
  <2>1. TypeOK' /\ Ready
    BY DEF Typed, Ready, Fresh
  <2>2. EpochInv'
    BY <2>1, EpochStep
  <2>3. FirstUndisturbed
    BY DEF FirstUndisturbed, vars
  <2>4. QED
    BY <2>1, <2>2, <2>3, FreshStep
<1>3. Spec => []Typed
  BY TypeCorrect DEF Typed
<1>4. QED
  BY <1>1, <1>2, <1>3, EpochMatches, PTL DEF Spec

-----------------------------------------------------------------------------
(***************************************************************************)
(* Nothing that the server has, or may still give, a UID for is passed over *)
(* in its epoch: it is cached, excused, or below a row that an invalidation *)
(* has left.                                                                *)
(***************************************************************************)
Wanted == {u \in Uids : u \in live \/ u \notin Given}
Accounted(u) == u \in Cached \/ <<epoch, u>> \in excused \/ \E v \in undeleted : u < v
NoGap == \A u \in Wanted : \A v \in Cached : u < v => Accounted(u)

\* UIDs are given from 1 on, one after the other.
Segment == \A u \in Given : \A v \in Uids : v < u => v \in Given

GapAt(t) ==
    sel[t] = epoch /\ pc[t] \notin {"list", "delete"} =>
        /\ NoGap
        /\ \A v \in Pending(t) : \A u \in Wanted \ Pending(t) : u < v => Accounted(u)
        /\ pc[t] = "fetch" => \A u \in Wanted : u < start[t] => Accounted(u)

GapEpoch ==
    /\ Segment
    /\ validity = epoch => NoGap
    /\ \A t \in Tasks : GapAt(t)
    /\ \A t \in Tasks : pc[t] \in {"list", "delete"} => validity \notin {0, epoch}

GapReady == validity = 0 /\ (\A t \in Tasks : pc[t] \in {"idle", "select"}) => NoGap

\* What is accounted for stays so, and nothing new is wanted or cached.
LEMMA NoGapKept ==
    ASSUME Wanted' \subseteq Wanted, \A u \in Wanted : Accounted(u) => Accounted(u)',
           Cached' \subseteq Cached
    PROVE  /\ NoGap => NoGap'
           /\ \A t \in Tasks :
                /\ epoch' = epoch /\ sel'[t] = sel[t] /\ Pending(t)' = Pending(t)
                /\ pc'[t] \notin {"list", "delete"} => pc[t] \notin {"list", "delete"}
                /\ pc'[t] = "fetch" => pc[t] = "fetch" /\ start'[t] = start[t]
                => (GapAt(t) => GapAt(t)')
<1>1. NoGap => NoGap'
  BY DEF NoGap
<1>2. ASSUME NEW t \in Tasks, epoch' = epoch, sel'[t] = sel[t], Pending(t)' = Pending(t),
             pc'[t] \notin {"list", "delete"} => pc[t] \notin {"list", "delete"},
             pc'[t] = "fetch" => pc[t] = "fetch" /\ start'[t] = start[t],
             GapAt(t), sel'[t] = epoch', pc'[t] \notin {"list", "delete"}
      PROVE  /\ NoGap'
             /\ \A v \in Pending(t)' : \A u \in Wanted' \ Pending(t)' : u < v => Accounted(u)'
             /\ pc'[t] = "fetch" => \A u \in Wanted' : u < start'[t] => Accounted(u)'
  <2>1. /\ NoGap
        /\ \A v \in Pending(t) : \A u \in Wanted \ Pending(t) : u < v => Accounted(u)
        /\ pc[t] = "fetch" => \A u \in Wanted : u < start[t] => Accounted(u)
    BY <1>2 DEF GapAt
  <2>2. QED
    BY <1>1, <1>2, <2>1
<1>3. QED
  BY <1>1, <1>2 DEF GapAt

\* Steps that leave the table and the mailbox alone.
LEMMA SameGap ==
    ASSUME UNCHANGED <<epoch, box, live, rows, excused, undeleted>>
    PROVE  /\ Wanted' = Wanted /\ Cached' = Cached /\ Segment' = Segment /\ NoGap' = NoGap
           /\ \A u : Accounted(u)' = Accounted(u)
BY DEF Wanted, Given, Cached, Accounted, NoGap, Segment

LEMMA IdleGap ==
    ASSUME TypeOK', EpochInv', NEW t \in Tasks, sel'[t] = 0 \/ pc'[t] = "idle"
    PROVE  GapAt(t)'
<1>1. sel'[t] = 0 /\ epoch' # 0
  BY DEF EpochInv, InEpoch, TypeOK
<1>2. QED
  BY <1>1 DEF GapAt

\* What a step of one task has to keep.
LEMMA AloneGap ==
    ASSUME TypeOK', OneAtATime, EpochInv', NEW t \in Tasks, pc[t] # "idle",
           \A r \in Tasks \ {t} : pc'[r] = pc[r],
           Segment', validity' = epoch' => NoGap', GapAt(t)',
           pc'[t] \in {"list", "delete"} => validity' \notin {0, epoch'}
    PROVE  GapEpoch'
<1>1. \A r \in Tasks \ {t} : pc'[r] = "idle"
  BY DEF OneAtATime
<1>2. \A r \in Tasks : GapAt(r)'
  BY <1>1, IdleGap
<1>3. QED
  BY <1>1, <1>2 DEF GapEpoch

LEMMA SegmentType ==
    ASSUME TypeOK
    PROVE  Given \subseteq Uids /\ Uids \subseteq Nat /\ epoch \in Nat /\ epoch # 0 /\ validity \in Nat
BY DEF TypeOK, Given, Uids

LEMMA ArriveGap ==
    ASSUME Typed, GapEpoch, NEW m \in Mails, Arrive(m)
    PROVE  Segment' /\ Wanted' = Wanted
<1> DEFINE n == Top(Given) + 1
<1>1. TypeOK /\ Given \subseteq Uids
  BY DEF Typed, Given
<1>2. /\ n \in Uids \ Given /\ live' = live \cup {n} /\ (\A u \in Given : u < n)
      /\ (\A u \in Uids \ {n} : box'[u] = box[u]) /\ box'[n] = m
  BY <1>1, ArriveEffect
<1>3. Given' = Given \cup {n}
  <2>1. box'[n] # NoMail
    BY <1>2
  <2>2. QED
    BY <1>2, <2>1 DEF Given
<1>4. Wanted' = Wanted
  BY <1>2, <1>3 DEF Wanted
<1>5. ASSUME NEW v \in Uids, v < n PROVE v \in Given
  <2>1. Top(Given) \in Nat /\ v \in Nat /\ 0 < v
    BY <1>1, TopIsMax DEF Uids
  <2>2. v <= Top(Given) /\ Top(Given) # 0
    BY <1>5, <2>1
  <2>3. Top(Given) \in Given
    BY <1>1, <2>2, TopIsMax DEF Top
  <2>4. v = Top(Given) \/ v < Top(Given)
    BY <2>1, <2>2
  <2>5. QED
    BY <2>3, <2>4 DEF GapEpoch, Segment
<1>6. Segment'
  BY <1>3, <1>5 DEF GapEpoch, Segment
<1>7. QED
  BY <1>4, <1>6

LEMMA RenumberGap ==
    ASSUME Typed, Renumber
    PROVE  Segment'
<1>1. live' \subseteq Given' /\ live' \subseteq Uids
  BY RenumberType DEF Typed
<1>2. live' = 1..Cardinality(live)
  BY DEF Renumber
<1>3. Given' \subseteq live'
  <2>1. PICK order \in [live' -> live] :
          box' = [u \in Uids |-> IF u \in live' THEN box[order[u]] ELSE NoMail]
    BY DEF Renumber
  <2>2. QED
    BY <2>1 DEF Given
<1>4. ASSUME NEW u \in live', NEW v \in Uids, v < u PROVE v \in live'
  <2>1. IsFiniteSet(live)
    <3>1. IsFiniteSet(Uids) /\ live \subseteq Uids
      BY FS_Interval DEF Uids, Typed, TypeOK
    <3>2. QED
      BY <3>1, FS_Subset
  <2>2. Cardinality(live) \in Nat
    BY <2>1, FS_CardinalityType
  <2>3. QED
    BY <1>2, <1>4, <2>2 DEF Uids
<1>5. QED
  BY <1>1, <1>3, <1>4 DEF Segment

LEMMA ServerGap ==
    ASSUME Typed, TypeOK', EpochInv, EpochInv', GapEpoch, Server
    PROVE  GapEpoch' /\ (NoGap /\ epoch' = epoch => NoGap')
<1>1. UNCHANGED <<rows, validity, pc, snap, sel, start, batch, excused, undeleted>>
  BY DEF Server, Arrive, Expunge, Renumber, tableVars, localVars
<1>2. Cached' = Cached /\ \A t \in Tasks : Pending(t)' = Pending(t)
  BY <1>1, OwnBatch DEF Cached
<1>3. CASE epoch' = epoch /\ Segment' /\ Wanted' \subseteq Wanted
  <2>1. \A u : Accounted(u)' = Accounted(u)
    BY <1>1, <1>2, <1>3 DEF Accounted
  <2>2. (NoGap => NoGap') /\ \A t \in Tasks : GapAt(t)'
    BY <1>1, <1>2, <1>3, <2>1, NoGapKept DEF GapEpoch
  <2>3. QED
    BY <1>1, <1>3, <2>2 DEF GapEpoch
<1>4. ASSUME NEW u \in Uids, Expunge(u) PROVE epoch' = epoch /\ Segment' /\ Wanted' \subseteq Wanted
  BY <1>4 DEF Expunge, GapEpoch, Segment, Given, Wanted
<1>5. ASSUME NEW m \in Mails, Arrive(m) PROVE epoch' = epoch /\ Segment' /\ Wanted' \subseteq Wanted
  BY <1>5, ArriveGap DEF Arrive
<1>6. CASE Renumber
  <2>1. epoch' = epoch + 1 /\ Segment'
    BY <1>6, RenumberGap DEF Renumber
  <2>2. ASSUME NEW t \in Tasks PROVE GapAt(t)'
    <3>1. sel'[t] # epoch'
      BY <1>1, <2>1, EpochTypes DEF EpochInv, InEpoch, Typed
    <3>2. QED
      BY <3>1 DEF GapAt
  <2>3. validity' # epoch'
    BY <1>1, <2>1, EpochTypes DEF EpochInv, Typed
  <2>4. \A t \in Tasks : pc'[t] \in {"list", "delete"} => validity' # 0
    BY <1>1 DEF GapEpoch
  <2>5. epoch' # epoch
    BY <2>1, EpochTypes DEF Typed
  <2>6. QED
    BY <2>1, <2>2, <2>3, <2>4, <2>5 DEF GapEpoch
<1>7. QED
  BY <1>3, <1>4, <1>5, <1>6 DEF Server

\* The row that goes, and all below it if an invalidation had left it, are excused.
LEMMA DeletedGap ==
    ASSUME Typed, TypeOK', GapEpoch, NEW d \in Uids, DeleteLocally(d)
    PROVE  GapEpoch' /\ (NoGap => NoGap')
<1>1. /\ UNCHANGED <<epoch, box, live, validity, pc, sel, start, batch>>
      /\ rows' = [rows EXCEPT ![d] = NoRow] /\ undeleted' = undeleted \ {d}
  BY DEF DeleteLocally, Remove, serverVars
<1>2. /\ Cached' = Cached \ {d} /\ Wanted' = Wanted /\ Segment' = Segment
      /\ \A t \in Tasks : Pending(t)' = Pending(t)
  BY <1>1, OwnBatch DEF Cached, Wanted, Given, Segment, Typed, TypeOK
<1>3. ASSUME NEW u \in Wanted, Accounted(u) PROVE Accounted(u)'
  <2>1. /\ excused \subseteq excused' /\ <<epoch, d>> \in excused'
        /\ d \in undeleted => \A v \in Uids : v <= d => <<epoch, v>> \in excused'
    BY DeleteExcuses DEF Typed
  <2>2. CASE u \in Cached \/ <<epoch, u>> \in excused
    BY <1>1, <1>2, <2>1, <2>2 DEF Accounted
  <2>3. ASSUME NEW v \in undeleted, u < v PROVE Accounted(u)'
    <3>1. CASE v = d
      <4>1. u \in Uids /\ u <= d
        BY <2>3, <3>1 DEF Wanted, Uids
      <4>2. QED
        BY <1>1, <2>1, <3>1, <4>1 DEF Accounted
    <3>2. CASE v # d
      BY <1>1, <2>3, <3>2 DEF Accounted
    <3>3. QED
      BY <3>1, <3>2
  <2>4. QED
    BY <1>3, <2>2, <2>3 DEF Accounted
<1>4. (NoGap => NoGap') /\ \A t \in Tasks : GapAt(t)'
  BY <1>1, <1>2, <1>3, NoGapKept DEF GapEpoch
<1>5. QED
  BY <1>1, <1>2, <1>4 DEF GapEpoch

\* Selecting the folder: what is cached then is of the epoch the folder is marked with, or
\* it is listed to be deleted.
LEMMA SelectGap ==
    ASSUME Typed, TypeOK', OneAtATime, FolderValueFresh, GapReady, EpochInv, EpochInv', GapEpoch,
           NEW t \in Tasks, Select(t)
    PROVE  GapEpoch'
<1>1. /\ pc[t] = "select" /\ sel' = [sel EXCEPT ![t] = epoch]
      /\ UNCHANGED <<epoch, box, live, rows, validity, excused, undeleted, batch>>
      /\ pc' = [pc EXCEPT ![t] = IF snap[t] \notin {0, epoch} THEN "list" ELSE "max"]
  BY DEF Select, GoTo, serverVars, tableVars
<1>2. Wanted' = Wanted /\ Cached' = Cached /\ Segment' /\ NoGap' = NoGap
  BY <1>1, SameGap DEF GapEpoch
<1>3. snap[t] = validity
  BY <1>1 DEF FolderValueFresh
<1>4. /\ \A r \in Tasks \ {t} : pc'[r] = pc[r]
      /\ pc'[t] = IF validity \notin {0, epoch} THEN "list" ELSE "max"
  BY <1>1, <1>3 DEF Typed, TypeOK
<1>5. validity \in {0, epoch} => NoGap
  <2>1. CASE validity = 0
    <3>1. \A r \in Tasks : pc[r] \in {"idle", "select"}
      BY <1>1 DEF OneAtATime
    <3>2. QED
      BY <2>1, <3>1 DEF GapReady
  <2>2. CASE validity = epoch
    BY <2>2 DEF GapEpoch
  <2>3. QED
    BY <2>1, <2>2
<1>6. Pending(t)' = {}
  BY <1>4 DEF EpochInv, InEpoch
<1>7. GapAt(t)'
  BY <1>2, <1>4, <1>5, <1>6 DEF GapAt
<1>8. QED
  BY <1>1, <1>2, <1>4, <1>5, <1>7, AloneGap

\* While rows are listed and deleted, the folder is marked with an epoch that is over.
LEMMA InvalidateGap ==
    ASSUME Typed, TypeOK', OneAtATime, EpochInv', GapEpoch, NEW t \in Tasks,
           ListRows(t) \/ DeleteRow(t) \/ DeleteRowFails(t)
    PROVE  GapEpoch'
<1>1. /\ pc[t] \in {"list", "delete"} /\ UNCHANGED <<epoch, box, live, validity>>
      /\ pc' = [pc EXCEPT ![t] = "delete"]
  BY DEF ListRows, DeleteRow, DeleteRowFails, GoTo, serverVars, tableVars, Typed, TypeOK
<1>2. pc'[t] = "delete" /\ \A r \in Tasks \ {t} : pc'[r] = pc[r]
  BY <1>1 DEF Typed, TypeOK
<1>3. validity' \notin {0, epoch'} /\ Segment'
  BY <1>1 DEF GapEpoch, Segment, Given
<1>4. GapAt(t)'
  BY <1>2 DEF GapAt
<1>5. QED
  BY <1>1, <1>2, <1>3, <1>4, AloneGap

\* After an invalidation all that is cached are rows it has left.
LEMMA InvalidatedGap ==
    ASSUME Typed, TypeOK', OneAtATime, EpochInv, EpochInv', GapEpoch, NEW t \in Tasks,
           Invalidated(t)
    PROVE  GapEpoch'
<1>1. /\ pc[t] = "delete" /\ doomed[t] = {}
      /\ UNCHANGED <<epoch, box, live, rows, validity, excused, undeleted>>
      /\ start' = [start EXCEPT ![t] = 1]
      /\ \E where \in {"fetch", "save"} : pc' = [pc EXCEPT ![t] = where]
  BY DEF Invalidated, From, GoTo, serverVars, tableVars
<1>2. /\ pc'[t] \in {"fetch", "save"} /\ start'[t] = 1
      /\ \A r \in Tasks \ {t} : pc'[r] = pc[r]
  BY <1>1 DEF Typed, TypeOK
<1>3. Wanted' = Wanted /\ Segment' /\ NoGap' = NoGap
  BY <1>1, SameGap DEF GapEpoch
<1>4. Cached \subseteq undeleted
  BY <1>1 DEF EpochInv, InEpoch, Shown
<1>5. NoGap
  BY <1>4 DEF NoGap, Accounted
<1>6. Pending(t)' = {}
  BY <1>2 DEF EpochInv, InEpoch
<1>7. \A u \in Wanted' : ~ (u < start'[t])
  BY <1>2 DEF Wanted, Uids
<1>8. GapAt(t)'
  BY <1>3, <1>5, <1>6, <1>7 DEF GapAt
<1>9. QED
  BY <1>1, <1>2, <1>3, <1>5, <1>8, AloneGap

LEMMA FindStartGap ==
    ASSUME Typed, TypeOK', OneAtATime, EpochInv, EpochInv', GapEpoch, NEW t \in Tasks, FindStart(t)
    PROVE  GapEpoch'
<1>1. /\ pc[t] = "max"
      /\ UNCHANGED <<epoch, box, live, rows, validity, excused, undeleted, sel, batch>>
      /\ start' = [start EXCEPT ![t] = Top(Cached) + 1]
      /\ \E where \in {"fetch", "save"} : pc' = [pc EXCEPT ![t] = where]
  BY DEF FindStart, From, GoTo, serverVars, tableVars
<1>2. /\ pc'[t] \in {"fetch", "save"} /\ start'[t] = Top(Cached) + 1
      /\ \A r \in Tasks \ {t} : pc'[r] = pc[r]
  BY <1>1 DEF Typed, TypeOK
<1>3. /\ Wanted' = Wanted /\ Segment' /\ NoGap' = NoGap
      /\ \A u : Accounted(u)' = Accounted(u)
  BY <1>1, SameGap DEF GapEpoch
<1>4. Pending(t)' = {}
  BY <1>2 DEF EpochInv, InEpoch
<1>5. ASSUME NoGap, NEW u \in Wanted, u < Top(Cached) + 1 PROVE Accounted(u)
  <2>1. u \in Nat /\ 0 < u
    BY DEF Wanted, Uids
  <2>2. /\ Top(Cached) \in Nat
        /\ Cached # {} => Top(Cached) \in Cached
        /\ Cached = {} => Top(Cached) = 0
    <3>1. Cached \subseteq Uids
      BY DEF Cached
    <3>2. QED
      BY <3>1, TopIsMax DEF Top
  <2>3. Top(Cached) \in Cached /\ (u = Top(Cached) \/ u < Top(Cached))
    BY <1>5, <2>1, <2>2
  <2>4. QED
    BY <1>5, <2>3 DEF NoGap, Accounted
<1>6. sel[t] = epoch => NoGap
  BY <1>1 DEF GapEpoch, GapAt
<1>7. GapAt(t)'
  <2> SUFFICES ASSUME sel[t] = epoch PROVE GapAt(t)'
    BY <1>1 DEF GapAt
  <2>1. NoGap' /\ \A u \in Wanted' : u < start'[t] => Accounted(u)'
    BY <1>2, <1>3, <1>5, <1>6
  <2>2. QED
    BY <1>4, <2>1 DEF GapAt
<1>8. validity' = epoch' => NoGap'
  BY <1>1, <1>3 DEF GapEpoch
<1>9. QED
  BY <1>1, <1>2, <1>3, <1>7, <1>8, AloneGap

LEMMA FetchGap ==
    ASSUME Typed, TypeOK', OneAtATime, EpochInv', GapEpoch, NEW t \in Tasks, Fetch(t)
    PROVE  GapEpoch'
<1>1. /\ pc[t] = "fetch" /\ sel[t] = epoch
      /\ UNCHANGED <<epoch, box, live, rows, validity, excused, undeleted>>
      /\ \E where \in {"lookup", "save"} : pc' = [pc EXCEPT ![t] = where]
  BY DEF Fetch, GoTo, serverVars, tableVars
<1>2. pc'[t] \in {"lookup", "save"} /\ \A r \in Tasks \ {t} : pc'[r] = pc[r]
  BY <1>1 DEF Typed, TypeOK
<1>3. /\ Wanted' = Wanted /\ Segment' /\ NoGap' = NoGap
      /\ \A u : Accounted(u)' = Accounted(u)
  BY <1>1, SameGap DEF GapEpoch
<1>4. Pending(t)' = {u \in live : u >= start[t]}
  <2>1. \A u \in live : u \in Uids /\ box[u] # NoMail
    BY DEF Typed, LiveInv, Given
  <2>2. \A u \in Uids : batch'[t][u] = IF u \in live /\ u >= start[t] THEN box[u] ELSE NoMail
    BY DEF Fetch, Typed, TypeOK
  <2>3. QED
    BY <2>1, <2>2 DEF Pending
<1>5. ASSUME NEW v \in Pending(t)', NEW u \in Wanted \ Pending(t)', u < v PROVE Accounted(u)
  <2>1. u \in Uids /\ u \in Nat /\ start[t] \in Nat /\ v \in Given
    <3>1. u \in Uids /\ u \in Nat
      BY DEF Wanted, Uids
    <3>2. start[t] \in Nat
      BY DEF Typed, TypeOK
    <3>3. v \in Given
      BY <1>4 DEF Typed, LiveInv
    <3>4. QED
      BY <3>1, <3>2, <3>3
  <2>2. u \in live
    BY <1>5, <2>1 DEF GapEpoch, Segment, Wanted
  <2>3. u < start[t]
    BY <1>4, <1>5, <2>1, <2>2
  <2>4. QED
    BY <1>1, <2>3 DEF GapEpoch, GapAt
<1>6. NoGap
  BY <1>1 DEF GapEpoch, GapAt
<1>7. GapAt(t)'
  BY <1>2, <1>3, <1>5, <1>6 DEF GapAt
<1>8. QED
  BY <1>1, <1>2, <1>3, <1>6, <1>7, AloneGap

\* One message leaves the batch, or is about to, and is cached or excused: the others are
\* above it.
LEMMA StoreGap ==
    ASSUME TypeOK, NEW t \in Tasks, Pending(t) # {}, NEW at \in Uids, at = At(t),
           GapAt(t), sel[t] = epoch, pc[t] \notin {"list", "delete"}, pc'[t] # "fetch",
           UNCHANGED <<epoch, box, live, undeleted>>, excused \subseteq excused',
           Cached \subseteq Cached', Cached' \subseteq Cached \cup {at}, Accounted(at)',
           Pending(t)' \subseteq Pending(t), Pending(t) \subseteq Pending(t)' \cup {at}
    PROVE  NoGap' /\ GapAt(t)'
<1>1. at \in Pending(t) /\ \A u \in Pending(t) : at <= u
  BY AtIsMin
<1>2. Wanted' = Wanted /\ \A u : Accounted(u) => Accounted(u)'
  BY DEF Wanted, Given, Accounted
<1>3. /\ NoGap
      /\ \A v \in Pending(t) : \A u \in Wanted \ Pending(t) : u < v => Accounted(u)
  BY DEF GapAt
<1>4. ASSUME NEW u \in Wanted, u < at PROVE Accounted(u)
  <2>1. u \in Nat /\ at \in Nat
    BY DEF Wanted, Uids
  <2>2. u \notin Pending(t)
    BY <1>1, <1>4, <2>1
  <2>3. QED
    BY <1>1, <1>3, <1>4, <2>2
<1>5. NoGap'
  BY <1>2, <1>3, <1>4 DEF NoGap
<1>6. ASSUME NEW v \in Pending(t)', NEW u \in Wanted' \ Pending(t)', u < v PROVE Accounted(u)'
  <2>1. CASE u = at
    BY <2>1
  <2>2. CASE u # at
    BY <1>2, <1>3, <1>6, <2>2
  <2>3. QED
    BY <2>1, <2>2
<1>7. QED
  BY <1>5, <1>6 DEF GapAt

\* The steps of the loop, whatever becomes of the message.
LEMMA LoopGap ==
    ASSUME Typed, TypeOK', OneAtATime, EpochInv, EpochInv', GapEpoch, NEW t \in Tasks,
           \/ StoreError(t) \/ InsertClashes(t) \/ AttachClashes(t)
           \/ UpdateRow(t) \/ InsertRow(t) \/ Attach(t)
    PROVE  GapEpoch'
<1>1. /\ pc[t] \in {"lookup", "upsert", "attach"} /\ Pending(t) # {}
      /\ UNCHANGED <<epoch, box, live, validity, sel, undeleted>>
  BY DEF StoreError, InsertClashes, AttachClashes, StoreFails, UpdateRow, InsertRow, Attach,
     serverVars, tableVars, Typed, BusyInv
<1>2. PICK at \in Uids : at = At(t) /\ at \in Pending(t)
  BY <1>1, AtIsMin
<1>3. /\ Pending(t)' \subseteq Pending(t) /\ Pending(t) \subseteq Pending(t)' \cup {at}
      /\ pc'[t] \in {"lookup", "attach", "save"}
      /\ \A r \in Tasks \ {t} : pc'[r] = pc[r]
  <2>1. NextFetch(t) \/ (pc' = [pc EXCEPT ![t] = "attach"] /\ batch' = batch)
    BY DEF StoreError, InsertClashes, AttachClashes, StoreFails, UpdateRow, InsertRow, Attach, GoTo
  <2>2. CASE NextFetch(t)
    BY <1>1, <1>2, <2>2, NextFetchEffect DEF Typed
  <2>3. CASE pc' = [pc EXCEPT ![t] = "attach"] /\ batch' = batch
    BY <2>3, OwnBatch DEF Typed, TypeOK
  <2>4. QED
    BY <2>1, <2>2, <2>3
<1>4. /\ Cached \subseteq Cached' /\ Cached' \subseteq Cached \cup {at}
      /\ excused \subseteq excused'
      /\ sel[t] = epoch => Accounted(at)'
  <2>1. CASE StoreError(t) \/ InsertClashes(t) \/ AttachClashes(t)
    <3>1. rows' = rows /\ excused' = excused \cup {<<sel[t], at>>}
      BY <1>2, <2>1 DEF StoreError, InsertClashes, AttachClashes, StoreFails, tableVars
    <3>2. QED
      BY <1>1, <3>1 DEF Cached, Accounted
  <2>2. CASE UpdateRow(t) \/ InsertRow(t) \/ Attach(t)
    <3>1. /\ excused' = excused /\ rows'[at] # NoRow
          /\ \A u \in Uids \ {at} : rows'[u] = rows[u]
      BY <1>2, <2>2, StoreShown DEF UpdateRow, InsertRow, Attach
    <3>2. Cached' = Cached \cup {at}
      BY <3>1 DEF Cached
    <3>3. QED
      BY <3>1, <3>2 DEF Accounted
  <2>3. QED
    BY <2>1, <2>2
<1>5. CASE sel[t] = epoch
  <2>1. GapAt(t)
    BY DEF GapEpoch
  <2>2. NoGap' /\ GapAt(t)'
    BY <1>1, <1>2, <1>3, <1>4, <1>5, <2>1, StoreGap DEF Typed
  <2>3. Segment'
    BY <1>1 DEF GapEpoch, Segment, Given
  <2>4. QED
    BY <1>1, <1>3, <2>2, <2>3, AloneGap
<1>6. CASE sel[t] # epoch
  <2>1. GapAt(t)' /\ Segment'
    BY <1>1, <1>6 DEF GapAt, GapEpoch, Segment, Given
  <2>2. validity # epoch
    <3>1. sel[t] # 0
      BY <1>1 DEF Typed, OpenInv
    <3>2. validity <= sel[t] /\ sel[t] <= epoch
      BY <3>1 DEF EpochInv, InEpoch
    <3>3. QED
      BY <1>6, <3>2, EpochTypes DEF Typed
  <2>3. QED
    BY <1>1, <1>3, <2>1, <2>2, AloneGap
<1>7. QED
  BY <1>5, <1>6

\* A task begins, looks a row up, or ends.
LEMMA OtherGap ==
    ASSUME Typed, TypeOK', OneAtATime, OneAtATime', EpochInv, EpochInv', GapEpoch, NEW t \in Tasks,
           StartSync(t) \/ Lookup(t) \/ SyncFails(t) \/ SaveState(t)
    PROVE  GapEpoch'
<1>1. UNCHANGED <<epoch, box, live, rows, excused, undeleted>>
  BY DEF StartSync, Lookup, SyncFails, SaveState, serverVars, tableVars
<1>2. /\ Wanted' = Wanted /\ Cached' = Cached /\ Segment' /\ NoGap' = NoGap
      /\ \A u : Accounted(u)' = Accounted(u)
  BY <1>1, SameGap DEF GapEpoch
<1>3. CASE StartSync(t)
  <2>1. pc'[t] = "select" /\ validity' = validity /\ sel' = sel
    BY <1>3 DEF StartSync, GoTo, tableVars, Typed, TypeOK
  <2>2. \A r \in Tasks \ {t} : pc'[r] = "idle"
    BY <2>1 DEF OneAtATime
  <2>3. sel'[t] = 0
    BY <1>3, <2>1 DEF StartSync, EpochInv, InEpoch
  <2>4. \A r \in Tasks : GapAt(r)'
    BY <2>2, <2>3, IdleGap
  <2>5. QED
    BY <1>1, <1>2, <2>1, <2>2, <2>4 DEF GapEpoch
<1>4. CASE Lookup(t)
  <2>1. /\ pc[t] = "lookup" /\ pc'[t] = "upsert" /\ UNCHANGED <<validity, sel, start, batch>>
        /\ \A r \in Tasks \ {t} : pc'[r] = pc[r]
    BY <1>4 DEF Lookup, GoTo, tableVars, Typed, TypeOK
  <2>2. GapAt(t)'
    BY <1>1, <1>2, <2>1, OwnBatch, NoGapKept DEF GapEpoch
  <2>3. QED
    BY <1>1, <1>2, <2>1, <2>2, AloneGap DEF GapEpoch
<1>5. CASE SyncFails(t) \/ SaveState(t)
  <2>1. /\ pc[t] # "idle" /\ Return(t)
        /\ validity' = validity \/ (validity' = sel[t] /\ pc[t] = "save")
    BY <1>5 DEF SyncFails, SaveState, tableVars
  <2>2. pc'[t] = "idle" /\ \A r \in Tasks \ {t} : pc'[r] = pc[r]
    BY <2>1, ReturnEffect DEF Typed, TypeOK
  <2>3. validity' = epoch => NoGap
    BY <2>1 DEF GapEpoch, GapAt
  <2>4. GapAt(t)'
    BY <2>2, IdleGap
  <2>5. QED
    BY <1>1, <1>2, <2>1, <2>2, <2>3, <2>4, AloneGap
<1>6. QED
  BY <1>3, <1>4, <1>5

LEMMA GapEpochStep ==
    ASSUME Typed, TypeOK', OneAtATime, OneAtATime', FolderValueFresh, GapReady,
           EpochInv, EpochInv', GapEpoch, [Next]_vars
    PROVE  GapEpoch'
<1>1. ASSUME NEW t \in Tasks, StartSync(t) \/ SyncStep(t) PROVE GapEpoch'
  BY <1>1, SelectGap, InvalidateGap, InvalidatedGap, FindStartGap, FetchGap, LoopGap, OtherGap
  DEF SyncStep
<1>2. CASE Restart
  <2>1. /\ UNCHANGED <<epoch, box, live, rows, validity, undeleted>> /\ excused \subseteq excused'
        /\ \A t \in Tasks : pc'[t] = "idle"
    BY <1>2 DEF Restart, serverVars, tableVars
  <2>2. Wanted' = Wanted /\ Cached' = Cached /\ \A u : Accounted(u) => Accounted(u)'
    BY <2>1 DEF Wanted, Given, Cached, Accounted
  <2>3. NoGap => NoGap'
    BY <2>2, NoGapKept
  <2>4. \A t \in Tasks : GapAt(t)'
    BY <2>1, IdleGap
  <2>5. QED
    BY <2>1, <2>3, <2>4 DEF GapEpoch, Segment, Given
<1>3. CASE UNCHANGED vars
  <2>1. /\ Wanted' = Wanted /\ Cached' = Cached /\ Segment' /\ NoGap' = NoGap
        /\ \A u : Accounted(u)' = Accounted(u)
    BY <1>3, SameGap DEF vars, GapEpoch
  <2>2. \A t \in Tasks : GapAt(t)'
    BY <1>3, <2>1, OwnBatch, NoGapKept DEF vars, GapEpoch
  <2>3. QED
    BY <1>3, <2>1, <2>2 DEF vars, GapEpoch
<1>4. QED
  BY <1>1, <1>2, <1>3, ServerGap, DeletedGap DEF Next

\* Before the first sync is completed, too, if the mailbox is not rebuilt by then.
FreshGap == validity = 0 => NoGap

LEMMA FreshGapStep ==
    ASSUME Typed, Fresh, FirstUndisturbed, TypeOK', EpochInv, EpochInv', GapEpoch, GapEpoch',
           FreshGap, [Next]_vars
    PROVE  FreshGap'
<1> SUFFICES ASSUME validity' = 0 PROVE NoGap'
  BY DEF FreshGap
<1>1. CASE UNCHANGED <<epoch, box, live, rows, validity, excused, undeleted>>
  BY <1>1, SameGap DEF FreshGap
<1>2. CASE Server
  <2>1. CASE epoch' = epoch
    <3>1. validity' = validity
      BY <1>2 DEF Server, Arrive, Expunge, Renumber, tableVars
    <3>2. QED
      BY <1>2, <2>1, <3>1, ServerGap DEF FreshGap
  <2>2. CASE epoch' # epoch
    <3>1. UNCHANGED <<rows, validity>>
      BY <1>2 DEF Server, Arrive, Expunge, Renumber, tableVars
    <3>2. Cached' = {}
      BY <2>2, <3>1 DEF FirstUndisturbed, Cached
    <3>3. QED
      BY <3>2 DEF NoGap
  <2>3. QED
    BY <2>1, <2>2
<1>3. ASSUME NEW u \in Uids, DeleteLocally(u) PROVE NoGap'
  BY <1>3, DeletedGap DEF DeleteLocally, FreshGap
<1>4. CASE Restart
  <2>1. /\ UNCHANGED <<epoch, box, live, rows, validity, undeleted>> /\ excused \subseteq excused'
    BY <1>4 DEF Restart, serverVars, tableVars
  <2>2. Wanted' = Wanted /\ Cached' = Cached /\ \A u : Accounted(u) => Accounted(u)'
    BY <2>1 DEF Wanted, Given, Cached, Accounted
  <2>3. QED
    BY <2>1, <2>2, NoGapKept DEF FreshGap
<1>5. ASSUME NEW t \in Tasks, StartSync(t) \/ SyncStep(t) PROVE NoGap'
  <2>1. CASE \/ StartSync(t) \/ Select(t) \/ Invalidated(t) \/ FindStart(t) \/ Fetch(t)
             \/ SyncFails(t) \/ Lookup(t)
    BY <1>1, <2>1 DEF StartSync, Select, Invalidated, FindStart, From, Fetch, SyncFails, Lookup,
       serverVars, tableVars
  <2>2. CASE ListRows(t) \/ DeleteRow(t) \/ DeleteRowFails(t)
    <3>1. pc[t] \in {"list", "delete"} /\ validity = 0
      BY <2>2 DEF ListRows, DeleteRow, DeleteRowFails, tableVars
    <3>2. QED
      BY <3>1 DEF GapEpoch
  <2>3. CASE SaveState(t)
    BY <2>3 DEF SaveState, Typed, OpenInv
  <2>4. CASE \/ StoreError(t) \/ InsertClashes(t) \/ AttachClashes(t)
             \/ UpdateRow(t) \/ InsertRow(t) \/ Attach(t)
    <3>1. /\ pc[t] \in {"lookup", "upsert", "attach"} /\ Pending(t) # {}
          /\ UNCHANGED <<epoch, validity, sel>>
          /\ NextFetch(t) \/ pc' = [pc EXCEPT ![t] = "attach"]
      BY <2>4 DEF StoreError, InsertClashes, AttachClashes, StoreFails, UpdateRow, InsertRow,
         Attach, GoTo, serverVars, tableVars, Typed, BusyInv
    <3>2. pc'[t] \notin {"list", "delete"}
      BY <3>1, NextFetchEffect DEF Typed, TypeOK
    <3>3. sel'[t] = epoch'
      BY <3>1 DEF Fresh
    <3>4. GapAt(t)'
      BY DEF GapEpoch
    <3>5. QED
      BY <3>2, <3>3, <3>4 DEF GapAt
  <2>5. QED
    BY <1>5, <2>1, <2>2, <2>3, <2>4 DEF SyncStep
<1>6. QED
  BY <1>1, <1>2, <1>3, <1>4, <1>5 DEF Next, vars

LEMMA GapEpochInit == Init => GapEpoch
<1> SUFFICES ASSUME Init PROVE GapEpoch
  OBVIOUS
<1>1. Cached = {} /\ Given = {} /\ \A t \in Tasks : sel[t] # epoch /\ pc[t] = "idle"
  BY DEF Init, Cached, Given, EmptyBox
<1>2. QED
  BY <1>1 DEF GapEpoch, NoGap, GapAt, Segment

LEMMA GapEpochSkips == Typed /\ GapEpoch => NoSilentGap
<1> SUFFICES ASSUME Typed, GapEpoch, validity = epoch, NEW u \in live \ Cached, u < Top(Cached)
             PROVE  <<epoch, u>> \in excused \/ \E v \in undeleted : u < v
  BY DEF NoSilentGap
<1>1. Cached \subseteq Uids /\ u \in Wanted /\ u \in Nat /\ 0 < u
  BY DEF Cached, Typed, TypeOK, Uids, Wanted
<1>2. Top(Cached) \in Cached
  <2>1. Top(Cached) # 0
    BY <1>1
  <2>2. QED
    BY <1>1, <2>1, TopIsMax DEF Top
<1>3. Accounted(u)
  BY <1>1, <1>2 DEF GapEpoch, NoGap
<1>4. QED
  BY <1>3 DEF Accounted

\* Under the conditions of RequestsMatchServer, whatever UIDVALIDITY does: in a folder that is
\* marked with the UIDVALIDITY of the server no message below the highest UID cached is passed
\* over, unless an error was counted for it, the user deleted it, or a row that an invalidation
\* left is above it.
THEOREM RequestsSkipNothing ==
    ASSUME Workers = {}, {"storage", "restart"} \cap Faults = {}
    PROVE  Spec /\ []OneAtATime => []NoSilentGap
<1> DEFINE Inv == EpochInv /\ FolderValueFresh /\ Virgin /\ GapEpoch
<1>1. Init => Inv
  BY EpochInit, GapEpochInit DEF Init, FolderValueFresh, Virgin, Cached
<1>2. Typed /\ Typed' /\ OneAtATime /\ OneAtATime' /\ Inv /\ [Next]_vars => Inv'
  <2> SUFFICES ASSUME Typed, Typed', OneAtATime, OneAtATime', Inv, [Next]_vars PROVE Inv'
    OBVIOUS
  <2>1. TypeOK'
    BY DEF Typed
  <2>2. validity = 0 /\ (\A t \in Tasks : pc[t] \in {"idle", "select"}) => Cached = {}
    BY DEF Virgin
  <2>3. Ready /\ GapReady
    BY <2>2 DEF Ready, GapReady, Faithful, Shown, NoGap
  <2>4. FolderValueKnown
    BY DEF FolderValueFresh, FolderValueKnown
  <2>5. EpochInv'
    BY <2>1, <2>3, <2>4, EpochStep
  <2>6. GapEpoch'
    BY <2>1, <2>3, <2>5, GapEpochStep
  <2>7. QED
    BY <2>5, <2>6, RequestsKnow, VirginStep
<1>3. Spec => []Typed
  BY TypeCorrect DEF Typed
<1>4. Typed /\ Inv => NoSilentGap
  BY GapEpochSkips
<1>5. QED
  BY <1>1, <1>2, <1>3, <1>4, PTL DEF Spec

\* Nor with workers and whatever may fail, if each task works for the UIDVALIDITY the folder
\* has, and the server gives no new UIDs before the first sync is completed.
THEOREM RenumberedSkipsNothing ==
    Spec /\ []OneAtATime /\ []FolderValueFresh /\ [][FirstUndisturbed]_vars => []NoSilentGap
<1> DEFINE Inv == EpochInv /\ Fresh /\ GapEpoch /\ FreshGap
<1>1. Init => Inv
  <2> SUFFICES ASSUME Init PROVE Inv
    OBVIOUS
  <2>1. Cached = {} /\ \A t \in Tasks : Pending(t) = {}
    BY DEF Init, Cached, Pending, EmptyBox
  <2>2. QED
    BY <2>1, EpochInit, GapEpochInit DEF Fresh, Faithful, Shown, FreshGap, NoGap
<1>2. Typed /\ Typed' /\ OneAtATime /\ OneAtATime' /\ FolderValueFresh /\ Inv
        /\ [Next]_vars /\ [FirstUndisturbed]_vars => Inv'
  <2> SUFFICES ASSUME Typed, Typed', OneAtATime, OneAtATime', FolderValueFresh, Inv,
                      [Next]_vars, [FirstUndisturbed]_vars
               PROVE  Inv'
    OBVIOUS
  <2>1. TypeOK' /\ FirstUndisturbed /\ FolderValueKnown /\ Ready /\ GapReady
    BY DEF Typed, FirstUndisturbed, vars, FolderValueFresh, FolderValueKnown, Ready, Fresh,
       GapReady, FreshGap
  <2>2. EpochInv'
    BY <2>1, EpochStep
  <2>3. Fresh'
    BY <2>1, <2>2, FreshStep
  <2>4. GapEpoch'
    BY <2>1, <2>2, GapEpochStep
  <2>5. QED
    BY <2>1, <2>2, <2>3, <2>4, FreshGapStep
<1>3. Spec => []Typed
  BY TypeCorrect DEF Typed
<1>4. Typed /\ Inv => NoSilentGap
  BY GapEpochSkips
<1>5. QED
  BY <1>1, <1>2, <1>3, <1>4, PTL DEF Spec

\* The instance that needs no hypothesis about a behaviour: one task at a time serves the
\* requests, on its own.
THEOREM OneRequest ==
    ASSUME NEW r, Requests = {r}, Workers = {}, {"storage", "restart"} \cap Faults = {}
    PROVE  Spec => [](CacheMatchesServer /\ OneMailPerRow /\ NoSilentGap)
<1>1. OneAtATime
  BY DEF OneAtATime, Tasks
<1>2. Spec /\ []OneAtATime => [](CacheMatchesServer /\ OneMailPerRow)
  BY RequestsMatchServer
<1>3. Spec /\ []OneAtATime => []NoSilentGap
  BY RequestsSkipNothing
<1>4. QED
  BY <1>1, <1>2, <1>3, PTL

-----------------------------------------------------------------------------
(***************************************************************************)
(* Attachments: in any epoch, the row that lacks them has its excuse, or    *)
(* its task.                                                                *)
(***************************************************************************)
Bare(u) == rows[u] # NoRow /\ rows[u].body \in WithFiles /\ ~ rows[u].files

Adding(u) == \E t \in Tasks : pc[t] = "attach" /\ u = At(t)

Excused(u) == \E e \in 1..MaxEpoch : <<e, u>> \in excused

LEMMA FilesByRow == FilesAreComplete <=> \A u \in Uids : Bare(u) => Excused(u) \/ Adding(u)
BY DEF FilesAreComplete, Cached, Bare, Adding, Excused

\* What a step has to leave behind.
LEMMA FilesKept ==
    ASSUME FilesAreComplete, excused \subseteq excused',
           \A u \in Uids : Bare(u)' => Bare(u) \/ Adding(u)',
           \A u \in Uids : Bare(u)' /\ Adding(u) => Adding(u)' \/ Excused(u)'
    PROVE  FilesAreComplete'
<1>1. \A u \in Uids : Excused(u) => Excused(u)'
  BY DEF Excused
<1>2. \A u \in Uids : Bare(u)' => Excused(u)' \/ Adding(u)'
  BY <1>1, FilesByRow
<1>3. FilesAreComplete' <=> \A u \in Uids : Bare(u)' => Excused(u)' \/ Adding(u)'
  BY DEF FilesAreComplete, Cached, Bare, Adding, Excused
<1>4. QED
  BY <1>2, <1>3

\* The tasks a step of t leaves alone go on adding.
LEMMA AddingKept ==
    ASSUME NEW t \in Tasks, NEW u \in Uids, Adding(u),
           \A r \in Tasks \ {t} : pc'[r] = pc[r] /\ batch'[r] = batch[r]
    PROVE  Adding(u)' \/ (pc[t] = "attach" /\ u = At(t))
BY OwnBatch DEF Adding

LEMMA FilesStep ==
    ASSUME Typed, FilesAreComplete, [Next]_vars
    PROVE  FilesAreComplete'
<1> USE DEF Typed, TypeOK, serverVars, tableVars, localVars, GoTo
\* Rows only go, and the tasks stay where they are.
<1>1. ASSUME \A u \in Uids : rows'[u] \in {rows[u], NoRow}, UNCHANGED <<pc, batch>>,
             excused \subseteq excused'
      PROVE  FilesAreComplete'
  <2>1. \A u \in Uids : Bare(u)' => Bare(u)
    BY <1>1 DEF Bare
  <2>2. \A u \in Uids : Adding(u)' <=> Adding(u)
    BY <1>1, OwnBatch DEF Adding
  <2>3. QED
    BY <1>1, <2>1, <2>2, FilesKept
<1>2. CASE Server \/ UNCHANGED vars
  BY <1>1, <1>2 DEF Server, Arrive, Expunge, Renumber, vars
<1>3. ASSUME NEW u \in Uids, DeleteLocally(u) PROVE FilesAreComplete'
  BY <1>1, <1>3 DEF DeleteLocally, Remove
<1>4. ASSUME NEW t \in Tasks, StartSync(t) \/ SyncStep(t) PROVE FilesAreComplete'
  \* The task is not adding.
  <2>1. ASSUME UNCHANGED rows, excused \subseteq excused',
               \A r \in Tasks \ {t} : pc'[r] = pc[r] /\ batch'[r] = batch[r],
               pc[t] # "attach"
        PROVE  FilesAreComplete'
    <3>1. \A u \in Uids : Bare(u)' => Bare(u)
      BY <2>1 DEF Bare
    <3>2. \A u \in Uids : Adding(u) => Adding(u)'
      BY <2>1, AddingKept
    <3>3. QED
      BY <2>1, <3>1, <3>2, FilesKept
  <2>2. CASE DeleteRow(t)
    BY <1>1, <2>2 DEF DeleteRow, Remove
  <2>3. CASE StartSync(t) \/ Select(t) \/ ListRows(t) \/ DeleteRowFails(t)
    BY <2>1, <2>3 DEF StartSync, Select, ListRows, DeleteRowFails
  <2>4. CASE Invalidated(t) \/ FindStart(t) \/ Fetch(t) \/ Lookup(t)
    BY <2>1, <2>4 DEF Invalidated, FindStart, From, Fetch, Lookup
  <2>5. CASE SyncFails(t) \/ SaveState(t)
    <3>1. Return(t) /\ pc[t] # "attach" /\ UNCHANGED <<rows, excused>>
      BY <2>5 DEF SyncFails, SaveState
    <3>2. QED
      BY <2>1, <3>1, ReturnEffect
  <2>6. CASE StoreError(t) \/ InsertClashes(t) \/ AttachClashes(t)
    <3>1. StoreFails(t) /\ pc[t] \in {"lookup", "upsert", "attach"}
      BY <2>6 DEF StoreError, InsertClashes, AttachClashes
    <3>2. sel[t] \in 1..MaxEpoch /\ Pending(t) # {}
      BY <3>1 DEF OpenInv, BusyInv
    <3>3. <<sel[t], At(t)>> \in excused'
      BY <3>1 DEF StoreFails
    <3>4. PICK at : at = At(t)
      OBVIOUS
    <3>5. Excused(at)'
      BY <3>2, <3>3, <3>4 DEF Excused
    <3>6. UNCHANGED rows /\ excused \subseteq excused'
      BY <3>1 DEF StoreFails
    <3>7. \A r \in Tasks \ {t} : pc'[r] = pc[r] /\ batch'[r] = batch[r]
      BY <3>1, <3>2, NextFetchEffect DEF StoreFails
    <3>8. \A u \in Uids : Bare(u)' => Bare(u)
      BY <3>6 DEF Bare
    <3>9. \A u \in Uids : Adding(u) => Adding(u)' \/ Excused(u)'
      BY <3>4, <3>5, <3>7, AddingKept
    <3>10. QED
      BY <3>6, <3>8, <3>9, FilesKept
  <2>7. CASE UpdateRow(t) \/ InsertRow(t) \/ Attach(t)
    <3>1. /\ Pending(t) # {} /\ At(t) \in Pending(t) /\ At(t) \in Uids
          /\ batch[t][At(t)] \in Mails
      <4>1. Pending(t) # {}
        BY <2>7 DEF UpdateRow, InsertRow, Attach, BusyInv
      <4>2. At(t) \in Pending(t) /\ At(t) \in Uids
        BY <4>1, AtIsMin
      <4>3. QED
        BY <4>1, <4>2 DEF Pending
    <3>2. PICK at \in Uids : at = At(t)
      BY <3>1
    <3>3. \A r \in Tasks \ {t} : pc'[r] = pc[r] /\ batch'[r] = batch[r]
      BY <2>7, <3>1, NextFetchEffect DEF UpdateRow, InsertRow, Attach
    <3>4. /\ UNCHANGED excused
          /\ \A u \in Uids \ {at} : rows'[u] = rows[u]
      BY <2>7, <3>2 DEF UpdateRow, InsertRow, Attach
    <3>5. Bare(at)' => Adding(at)'
      <4>1. CASE Attach(t)
        <5>1. rows[at] \in Rows \ {NoRow}
          BY <3>1, <3>2, <4>1 DEF KnowInv, Attach
        <5>2. rows'[at] = [rows[at] EXCEPT !.files = TRUE]
          BY <3>2, <4>1 DEF Attach
        <5>3. rows'[at].files = TRUE
          BY <5>1, <5>2 DEF Rows
        <5>4. QED
          BY <5>3 DEF Bare
      <4>2. CASE UpdateRow(t) \/ InsertRow(t)
        <5>1. rows'[at].body = batch[t][at]
          <6>1. CASE UpdateRow(t)
            <7>1. rows[at] \in Rows \ {NoRow}
              BY <3>1, <3>2, <6>1 DEF KnowInv, UpdateRow
            <7>2. rows'[at] = [rows[at] EXCEPT !.body = batch[t][at]]
              BY <3>2, <6>1 DEF UpdateRow
            <7>3. QED
              BY <3>1, <3>2, <7>1, <7>2, RowUpdate
          <6>2. CASE InsertRow(t)
            BY <3>2, <6>2 DEF InsertRow
          <6>3. QED
            BY <4>2, <6>1, <6>2
        <5>2. ASSUME batch[t][at] \in WithFiles PROVE Adding(at)'
          <6>1. pc'[t] = "attach" /\ batch'[t] = batch[t]
            BY <3>2, <4>2, <5>2 DEF UpdateRow, InsertRow
          <6>2. At(t)' = at
            BY <3>2, <6>1, OwnBatch
          <6>3. QED
            BY <6>1, <6>2 DEF Adding
        <5>3. QED
          BY <5>1, <5>2 DEF Bare
      <4>3. QED
        BY <2>7, <4>1, <4>2
    <3>6. \A u \in Uids : Bare(u)' => Bare(u) \/ Adding(u)'
      BY <3>2, <3>4, <3>5 DEF Bare
    <3>7. \A u \in Uids : Bare(u)' /\ Adding(u) => Adding(u)' \/ Excused(u)'
      BY <3>2, <3>3, <3>5, AddingKept
    <3>8. QED
      BY <3>4, <3>6, <3>7, FilesKept
  <2>8. QED
    BY <1>4, <2>2, <2>3, <2>4, <2>5, <2>6, <2>7 DEF SyncStep
<1>5. CASE Restart
  <2>1. UNCHANGED rows /\ excused \subseteq excused'
    BY <1>5 DEF Restart
  <2>2. ASSUME NEW u \in Uids, Adding(u) PROVE Excused(u)'
    <3>1. PICK t \in Tasks : pc[t] = "attach" /\ u = At(t)
      BY <2>2 DEF Adding
    <3>2. sel[t] \in 1..MaxEpoch
      BY <3>1 DEF OpenInv
    <3>3. <<sel[t], u>> \in excused'
      BY <1>5, <3>1 DEF Restart
    <3>4. QED
      BY <3>2, <3>3 DEF Excused
  <2>3. \A u \in Uids : Bare(u)' => Bare(u)
    BY <2>1 DEF Bare
  <2>4. QED
    BY <2>1, <2>2, <2>3, FilesKept
<1>6. QED
  BY <1>2, <1>3, <1>4, <1>5 DEF Next

\* Whatever the server renumbers, the tasks overwrite and a restart interrupts, a row whose
\* message has attachments and that lacks them has a task about to add them, or one that
\* counted an error, was stopped there or lost the row to the user (add_attachment).
THEOREM FilesFollow == Spec => []FilesAreComplete
<1>1. Init => FilesAreComplete
  BY DEF Init, FilesAreComplete, Cached
<1>2. Typed /\ FilesAreComplete /\ [Next]_vars => FilesAreComplete'
  BY FilesStep
<1>3. Spec => []Typed
  BY TypeCorrect DEF Typed
<1>4. QED
  BY <1>1, <1>2, <1>3, PTL DEF Spec

-----------------------------------------------------------------------------
(***************************************************************************)
(* The blobs of the messages the tasks save, in BlobStore: every message in *)
(* the database finds its blobs and every blob that was written can be      *)
(* read, for any number of messages, of shared blobs and of tasks, whatever *)
(* fails and however often the program crashes; a failure of the machine    *)
(* alone takes a file away.                                                 *)
(***************************************************************************)
Saving(m) == stage[m] \in {"next", "check", "create", "fill", "rename"}

\* Power failures apart, a name never stands for less than its content, since only whole
\* files are renamed; what a task has done with so far is there, whoever wrote it.
BlobInv ==
    /\ \A c \in Contents \ cut : file[c] \in {"none", "whole"}
    /\ \A m \in Messages : stage[m] = "rename" => tmp[m] = "whole"
    /\ \A m \in Messages : Saving(m) => \A c \in Parts[m] \ (left[m] \cup cut) : file[c] = "whole"
    /\ WrittenCanBeRead
    /\ RowsHaveBlobs

\* Initially nothing is there.
LEMMA BlobsInit == BlobInit => BlobTypeOK /\ BlobInv
BY BlobStoreAssumption
DEF BlobInit, BlobTypeOK, BlobInv, Saving, WrittenCanBeRead, RowsHaveBlobs

\* What each task owes is part of its message.
LEMMA PartsAreContents == \A m \in Messages : Parts[m] \subseteq Contents
BY BlobStoreAssumption

LEMMA BlobTypeStep ==
    ASSUME BlobTypeOK, [BlobNext]_blobVars
    PROVE  BlobTypeOK'
<1> USE BlobStoreAssumption DEF BlobTypeOK, Goto, Wrote, disk,
            task, history
<1>1. ASSUME NEW m \in Messages, Begin(m) PROVE BlobTypeOK'
  BY <1>1, PartsAreContents DEF Begin
<1>2. ASSUME NEW m \in Messages, NextBlob(m) PROVE BlobTypeOK'
  BY <1>2 DEF NextBlob
<1>3. ASSUME NEW m \in Messages, Exists(m) PROVE BlobTypeOK'
  BY <1>3 DEF Exists
<1>4. ASSUME NEW m \in Messages, Missing(m) \/ Create(m) \/ Fill(m)
      PROVE  BlobTypeOK'
  BY <1>4 DEF Missing, Create, Fill
<1>5. ASSUME NEW m \in Messages, Rename(m) PROVE BlobTypeOK'
  BY <1>5 DEF Rename
<1>6. ASSUME NEW m \in Messages, WriteFails(m) \/ InsertMessage(m) PROVE BlobTypeOK'
  BY <1>6 DEF WriteFails, InsertMessage
<1>7. ASSUME NEW c \in Contents, WriteBack(c) PROVE BlobTypeOK'
  BY <1>7 DEF WriteBack
<1>8. CASE Crash
  BY <1>8 DEF Crash, TasksEnd
<1>9. CASE PowerFails
  BY <1>9 DEF PowerFails, TasksEnd
<1>10. CASE UNCHANGED blobVars
  BY <1>10 DEF blobVars
<1>11. QED
  BY <1>1, <1>2, <1>3, <1>4, <1>5, <1>6, <1>7, <1>8, <1>9, <1>10 DEF BlobNext

\* Files that are whole stay whole, and nothing else can get a name.
LEMMA BlobsStep ==
    ASSUME BlobTypeOK, BlobTypeOK', BlobInv,
           [BlobNext]_blobVars
    PROVE  BlobInv'
<1> USE BlobStoreAssumption DEF BlobInv, Saving, WrittenCanBeRead,
            RowsHaveBlobs, Goto, Wrote, disk, task, history
<1>1. ASSUME NEW m \in Messages, Begin(m) PROVE BlobInv'
  BY <1>1 DEF Begin, BlobTypeOK
<1>2. ASSUME NEW m \in Messages, NextBlob(m) PROVE BlobInv'
  BY <1>2 DEF NextBlob, BlobTypeOK
<1>3. ASSUME NEW m \in Messages, Exists(m) PROVE BlobInv'
  BY <1>3, PartsAreContents DEF Exists, BlobTypeOK
<1>4. ASSUME NEW m \in Messages, Missing(m) \/ Create(m) \/ Fill(m)
      PROVE  BlobInv'
  BY <1>4 DEF Missing, Create, Fill, BlobTypeOK
<1>5. ASSUME NEW m \in Messages, Rename(m) PROVE BlobInv'
  <2>1. now[m] \in Contents /\ tmp[m] = "whole"
    BY <1>5 DEF Rename, BlobTypeOK
  <2>2. file' = [file EXCEPT ![now[m]] = "whole"]
    BY <1>5, <2>1 DEF Rename
  <2>3. \A c \in Contents : file'[c] = IF c = now[m] THEN "whole" ELSE file[c]
    BY <2>1, <2>2 DEF BlobTypeOK
  <2>4. QED
    BY <1>5, <2>1, <2>3, PartsAreContents DEF Rename, BlobTypeOK
<1>6. ASSUME NEW m \in Messages, WriteFails(m) PROVE BlobInv'
  BY <1>6 DEF WriteFails, BlobTypeOK
<1>7. ASSUME NEW m \in Messages, InsertMessage(m) PROVE BlobInv'
  BY <1>7 DEF InsertMessage, BlobTypeOK
<1>8. ASSUME NEW c \in Contents, WriteBack(c) PROVE BlobInv'
  BY <1>8 DEF WriteBack
<1>9. CASE Crash
  BY <1>9 DEF Crash, TasksEnd, BlobTypeOK
<1>10. CASE PowerFails
  <2>1. PICK after \in [Contents -> {"none", "damaged", "whole"}] :
          /\ file' = after
          /\ cut' = cut \cup {c \in Contents : after[c] # file[c]}
    BY <1>10 DEF PowerFails
  <2>2. /\ \A m \in Messages : stage'[m] = "idle"
        /\ confirmed' = {}
        /\ saved' \subseteq saved
    BY <1>10 DEF PowerFails, TasksEnd
  <2>3. \A c \in Contents \ cut' : c \notin cut /\ file'[c] = file[c]
    BY <2>1
  <2>4. QED
    BY <2>2, <2>3, PartsAreContents DEF BlobTypeOK
<1>11. CASE UNCHANGED blobVars
  BY <1>11 DEF blobVars
<1>12. QED
  BY <1>1, <1>2, <1>3, <1>4, <1>5, <1>6, <1>7, <1>8, <1>9, <1>10, <1>11 DEF BlobNext

\* Every reachable state is typed: a task knows the blob it writes, which is one that its
\* message still lacks, and has a temporary file exactly while it fills and renames it.
THEOREM BlobTypes == BlobSpec => []BlobTypeOK
<1>1. BlobTypeOK /\ [BlobNext]_blobVars => BlobTypeOK'
  BY BlobTypeStep
<1>2. QED
  BY <1>1, BlobsInit, PTL DEF BlobSpec

\* A message in the database finds its source and attachments, and what a task was told is
\* written can be read, but for files the machine took or damaged when it failed.
THEOREM BlobsAreThere == BlobSpec => [](RowsHaveBlobs /\ WrittenCanBeRead)
<1>1. BlobTypeOK /\ BlobInv /\ [BlobNext]_blobVars => (BlobTypeOK /\ BlobInv)'
  BY BlobTypeStep, BlobsStep
<1>2. BlobInv => RowsHaveBlobs /\ WrittenCanBeRead
  BY DEF BlobInv
<1>3. QED
  BY <1>1, <1>2, BlobsInit, PTL DEF BlobSpec

\* Even with power failures only a whole file is renamed.
TmpInv == \A m \in Messages : stage[m] = "rename" => tmp[m] = "whole"

LEMMA TmpStep ==
    ASSUME BlobTypeOK, TmpInv, [BlobNext]_blobVars
    PROVE  TmpInv'
BY DEF BlobTypeOK, TmpInv, BlobNext, Begin, NextBlob, Exists,
       Missing, Create, Fill, Rename, Wrote,
       WriteFails, InsertMessage, WriteBack, Crash, PowerFails,
       TasksEnd, Goto, blobVars, disk, task, history

\* No step writes to a file that has its name: it may be replaced, by a whole one.
LEMMA SafeStep ==
    ASSUME BlobTypeOK, TmpInv, [BlobNext]_blobVars
    PROVE  \A c \in onDisk : file[c] = "whole" => file'[c] = "whole"
<1>1. ASSUME NEW m \in Messages, Rename(m)
      PROVE  \A c \in Contents : file[c] = "whole" => file'[c] = "whole"
  BY <1>1 DEF Rename, BlobTypeOK, TmpInv
<1>2. CASE PowerFails
  <2>1. PICK after \in [Contents -> {"none", "damaged", "whole"}] :
          /\ \A c \in Contents : c \in onDisk \/ file[c] = "none" => after[c] = file[c]
          /\ file' = after
    BY <1>2 DEF PowerFails
  <2>2. QED
    BY <2>1 DEF BlobTypeOK
<1>3. CASE [BlobNext]_blobVars /\ ~ PowerFails
           /\ ~ (\E m \in Messages : Rename(m))
  <2>1. file' = file
    BY <1>3 DEF BlobNext, Begin, NextBlob, Exists, Missing,
                Create, Fill, WriteFails, InsertMessage,
                WriteBack, Crash, blobVars, disk
  <2>2. QED
    BY <2>1
<1>4. QED
  BY <1>1, <1>2, <1>3 DEF BlobTypeOK

\* A blob that has reached the disk stays whole, whatever fails.
THEOREM SafeBlobsStay == BlobSpec => SafeStays
<1>1. BlobInit => BlobTypeOK /\ TmpInv
  BY BlobsInit DEF BlobInv, TmpInv
<1>2. BlobTypeOK /\ TmpInv /\ [BlobNext]_blobVars => (BlobTypeOK /\ TmpInv)'
  BY BlobTypeStep, TmpStep
<1>3. BlobTypeOK /\ TmpInv /\ [BlobNext]_blobVars
        => [\A c \in onDisk : file[c] = "whole" => file'[c] = "whole"]_blobVars
  BY SafeStep
<1>4. QED
  BY <1>1, <1>2, <1>3, PTL DEF BlobSpec, SafeStays
=============================================================================
