------------------------- MODULE MutationQueueProofs -------------------------
(***************************************************************************)
(* However many changes there are, whatever is refused, and wherever the    *)
(* connection, a statement or the worker fails: what the table says of a     *)
(* change is true, and no message is lost or multiplied on the way.          *)
(***************************************************************************)
EXTENDS MutationQueue, TLAPS, FiniteSetTheorems, WellFoundedInduction

USE MutationQueueAssumption

-----------------------------------------------------------------------------
(***************************************************************************)
(* Batches.                                                                 *)
(***************************************************************************)

LEMMA HasMin ==
    ASSUME NEW S, S \subseteq Mutations, S # {}
    PROVE  \E x \in S : \A y \in S : x <= y
<1>1. S \subseteq Nat
  BY DEF Mutations
<1>2. PICK x \in S : \A y \in S : ~ (<<y, x>> \in OpToRel(<, Nat))
  BY <1>1, NatLessThanWellFounded, WFMin
<1>3. ASSUME NEW y \in S PROVE x <= y
  <2>1. <<y, x>> \in Nat \X Nat
    BY <1>1
  <2>2. y < x => <<y, x>> \in OpToRel(<, Nat)
    BY <2>1 DEF OpToRel
  <2>3. ~ (y < x)
    BY <1>2, <2>2, Zenon
  <2>4. QED
    BY <1>1, <2>3
<1>4. QED
  BY <1>3

\* The row at hand is the oldest of the batch.
LEMMA CurrentIsOldest ==
    ASSUME todo \subseteq Mutations, todo # {}
    PROVE  Current \in todo /\ \A m \in todo : Current <= m
BY HasMin DEF Current

LEMMA SameCurrent == ASSUME todo' = todo PROVE Current' = Current
BY DEF Current

\* A batch is the oldest rows of what is pending, and is not empty.
LEMMA OldestRows ==
    ASSUME NEW S, S \subseteq Mutations
    PROVE  /\ Oldest(S) \subseteq S
           /\ S # {} => Oldest(S) # {}
           /\ \A m \in Oldest(S), n \in S \ Oldest(S) : m < n
<1> DEFINE Before(m) == {n \in S : n < m}
<1>1. \A m : IsFiniteSet(Before(m)) /\ Cardinality(Before(m)) \in Nat
  <2>1. IsFiniteSet(Mutations)
    BY FS_Interval DEF Mutations
  <2>2. \A m : Before(m) \in SUBSET Mutations
    OBVIOUS
  <2>3. \A m : IsFiniteSet(Before(m))
    BY <2>1, <2>2, FS_Subset
  <2>4. QED
    BY <2>3, FS_CardinalityType
<1>2. Oldest(S) = {m \in S : Cardinality(Before(m)) < PeekLimit}
  BY DEF Oldest
<1>3. S # {} => Oldest(S) # {}
  <2> SUFFICES ASSUME S # {} PROVE Oldest(S) # {}
    OBVIOUS
  <2>1. PICK x \in S : \A y \in S : x <= y
    BY HasMin
  <2>2. \A y \in S : ~ (y < x)
    BY <2>1 DEF Mutations
  <2>3. Before(x) = {}
    BY <2>2
  <2>4. Cardinality(Before(x)) = 0
    BY <2>3, FS_EmptySet
  <2>5. QED
    BY <1>2, <2>1, <2>4
<1>4. ASSUME NEW m \in Oldest(S), NEW n \in S \ Oldest(S) PROVE m < n
  <2>0. S \subseteq Nat /\ Oldest(S) \subseteq S
    <3>1. Mutations \subseteq Nat
      BY DEF Mutations
    <3>2. QED
      BY <1>2, <3>1
  <2>1. m \in Nat /\ n \in Nat /\ \A x \in S : x \in Nat
    BY <2>0
  <2> SUFFICES ASSUME n <= m PROVE FALSE
    BY <2>1
  <2>2. \A x \in S : x < n => x < m
    BY <2>1
  <2>3. Before(n) \in SUBSET Before(m)
    BY <2>2
  <2>4. Cardinality(Before(n)) <= Cardinality(Before(m))
    BY <1>1, <2>3, FS_Subset
  <2>5. Cardinality(Before(m)) < PeekLimit /\ ~ (Cardinality(Before(n)) < PeekLimit)
    BY <1>2, Zenon
  <2>6. QED
    BY <1>1, <2>4, <2>5
<1>5. QED
  BY <1>2, <1>3, <1>4

\* The next row is at hand, or the batch is done.
LEMMA NextRowEffect ==
    ASSUME NEW c, c = Current, NextRow
    PROVE  /\ todo' = todo \ {c}
           /\ pc' \in {"idle", "mark"}
           /\ pc' = "idle" => todo' = {}
           /\ pc' = "mark" => todo' # {}
BY DEF NextRow

-----------------------------------------------------------------------------
(***************************************************************************)
(* Typing.                                                                  *)
(***************************************************************************)

Boxes == [src : {"live", "deleted", "gone"}, seen : BOOLEAN, flagged : BOOLEAN, copies : Nat]

\* A row of the batch waits until the worker marks it; the one at hand is the only one marked.
Batch ==
    /\ pc \in {"idle", "broken"} => todo = {}
    /\ pc \notin {"idle", "broken", "mark"} => status[Current] = "in_flight"
    /\ \A m \in todo : status[m] = "pending" \/ (m = Current /\ pc # "mark")

\* A row is there once its change is made, and is given up no later than the bound says.
Table ==
    /\ \A m \in Mutations : status[m] = "absent" <=> m > made
    /\ \A m \in Mutations : status[m] \in {"completed", "failed"} \/ retries[m] < MaxRetries

\* The command at hand is one of its change.
Stage ==
    /\ pc = "select" => kind[Current] \notin {"bare", "lost"}
    /\ pc = "add" => kind[Current] \in {"read", "swap"}
    /\ pc = "remove" => kind[Current] \in {"unread", "swap"}
    /\ pc \in {"move", "copy"} => kind[Current] = "move"
    /\ pc = "store" => kind[Current] \in {"move", "delete"}

BatchInv == Batch /\ Table /\ Stage

\* What the commands leave of the message.
LEMMA ServerEffect ==
    ASSUME box \in Boxes
    PROVE  /\ AddSeen \in Boxes /\ AddSeen.src = box.src /\ AddSeen.copies = box.copies
           /\ RemoveSeen \in Boxes /\ RemoveSeen.src = box.src /\ RemoveSeen.copies = box.copies
           /\ RemoveFlag \in Boxes /\ RemoveFlag.src = box.src /\ RemoveFlag.copies = box.copies
           /\ MarkDeleted \in Boxes /\ MarkDeleted.src # "live"
           /\ MarkDeleted.copies = box.copies
           /\ CopyOver \in Boxes /\ CopyOver.src = box.src
           /\ CopyOver.copies = IF box.src = "live" THEN box.copies + 1 ELSE box.copies
           /\ MoveOver \in Boxes /\ MoveOver.src = "gone"
           /\ MoveOver.copies = IF box.src = "live" THEN box.copies + 1 ELSE box.copies
<1>1. /\ AddSeen \in Boxes /\ AddSeen.src = box.src /\ AddSeen.copies = box.copies
      /\ RemoveSeen \in Boxes /\ RemoveSeen.src = box.src /\ RemoveSeen.copies = box.copies
      /\ RemoveFlag \in Boxes /\ RemoveFlag.src = box.src /\ RemoveFlag.copies = box.copies
  BY DEF Boxes, AddSeen, RemoveSeen, RemoveFlag
<1>2. /\ MarkDeleted \in Boxes /\ MarkDeleted.src # "live"
      /\ MarkDeleted.copies = box.copies
  BY DEF Boxes, Present, MarkDeleted
<1>3. /\ CopyOver \in Boxes /\ CopyOver.src = box.src
      /\ CopyOver.copies = IF box.src = "live" THEN box.copies + 1 ELSE box.copies
  BY DEF Boxes, CopyOver
<1>4. /\ MoveOver \in Boxes /\ MoveOver.src = "gone" /\ MoveOver.copies = CopyOver.copies
  BY <1>3 DEF Boxes, Present, MoveOver, CopyOver
<1>5. QED
  BY <1>1, <1>2, <1>3, <1>4

\* A command leaves the tables alone, and leads where its outcome says.
IsCommand == Add \/ Remove \/ (hasMove /\ Move) \/ Copy \/ Store

LEMMA CommandEffect ==
    ASSUME TypeOK, BatchInv, IsCommand, NEW c, c = Current
    PROVE  /\ UNCHANGED <<world, made, kind, rows, todo, readCount, restarts, attempts>>
           /\ pc \in {"add", "remove", "move", "copy", "store"}
           /\ pc' \in {"complete", "failRead", "remove", "copy", "store"}
           /\ pc' = "complete" => c \in carried'
           /\ pc' = "remove" => kind[c] = "swap"
           /\ pc' = "copy" => pc = "move"
           /\ pc' = "store" => pc = "copy"
           /\ conn' \in BOOLEAN /\ box' \in Boxes
           /\ carried \subseteq carried' /\ carried' \subseteq carried \cup {c}
           /\ lastSeen' \in {lastSeen, c}
<1> USE DEF Command, Succeeds, CommandFails, Takes, NoEffect
<1>1. conn \in BOOLEAN /\ box \in Boxes
  BY DEF TypeOK, Boxes
<1>2. CASE Add
  BY <1>1, <1>2, ServerEffect DEF Add, BatchInv, Stage
<1>3. CASE Remove
  <2>1. IF kind[c] = "swap" THEN RemoveFlag \in Boxes ELSE RemoveSeen \in Boxes
    BY <1>1, ServerEffect
  <2>2. QED
    BY <1>1, <1>3, <2>1 DEF Remove
<1>4. CASE hasMove /\ Move
  BY <1>1, <1>4, ServerEffect DEF Move
<1>5. CASE Copy
  BY <1>1, <1>5, ServerEffect DEF Copy
<1>6. CASE Store
  BY <1>1, <1>6, ServerEffect DEF Store
<1>7. QED
  BY <1>2, <1>3, <1>4, <1>5, <1>6 DEF IsCommand

LEMMA AtHand ==
    ASSUME TypeOK, pc \notin {"idle", "broken"}
    PROVE  /\ Current \in todo /\ \A m \in todo : Current <= m
           /\ Current \in 1..made /\ Current \in Mutations
<1>1. made \in 0..NumMutations /\ todo \subseteq 1..made /\ todo # {}
  BY DEF TypeOK
<1>2. todo \subseteq Mutations
  BY <1>1 DEF Mutations
<1>3. QED
  BY <1>1, <1>2, CurrentIsOldest

LEMMA InitBatch == Init => TypeOK /\ BatchInv
<1> SUFFICES ASSUME Init PROVE TypeOK /\ BatchInv
  OBVIOUS
<1>1. <<faults, limit>> \in Settings
  <2>1. PICK s \in Settings : faults = s[1] /\ limit = s[2]
    BY DEF Init
  <2>2. s = <<s[1], s[2]>>
    BY <2>1
  <2>3. QED
    BY <2>1, <2>2
<1>2. TypeOK
  BY <1>1 DEF Init, TypeOK, Stages, AllKinds
<1>3. BatchInv
  BY DEF Init, BatchInv, Batch, Table, Stage, Mutations
<1>4. QED
  BY <1>2, <1>3

LEMMA CommandType == ASSUME TypeOK, BatchInv, IsCommand PROVE TypeOK'
<1>1. PICK c : c = Current
  OBVIOUS
<1>2. /\ UNCHANGED <<world, made, kind, rows, todo, readCount, restarts, attempts>>
      /\ pc \in {"add", "remove", "move", "copy", "store"}
      /\ pc' \in {"complete", "failRead", "remove", "copy", "store"}
      /\ conn' \in BOOLEAN /\ box' \in Boxes
      /\ carried' \subseteq carried \cup {c}
      /\ lastSeen' \in {lastSeen, c}
  BY <1>1, CommandEffect
<1>3. c \in Mutations
  BY <1>1, <1>2, AtHand
<1>4. pc' \in Stages /\ lastSeen' \in 0..NumMutations /\ carried' \subseteq Mutations
  BY <1>2, <1>3 DEF Stages, TypeOK, Mutations
<1>5. QED
  BY <1>2, <1>4 DEF TypeOK, Boxes, world, rows

LEMMA TypeStep == ASSUME TypeOK, BatchInv, [Next]_vars PROVE TypeOK'
<1> USE DEF world, rows, worker, history
<1>1. PICK c : c = Current
  OBVIOUS
<1>2. pc \notin {"idle", "broken"} => c \in todo /\ c \in Mutations
  BY <1>1, AtHand
<1>3. ASSUME NEW k \in Kinds, Make(k) PROVE TypeOK'
  <2>1. limit \in 0..NumMutations
    BY DEF TypeOK
  <2>2. made' = made + 1 /\ made' \in 0..NumMutations /\ made \in Nat
    BY <1>3, <2>1 DEF Make, TypeOK
  <2>3. todo' \subseteq 1..made'
    BY <1>3, <2>2 DEF Make, TypeOK
  <2>4. kind' \in [Mutations -> AllKinds]
    BY <1>3 DEF Make, TypeOK
  <2>5. status' \in [Mutations -> {"absent", "pending", "in_flight", "completed", "failed"}]
    BY <1>3 DEF Make, TypeOK
  <2>6. QED
    BY <1>3, <2>2, <2>3, <2>4, <2>5 DEF Make, TypeOK
<1>4. CASE Pass
  <2>1. Pending \subseteq Mutations /\ Pending \subseteq 1..made
    BY DEF Pending, BatchInv, Table, Mutations, TypeOK
  <2>2. todo' \subseteq 1..made /\ todo' # {}
    BY <1>4, <2>1, OldestRows DEF Pass
  <2>3. QED
    BY <1>4, <2>2 DEF Pass, TypeOK, Stages
<1>5. CASE Mark \/ FindFolder
  BY <1>5 DEF Mark, FindFolder, TypeOK, Stages
<1>6. CASE Select
  <2>0. kind[c] \in {"read", "unread", "swap", "move", "delete"}
    BY <1>1, <1>2, <1>6 DEF Select, BatchInv, Stage, TypeOK, AllKinds
  <2>1. pc' \in Stages
    BY <1>1, <1>6, <2>0 DEF Select, Break, Stages
  <2>2. todo' = todo \/ (todo' = {} /\ pc' = "broken")
    BY <1>6 DEF Select, Break
  <2>3. conn' \in BOOLEAN
    BY <1>6 DEF Select, TypeOK
  <2>4. pc \notin {"idle", "broken"}
    BY <1>6 DEF Select
  <2>5. QED
    BY <1>6, <2>1, <2>2, <2>3, <2>4 DEF Select, TypeOK
<1>6a. CASE IsCommand
  BY <1>6a, CommandType
<1>7. CASE ~ hasMove /\ Move
  BY <1>7 DEF Move, TypeOK, Stages
<1>8. CASE Complete
  <2>1. /\ todo' = todo \ {c} /\ pc' \in {"idle", "mark"} /\ (pc' = "mark" => todo' # {})
    BY <1>1, <1>8, NextRowEffect DEF Complete
  <2>2. QED
    BY <1>8, <2>1 DEF Complete, TypeOK, Stages
<1>9. CASE FailRead
  <2>1. c \in Mutations /\ status[c] = "in_flight" /\ retries[c] < MaxRetries
    BY <1>1, <1>2, <1>9 DEF FailRead, BatchInv, Batch, Table
  <2>2. readCount' \in 0..MaxRetries
    BY <1>1, <1>9, <2>1 DEF FailRead, TypeOK
  <2>3. attempts' \in [Mutations -> Nat]
    <3>1. attempts' = [attempts EXCEPT ![c] = attempts[c] + 1] /\ attempts \in [Mutations -> Nat]
      BY <1>1, <1>9 DEF FailRead, TypeOK
    <3>2. QED
      BY <2>1, <3>1
  <2>4. pc' \in Stages /\ (pc' \notin {"idle", "broken"} => todo' # {})
    BY <1>9 DEF FailRead, TypeOK, Stages
  <2>5. UNCHANGED <<world, made, kind, rows, todo, conn, restarts, box, carried, lastSeen>>
    BY <1>9 DEF FailRead
  <2>6. QED
    BY <2>2, <2>3, <2>4, <2>5 DEF TypeOK
<1>10. CASE FailWrite
  <2>1. /\ todo' = todo \ {c} /\ pc' \in {"idle", "mark"} /\ (pc' = "mark" => todo' # {})
    BY <1>1, <1>10, NextRowEffect DEF FailWrite
  <2>2. QED
    BY <1>10, <2>1 DEF FailWrite, TypeOK, Stages
<1>11. CASE StorageFails
  <2>1. NextRow => /\ todo' = todo \ {c} /\ pc' \in {"idle", "mark"}
                   /\ pc' = "mark" => todo' # {}
    BY <1>1, NextRowEffect
  <2>2. QED
    BY <1>11, <2>1 DEF StorageFails, Break, TypeOK, Stages
<1>12. CASE Reconnect
  BY <1>12 DEF Reconnect, TypeOK, Stages
<1>13. CASE Restart
  BY <1>13 DEF Restart, TypeOK, Stages
<1>14. CASE UNCHANGED vars
  BY <1>14 DEF vars, TypeOK
<1>15. QED
  BY <1>3, <1>4, <1>5, <1>6, <1>6a, <1>7, <1>8, <1>9, <1>10, <1>11, <1>12, <1>13, <1>14
     DEF Next, Work, IsCommand

\* What a step does to the row at hand and to the batch, of any step that handles one.
LEMMA NextRowBatch ==
    ASSUME TypeOK, BatchInv, NEW c, c = Current, pc \notin {"idle", "broken", "mark"},
           NextRow, \A m \in Mutations \ {c} : status'[m] = status[m]
    PROVE  Batch' /\ Stage'
<1>1. /\ todo' = todo \ {c} /\ pc' \in {"idle", "mark"}
      /\ pc' = "idle" => todo' = {}
  BY NextRowEffect
<1>2. \A m \in todo' : m \in Mutations \ {c} /\ status[m] = "pending"
  BY <1>1, AtHand DEF BatchInv, Batch, TypeOK, Mutations
<1>3. QED
  BY <1>1, <1>2 DEF Batch, Stage

LEMMA BatchStep == ASSUME TypeOK, BatchInv, [Next]_vars PROVE BatchInv'
<1> USE DEF world, rows, worker, history
<1>1. PICK c : c = Current
  OBVIOUS
<1>2. pc \notin {"idle", "broken"} => c \in todo /\ c \in 1..made /\ c \in Mutations
  BY <1>1, AtHand
<1>3. todo' = todo => c = Current'
  BY <1>1, SameCurrent
<1>4. ASSUME NEW k \in Kinds, Make(k) PROVE BatchInv'
  <2>1. made \in Nat /\ made' = made + 1 /\ made + 1 \in Mutations
    <3>1. limit \in 0..NumMutations /\ made \in Nat
      BY DEF TypeOK
    <3>2. QED
      BY <1>4, <3>1 DEF Make, Mutations
  <2>2. /\ status'[made + 1] = "pending"
        /\ \A m \in Mutations \ {made + 1} : status'[m] = status[m] /\ kind'[m] = kind[m]
    BY <1>4, <2>1 DEF Make, TypeOK
  <2>3. UNCHANGED <<retries, pc, todo>>
    BY <1>4 DEF Make
  <2>4. \A m \in todo : m \in Mutations \ {made + 1}
    BY <2>1 DEF TypeOK, Mutations
  <2>5. pc \notin {"idle", "broken"} => c \in Mutations \ {made + 1}
    BY <1>2, <2>4
  <2>6. Batch'
    BY <1>1, <1>3, <2>2, <2>3, <2>4, <2>5 DEF BatchInv, Batch
  <2>7. Table'
    <3>1. status[made + 1] = "absent" /\ retries[made + 1] < MaxRetries
      BY <2>1 DEF BatchInv, Table
    <3>2. \A m \in Mutations : m > made' <=> m > made /\ m # made + 1
      BY <2>1 DEF Mutations
    <3>3. QED
      BY <2>2, <2>3, <3>1, <3>2 DEF BatchInv, Table
  <2>8. Stage'
    BY <1>1, <1>3, <2>2, <2>3, <2>5 DEF BatchInv, Stage
  <2>9. QED
    BY <2>6, <2>7, <2>8 DEF BatchInv
<1>5. CASE Pass
  <2>1. todo' \subseteq Pending
    BY <1>5, OldestRows DEF Pass, Pending
  <2>2. QED
    BY <1>5, <2>1 DEF Pass, BatchInv, Batch, Table, Stage, Pending
<1>6. CASE Mark
  <2>1. status' = [status EXCEPT ![c] = "in_flight"] /\ pc' = "folder" /\ todo' = todo
        /\ UNCHANGED <<made, kind, retries>> /\ pc = "mark"
    BY <1>1, <1>6 DEF Mark
  <2>2. status[c] = "pending"
    BY <1>2, <2>1 DEF BatchInv, Batch
  <2>3. /\ status'[c] = "in_flight"
        /\ \A m \in Mutations \ {c} : status'[m] = status[m]
    BY <1>2, <2>1 DEF TypeOK
  <2>4. \A m \in todo : m \in Mutations
    BY DEF TypeOK, Mutations
  <2>5. QED
    BY <1>3, <2>1, <2>2, <2>3, <2>4 DEF BatchInv, Batch, Table, Stage
<1>7. CASE FindFolder
  BY <1>1, <1>3, <1>7 DEF FindFolder, BatchInv, Batch, Table, Stage
<1>8. CASE Select
  <2>1. UNCHANGED <<made, kind, status, retries>> /\ pc = "select"
    BY <1>8 DEF Select
  <2>2. kind[c] \in {"read", "unread", "swap", "move", "delete"}
    BY <1>1, <1>2, <2>1 DEF BatchInv, Stage, TypeOK, AllKinds
  <2>3. \/ pc' = "broken" /\ todo' = {}
        \/ /\ todo' = todo
           /\ \/ pc' = "add" /\ kind[c] \in {"read", "swap"}
              \/ pc' = "remove" /\ kind[c] = "unread"
              \/ pc' = "move" /\ kind[c] = "move"
              \/ pc' = "store" /\ kind[c] = "delete"
    BY <1>1, <1>8, <2>2 DEF Select, Break
  <2>4. Batch'
    BY <1>1, <1>3, <2>1, <2>3 DEF BatchInv, Batch
  <2>5. QED
    BY <1>3, <2>1, <2>3, <2>4 DEF BatchInv, Table, Stage
<1>9. CASE IsCommand
  <2>1. /\ UNCHANGED <<world, made, kind, rows, todo>>
        /\ pc \in {"add", "remove", "move", "copy", "store"}
        /\ pc' \in {"complete", "failRead", "remove", "copy", "store"}
        /\ pc' = "remove" => kind[c] = "swap"
        /\ pc' = "copy" => pc = "move"
        /\ pc' = "store" => pc = "copy"
    BY <1>1, <1>9, CommandEffect
  <2>2. QED
    BY <1>1, <1>3, <2>1 DEF BatchInv, Batch, Table, Stage
<1>10. CASE ~ hasMove /\ Move
  BY <1>1, <1>3, <1>10 DEF Move, BatchInv, Batch, Table, Stage
<1>11. CASE Complete
  <2>1. status' = [status EXCEPT ![c] = "completed"] /\ NextRow /\ pc = "complete"
        /\ UNCHANGED <<made, retries>>
    BY <1>1, <1>11 DEF Complete
  <2>2. /\ status'[c] = "completed"
        /\ \A m \in Mutations \ {c} : status'[m] = status[m]
    BY <1>2, <2>1 DEF TypeOK
  <2>3. Batch' /\ Stage'
    BY <1>1, <2>1, <2>2, NextRowBatch
  <2>4. Table'
    BY <1>2, <2>1, <2>2 DEF BatchInv, Table, Batch, TypeOK
  <2>5. QED
    BY <2>3, <2>4 DEF BatchInv
<1>12. CASE FailRead
  BY <1>1, <1>3, <1>12 DEF FailRead, BatchInv, Batch, Table, Stage
<1>13. CASE FailWrite
  <2>1. /\ status' = [status EXCEPT ![c] = IF readCount >= MaxRetries THEN "failed" ELSE "pending"]
        /\ retries' = [retries EXCEPT ![c] = readCount]
        /\ NextRow /\ pc = "failWrite" /\ made' = made
    BY <1>1, <1>13 DEF FailWrite
  <2>2. /\ status'[c] = IF readCount >= MaxRetries THEN "failed" ELSE "pending"
        /\ retries'[c] = readCount
        /\ \A m \in Mutations \ {c} : status'[m] = status[m] /\ retries'[m] = retries[m]
    BY <1>2, <2>1 DEF TypeOK
  <2>3. Batch' /\ Stage'
    BY <1>1, <2>1, <2>2, NextRowBatch
  <2>4. Table'
    BY <1>2, <2>1, <2>2 DEF BatchInv, Table, Batch, TypeOK
  <2>5. QED
    BY <2>3, <2>4 DEF BatchInv
<1>14. CASE StorageFails
  <2>1. UNCHANGED <<made, kind, status, retries>>
    BY <1>14 DEF StorageFails
  <2>2. CASE Break
    BY <2>1, <2>2 DEF Break, BatchInv, Batch, Table, Stage
  <2>3. CASE NextRow /\ pc \in {"failRead", "failWrite"}
    <3>1. Batch' /\ Stage'
      BY <1>1, <2>1, <2>3, NextRowBatch
    <3>2. QED
      BY <2>1, <3>1 DEF BatchInv, Table
  <2>4. QED
    BY <1>14, <2>2, <2>3 DEF StorageFails
<1>15. CASE Reconnect
  BY <1>15 DEF Reconnect, BatchInv, Batch, Table, Stage
<1>16. CASE Restart
  BY <1>16 DEF Restart, BatchInv, Batch, Table, Stage
<1>17. CASE UNCHANGED vars
  BY <1>1, <1>3, <1>17 DEF vars, BatchInv, Batch, Table, Stage
<1>18. QED
  BY <1>4, <1>5, <1>6, <1>7, <1>8, <1>9, <1>10, <1>11, <1>12, <1>13, <1>14, <1>15, <1>16, <1>17
     DEF Next, Work, IsCommand

\* The rows have values of their types, and the row at hand is the only one of the batch
\* that is marked (process_mutations, engine.rs).
THEOREM TypeCorrect == Spec => [](TypeOK /\ BatchInv)
BY InitBatch, TypeStep, BatchStep, PTL DEF Spec

-----------------------------------------------------------------------------
(***************************************************************************)
(* What the table says of a finished change.                                *)
(***************************************************************************)

\* Who completes has carried out; a count lags behind the failures, and only where a
\* statement may fail or the worker ends between the two.
Counts ==
    /\ pc = "complete" => kind[Current] = "bare" \/ Current \in carried
    /\ \A m \in Mutations : retries[m] <= attempts[m]
    /\ pc = "failWrite" => readCount <= attempts[Current]
    /\ OnlyRefusals => \A m \in Mutations :
          attempts[m] = IF pc = "failWrite" /\ m = Current THEN readCount ELSE retries[m]

Recorded ==
    /\ Counts
    /\ \A m \in Mutations : status[m] = "completed" /\ kind[m] # "bare" => m \in carried
    /\ \A m \in Mutations : status[m] = "failed" => attempts[m] >= MaxRetries

\* A step that neither fails nor ends a change.
LEMMA QuietStep ==
    ASSUME TypeOK, BatchInv, Recorded,
           UNCHANGED <<faults, kind, status, retries, attempts>>,
           carried \subseteq carried',
           pc' = "failWrite" => pc = "failWrite" /\ todo' = todo /\ readCount' = readCount,
           OnlyRefusals /\ pc = "failWrite" => pc' = "failWrite",
           pc' = "complete" => kind[Current'] = "bare" \/ Current' \in carried'
    PROVE  Recorded'
<1>1. todo' = todo => Current' = Current
  BY SameCurrent
<1>2. OnlyRefusals' = OnlyRefusals
  BY DEF OnlyRefusals
<1>3. Counts'
  BY <1>1, <1>2 DEF Recorded, Counts
<1>4. QED
  BY <1>3 DEF Recorded

LEMMA RecordedStep == ASSUME TypeOK, BatchInv, Recorded, [Next]_vars PROVE Recorded'
<1> USE DEF world, rows, worker, history
<1>1. PICK c : c = Current
  OBVIOUS
<1>2. pc \notin {"idle", "broken"} => c \in todo /\ c \in 1..made /\ c \in Mutations
  BY <1>1, AtHand
<1>3. todo' = todo => c = Current'
  BY <1>1, SameCurrent
<1>4. faults' = faults
  BY DEF Next, Make, Work, Pass, Mark, FindFolder, Select, Add, Remove, Move, Copy, Store,
         Command, Complete, FailRead, FailWrite, Reconnect, StorageFails, Restart, vars
<1>5. OnlyRefusals' = OnlyRefusals
  BY <1>4 DEF OnlyRefusals
<1>6. ASSUME NEW k \in Kinds, Make(k) PROVE Recorded'
  <2>1. /\ status'[made + 1] = "pending" \/ made + 1 \notin Mutations
        /\ \A m \in Mutations \ {made + 1} : status'[m] = status[m] /\ kind'[m] = kind[m]
    BY <1>6 DEF Make, TypeOK
  <2>2. UNCHANGED <<retries, attempts, carried, pc, todo, readCount>>
    BY <1>6 DEF Make
  <2>3. pc \notin {"idle", "broken"} => c \in Mutations \ {made + 1}
    BY <1>2 DEF TypeOK
  <2>4. Counts'
    BY <1>1, <1>3, <1>5, <2>1, <2>2, <2>3 DEF Recorded, Counts
  <2>5. QED
    BY <2>1, <2>2, <2>4 DEF Recorded
<1>7. CASE Pass
  BY <1>7, QuietStep DEF Pass
<1>8. CASE Mark
  <2>1. status' = [status EXCEPT ![c] = "in_flight"] /\ pc = "mark" /\ pc' = "folder"
        /\ UNCHANGED <<kind, retries, attempts, carried>>
    BY <1>1, <1>8 DEF Mark
  <2>2. /\ status'[c] = "in_flight"
        /\ \A m \in Mutations \ {c} : status'[m] = status[m]
    BY <1>2, <2>1 DEF TypeOK
  <2>3. Counts'
    BY <1>5, <2>1 DEF Recorded, Counts
  <2>4. QED
    BY <2>1, <2>2, <2>3 DEF Recorded
<1>9. CASE FindFolder
  <2>1. /\ UNCHANGED <<kind, status, retries, attempts, carried, todo>>
        /\ pc = "folder" /\ pc' \in {"complete", "failRead", "select"}
        /\ pc' = "complete" => kind[c] = "bare"
    BY <1>1, <1>9 DEF FindFolder
  <2>2. QED
    BY <1>3, <1>4, <2>1, QuietStep
<1>10. CASE Select
  <2>1. kind[c] \in {"read", "unread", "swap", "move", "delete"} /\ pc = "select"
    BY <1>1, <1>2, <1>10 DEF Select, BatchInv, Stage, TypeOK, AllKinds
  <2>2. pc' \in {"broken", "add", "remove", "move", "store"}
    BY <1>1, <1>10, <2>1 DEF Select, Break
  <2>3. UNCHANGED <<kind, status, retries, attempts, carried>>
    BY <1>10 DEF Select
  <2>4. QED
    BY <1>4, <2>1, <2>2, <2>3, QuietStep
<1>11. CASE IsCommand
  <2>1. /\ UNCHANGED <<kind, status, retries, attempts, todo>>
        /\ pc \in {"add", "remove", "move", "copy", "store"}
        /\ pc' \in {"complete", "failRead", "remove", "copy", "store"}
        /\ pc' = "complete" => c \in carried'
        /\ carried \subseteq carried'
    BY <1>1, <1>11, CommandEffect
  <2>2. QED
    BY <1>3, <1>4, <2>1, QuietStep
<1>12. CASE ~ hasMove /\ Move
  BY <1>4, <1>12, QuietStep DEF Move
<1>13. CASE Complete
  <2>1. status' = [status EXCEPT ![c] = "completed"] /\ NextRow /\ pc = "complete"
        /\ UNCHANGED <<kind, retries, attempts, carried>>
    BY <1>1, <1>13 DEF Complete
  <2>2. /\ status'[c] = "completed" /\ (kind[c] = "bare" \/ c \in carried)
        /\ \A m \in Mutations \ {c} : status'[m] = status[m]
    BY <1>1, <1>2, <2>1 DEF TypeOK, Recorded, Counts
  <2>3. pc' \in {"idle", "mark"}
    BY <1>1, <2>1, NextRowEffect
  <2>4. Counts'
    BY <1>5, <2>1, <2>3 DEF Recorded, Counts
  <2>5. QED
    BY <2>1, <2>2, <2>4 DEF Recorded
<1>14. CASE FailRead
  <2>1. /\ readCount' = retries[c] + 1
        /\ attempts' = [attempts EXCEPT ![c] = attempts[c] + 1]
        /\ pc = "failRead" /\ pc' = "failWrite"
        /\ UNCHANGED <<kind, status, retries, carried, todo>>
    BY <1>1, <1>14 DEF FailRead
  <2>2. /\ attempts'[c] = attempts[c] + 1 /\ c = Current'
        /\ \A m \in Mutations \ {c} : attempts'[m] = attempts[m]
    BY <1>2, <1>3, <2>1 DEF TypeOK
  <2>3. \A m \in Mutations : attempts[m] \in Nat /\ retries[m] \in Nat
    BY DEF TypeOK
  <2>4. \A m \in Mutations : attempts'[m] >= attempts[m]
    BY <1>2, <2>1, <2>2, <2>3
  <2>5. \A m \in Mutations : attempts'[m] \in Nat
    BY <1>2, <2>1, <2>2, <2>3
  <2>6. Counts'
    <3>1. \A m \in Mutations : retries'[m] <= attempts'[m]
      BY <2>1, <2>3, <2>4, <2>5 DEF Recorded, Counts
    <3>2. readCount' <= attempts'[c]
      BY <1>2, <2>1, <2>2, <2>3 DEF Recorded, Counts
    <3>3. OnlyRefusals => \A m \in Mutations : attempts[m] = retries[m]
      BY <2>1 DEF Recorded, Counts
    <3>4. QED
      BY <1>2, <1>5, <2>1, <2>2, <3>1, <3>2, <3>3 DEF Counts
  <2>7. QED
    BY <2>1, <2>3, <2>4, <2>5, <2>6 DEF Recorded
<1>15. CASE FailWrite
  <2>1. /\ status' = [status EXCEPT ![c] = IF readCount >= MaxRetries THEN "failed" ELSE "pending"]
        /\ retries' = [retries EXCEPT ![c] = readCount]
        /\ NextRow /\ pc = "failWrite" /\ UNCHANGED <<kind, attempts, carried, readCount>>
    BY <1>1, <1>15 DEF FailWrite
  <2>2. /\ status'[c] = IF readCount >= MaxRetries THEN "failed" ELSE "pending"
        /\ retries'[c] = readCount
        /\ \A m \in Mutations \ {c} : status'[m] = status[m] /\ retries'[m] = retries[m]
    BY <1>2, <2>1 DEF TypeOK
  <2>3. pc' \in {"idle", "mark"}
    BY <1>1, <2>1, NextRowEffect
  <2>4. c \in Mutations /\ readCount \in Nat /\ attempts[c] \in Nat /\ readCount <= attempts[c]
    BY <1>1, <1>2, <2>1 DEF Recorded, Counts, TypeOK
  <2>5. OnlyRefusals => \A m \in Mutations : attempts[m] = IF m = c THEN readCount ELSE retries[m]
    BY <1>1, <2>1 DEF Recorded, Counts
  <2>6. Counts'
    BY <1>5, <2>1, <2>2, <2>3, <2>4, <2>5 DEF Recorded, Counts
  <2>7. \A m \in Mutations : status'[m] = "failed" => attempts[m] >= MaxRetries
    BY <2>2, <2>4 DEF Recorded
  <2>8. QED
    BY <2>1, <2>2, <2>6, <2>7 DEF Recorded
<1>16. CASE StorageFails
  <2>1. ~ OnlyRefusals
    BY <1>16 DEF StorageFails, OnlyRefusals
  <2>2. pc' \in {"broken", "idle", "mark"}
    BY <1>1, <1>16, NextRowEffect DEF StorageFails, Break
  <2>3. QED
    BY <1>4, <1>16, <2>1, <2>2, QuietStep DEF StorageFails
<1>17. CASE Reconnect
  BY <1>4, <1>17, QuietStep DEF Reconnect
<1>18. CASE Restart
  <2>1. ~ OnlyRefusals
    BY <1>18 DEF Restart, OnlyRefusals
  <2>2. QED
    BY <1>4, <1>18, <2>1, QuietStep DEF Restart
<1>19. CASE UNCHANGED vars
  BY <1>1, <1>3, <1>19, QuietStep DEF vars, Recorded, Counts
<1>20. QED
  BY <1>6, <1>7, <1>8, <1>9, <1>10, <1>11, <1>12, <1>13, <1>14, <1>15, <1>16, <1>17, <1>18, <1>19
     DEF Next, Work, IsCommand

\* The table tells the truth about a finished change, whatever was refused or broke off and
\* whenever the worker was restarted: a completed one has been carried out, one is given up
\* after its last failure, and with a working disk no failure is forgotten or counted twice
\* (mark_mutation_failed reads the count and writes it in two statements).
THEOREM OutcomesAreTrue == Spec => []OutcomeIsTrue
<1>1. Init => Recorded
  BY DEF Init, Recorded, Counts
<1>2. TypeOK /\ Recorded => OutcomeIsTrue
  <2> SUFFICES ASSUME TypeOK, Recorded, NEW m \in Mutations
               PROVE  OnlyRefusals => attempts[m] <= MaxRetries
    BY DEF Recorded, OutcomeIsTrue
  <2>1. retries[m] <= MaxRetries /\ readCount <= MaxRetries
    BY DEF TypeOK
  <2>2. QED
    BY <2>1 DEF Recorded, Counts
<1>3. QED
  BY <1>1, <1>2, InitBatch, TypeStep, BatchStep, RecordedStep, PTL DEF Spec

-----------------------------------------------------------------------------
(***************************************************************************)
(* What happens to the message.                                             *)
(***************************************************************************)

Deleting == \E m \in Mutations : Has(m, "delete")

\* A move that failed, or was left in flight.
Excuse ==
    \E m \in Mutations : Has(m, "move") /\ (attempts[m] > 0 \/ (status[m] = "in_flight" /\ m \notin todo))

\* The move at hand may have made its copy and left the original.
MoveAtHand == pc \in {"store", "failRead"} /\ kind[Current] = "move"

Kept ==
    /\ box.src = "live" \/ box.copies > 0 \/ Deleting
    /\ box.copies > 1 => Excuse
    /\ pc = "store" /\ kind[Current] = "move" => box.copies > 0 \/ Deleting
    /\ box.src = "live" /\ box.copies > 0 => Excuse \/ MoveAtHand

\* What a change is, and that it failed or was left in flight, stays so.
LEMMA ExcusesStay ==
    ASSUME TypeOK, BatchInv, [Next]_vars
    PROVE  (Deleting => Deleting') /\ (Excuse => Excuse')
<1> USE DEF world, rows, worker, history
<1>1. PICK c : c = Current
  OBVIOUS
<1>2. pc \notin {"idle", "broken"} => c \in todo /\ c \in 1..made /\ c \in Mutations
  BY <1>1, AtHand
<1>3. /\ made \in Nat /\ made' \in Nat /\ made <= made'
      /\ \A m \in Mutations : m <= made => kind'[m] = kind[m]
  <2>1. CASE UNCHANGED <<made, kind>>
    BY <2>1 DEF TypeOK
  <2>2. ASSUME NEW k \in Kinds, Make(k)
        PROVE  /\ made \in Nat /\ made' \in Nat /\ made <= made'
               /\ \A m \in Mutations : m <= made => kind'[m] = kind[m]
    <3>1. made' = made + 1 /\ kind' = [kind EXCEPT ![made + 1] = k] /\ made \in Nat
      BY <2>2 DEF Make, TypeOK
    <3>2. \A m \in Mutations : m <= made => m # made + 1
      BY <3>1 DEF Mutations
    <3>3. QED
      BY <3>1, <3>2 DEF TypeOK
  <2>3. QED
    BY <2>1, <2>2 DEF Next, Work, Pass, Mark, FindFolder, Select, Add, Remove, Move, Copy, Store,
       Command, Complete, FailRead, FailWrite, Reconnect, StorageFails, Restart, vars
<1>4. \A m \in Mutations, k \in AllKinds : Has(m, k) => Has(m, k)'
  BY <1>3 DEF Has, Mutations
<1>5. \A m \in Mutations : attempts[m] > 0 => attempts'[m] > 0
  <2>1. CASE attempts' = attempts
    BY <2>1
  <2>2. CASE FailRead
    <3>1. attempts' = [attempts EXCEPT ![c] = attempts[c] + 1] /\ c \in Mutations
      BY <1>1, <1>2, <2>2 DEF FailRead
    <3>2. \A m \in Mutations : attempts[m] \in Nat
      BY DEF TypeOK
    <3>3. QED
      BY <3>1, <3>2 DEF TypeOK
  <2>3. QED
    BY <2>1, <2>2 DEF Next, Work, Make, Pass, Mark, FindFolder, Select, Add, Remove, Move, Copy,
       Store, Command, Complete, FailWrite, Reconnect, StorageFails, Restart, vars
<1>6. \A m \in Mutations :
         m <= made /\ status[m] = "in_flight" /\ m \notin todo
         => status'[m] = "in_flight" /\ m \notin todo'
  <2> SUFFICES ASSUME NEW m \in Mutations, m <= made, status[m] = "in_flight", m \notin todo
               PROVE  status'[m] = "in_flight" /\ m \notin todo'
    OBVIOUS
  <2>1. m # made + 1 /\ m \in Nat /\ made \in Nat
    BY DEF Mutations, TypeOK
  <2>2. CASE Pass
    <3>1. todo' \subseteq Pending
      BY <2>2, OldestRows DEF Pass, Pending
    <3>2. QED
      BY <2>2, <3>1 DEF Pass, Pending
  <2>3. CASE todo' \subseteq todo /\ (status' = status \/ \E v : status' = [status EXCEPT ![c] = v])
             /\ pc \notin {"idle", "broken"}
    BY <1>2, <2>3 DEF TypeOK
  <2>4. CASE todo' \subseteq todo /\ status' = status
    BY <2>4
  <2>5. ASSUME NEW k \in Kinds, Make(k) PROVE  status'[m] = "in_flight" /\ m \notin todo'
    BY <2>1, <2>5 DEF Make, TypeOK
  <2>6. NextRow => todo' \subseteq todo
    BY <1>1, NextRowEffect
  <2>7. CASE Mark \/ Complete \/ FailWrite
    <3>1. todo' \subseteq todo /\ pc \notin {"idle", "broken"}
      BY <2>6, <2>7 DEF Mark, Complete, FailWrite
    <3>2. \E v : status' = [status EXCEPT ![c] = v]
      BY <1>1, <2>7 DEF Mark, Complete, FailWrite
    <3>3. QED
      BY <2>3, <3>1, <3>2
  <2>8. CASE FindFolder \/ Select \/ IsCommand \/ (~ hasMove /\ Move) \/ FailRead \/ Reconnect
             \/ Restart \/ StorageFails \/ UNCHANGED vars
    <3>1. todo' \subseteq todo /\ status' = status
      BY <2>6, <2>8 DEF FindFolder, Select, Break, IsCommand, Add, Remove, Move, Copy, Store,
         Command, FailRead, Reconnect, Restart, StorageFails, vars
    <3>2. QED
      BY <2>4, <3>1
  <2>9. QED
    BY <2>2, <2>5, <2>7, <2>8 DEF Next, Work, IsCommand
<1>7. QED
  BY <1>4, <1>5, <1>6 DEF Deleting, Excuse, AllKinds, Has

\* A step that leaves the message alone.
LEMMA UntouchedStep ==
    ASSUME TypeOK, BatchInv, Kept, [Next]_vars, box' = box,
           MoveAtHand => MoveAtHand' \/ Excuse',
           pc' = "store" /\ kind'[Current'] = "move" => pc = "store" /\ kind[Current] = "move"
    PROVE  Kept'
BY ExcusesStay DEF Kept

LEMMA CopyStep ==
    ASSUME TypeOK, BatchInv, Kept, Copy, Deleting => Deleting', Excuse => Excuse'
    PROVE  Kept'
<1> USE DEF Command, Succeeds, CommandFails, Takes, NoEffect
<1>1. PICK c : c = Current
  OBVIOUS
<1>2. /\ pc = "copy" /\ kind' = kind /\ todo' = todo
      /\ pc' = "store" \/ pc' = "failRead"
      /\ box' = CopyOver \/ (box' = box /\ pc' = "failRead")
  BY DEF Copy
<1>3. kind'[c] = "move" /\ Current' = c
  BY <1>1, <1>2, SameCurrent DEF BatchInv, Stage
<1>4. MoveAtHand'
  BY <1>2, <1>3 DEF MoveAtHand
<1>5. box \in Boxes /\ box.copies \in Nat
  BY DEF TypeOK, Boxes
<1>6. CASE box' = box /\ pc' = "failRead"
  BY <1>4, <1>6 DEF Kept
<1>7. CASE box' = CopyOver
  <2>1. /\ box'.src = box.src
        /\ box'.copies = IF box.src = "live" THEN box.copies + 1 ELSE box.copies
    BY <1>5, <1>7, ServerEffect
  <2>2. ~ MoveAtHand
    BY <1>2 DEF MoveAtHand
  <2>3. box'.copies > 1 => Excuse
    BY <1>5, <2>1, <2>2 DEF Kept
  <2>4. box'.copies > 0 \/ Deleting
    BY <1>5, <2>1 DEF Kept
  <2>5. QED
    BY <1>4, <2>3, <2>4 DEF Kept
<1>8. QED
  BY <1>2, <1>6, <1>7

LEMMA MoveStep ==
    ASSUME TypeOK, BatchInv, Kept, Move, hasMove, Deleting => Deleting', Excuse => Excuse'
    PROVE  Kept'
<1> USE DEF Command, Succeeds, CommandFails, Takes, NoEffect
<1>1. pc = "move" /\ pc' \in {"complete", "copy"} /\ (box' = MoveOver \/ box' = box)
  BY DEF Move
<1>2. box \in Boxes /\ box.copies \in Nat
  BY DEF TypeOK, Boxes
<1>3. ~ MoveAtHand
  BY <1>1 DEF MoveAtHand
<1>4. CASE box' = box
  BY <1>1, <1>3, <1>4 DEF Kept
<1>5. CASE box' = MoveOver
  <2>1. /\ box'.src = "gone"
        /\ box'.copies = IF box.src = "live" THEN box.copies + 1 ELSE box.copies
    BY <1>2, <1>5, ServerEffect
  <2>2. box'.copies > 1 => Excuse
    BY <1>2, <1>3, <2>1 DEF Kept
  <2>3. box'.copies > 0 \/ Deleting
    BY <1>2, <2>1 DEF Kept
  <2>4. QED
    BY <1>1, <2>1, <2>2, <2>3 DEF Kept
<1>6. QED
  BY <1>1, <1>4, <1>5

LEMMA StoreStep ==
    ASSUME TypeOK, BatchInv, Kept, Store, Deleting => Deleting', Excuse => Excuse'
    PROVE  Kept'
<1> USE DEF Command, Succeeds, CommandFails, Takes, NoEffect
<1>1. PICK c : c = Current
  OBVIOUS
<1>2. /\ pc = "store" /\ kind' = kind /\ todo' = todo
      /\ pc' = "complete" \/ pc' = "failRead"
      /\ box' = MarkDeleted \/ (box' = box /\ pc' = "failRead")
  BY DEF Store
<1>3. Current' = c /\ kind[c] \in {"move", "delete"} /\ c \in Mutations /\ c <= made
  BY <1>1, <1>2, SameCurrent, AtHand DEF BatchInv, Stage, TypeOK
<1>4. CASE box' = box /\ pc' = "failRead"
  <2>1. MoveAtHand => MoveAtHand'
    BY <1>1, <1>2, <1>3, <1>4 DEF MoveAtHand
  <2>2. QED
    BY <1>4, <2>1 DEF Kept
<1>5. CASE box' = MarkDeleted
  <2>1. box'.src # "live" /\ box'.copies = box.copies
    BY <1>5, ServerEffect DEF TypeOK, Boxes
  <2>2. box.copies > 0 \/ Deleting
    BY <1>1, <1>2, <1>3 DEF Kept, Deleting, Has
  <2>3. QED
    BY <1>2, <2>1, <2>2 DEF Kept
<1>6. QED
  BY <1>2, <1>4, <1>5

LEMMA KeptStep == ASSUME TypeOK, BatchInv, Kept, [Next]_vars PROVE Kept'
<1> USE DEF world, rows, worker, history
<1>1. PICK c : c = Current
  OBVIOUS
<1>2. pc \notin {"idle", "broken"} => c \in todo /\ c \in 1..made /\ c \in Mutations
  BY <1>1, AtHand
<1>3. todo' = todo => Current' = c
  BY <1>1, SameCurrent
<1>4. (Deleting => Deleting') /\ (Excuse => Excuse')
  BY ExcusesStay
<1>5. ASSUME NEW k \in Kinds, Make(k) PROVE Kept'
  <2>1. pc \notin {"idle", "broken"} => kind'[c] = kind[c]
    BY <1>2, <1>5 DEF Make, TypeOK
  <2>2. pc' = pc /\ todo' = todo /\ box' = box
    BY <1>5 DEF Make
  <2>3. QED
    BY <1>1, <1>3, <2>1, <2>2, UntouchedStep DEF MoveAtHand
<1>6. CASE Pass \/ Mark
  BY <1>6, UntouchedStep DEF Pass, Mark, MoveAtHand
<1>7. CASE FindFolder
  <2>1. pc = "folder" /\ pc' \in {"complete", "failRead", "select"} /\ box' = box
    BY <1>7 DEF FindFolder
  <2>2. QED
    BY <2>1, UntouchedStep DEF MoveAtHand
<1>8. CASE Select
  <2>1. kind[c] \in {"read", "unread", "swap", "move", "delete"} /\ pc = "select"
    BY <1>1, <1>2, <1>8 DEF Select, BatchInv, Stage, TypeOK, AllKinds
  <2>2. pc' = "store" => todo' = todo /\ kind'[c] = "delete"
    BY <1>1, <1>8, <2>1 DEF Select, Break
  <2>3. box' = box
    BY <1>8 DEF Select
  <2>4. QED
    BY <1>3, <2>1, <2>2, <2>3, UntouchedStep DEF MoveAtHand
<1>9. CASE Add \/ Remove
  <2>1. /\ pc \in {"add", "remove"} /\ pc' \in {"complete", "failRead", "remove"}
        /\ box' = box \/ box' = AddSeen \/ box' = RemoveFlag \/ box' = RemoveSeen
    BY <1>9 DEF Add, Remove, Command, Succeeds, CommandFails, Takes, NoEffect
  <2>2. box'.src = box.src /\ box'.copies = box.copies
    BY <2>1, ServerEffect DEF TypeOK, Boxes
  <2>3. QED
    BY <1>4, <2>1, <2>2 DEF Kept, MoveAtHand
<1>10. CASE Move
  <2>1. CASE hasMove
    BY <1>4, <1>10, <2>1, MoveStep
  <2>2. CASE ~ hasMove
    BY <1>10, <2>2, UntouchedStep DEF Move, MoveAtHand
  <2>3. QED
    BY <2>1, <2>2
<1>11. CASE Copy \/ Store
  BY <1>4, <1>11, CopyStep, StoreStep
<1>12. CASE Complete \/ FailWrite
  <2>1. pc' \in {"idle", "mark"} /\ box' = box /\ pc \in {"complete", "failWrite"}
    BY <1>1, <1>12, NextRowEffect DEF Complete, FailWrite
  <2>2. QED
    BY <2>1, UntouchedStep DEF MoveAtHand
<1>13. CASE FailRead
  <2>1. /\ attempts' = [attempts EXCEPT ![c] = attempts[c] + 1] /\ UNCHANGED <<made, kind>>
        /\ pc = "failRead" /\ pc' = "failWrite" /\ box' = box
    BY <1>1, <1>13 DEF FailRead
  <2>2. attempts[c] \in Nat /\ c \in Mutations /\ c <= made
    BY <1>2, <2>1 DEF TypeOK
  <2>3. attempts'[c] > 0
    BY <2>1, <2>2 DEF TypeOK
  <2>4. MoveAtHand => Excuse'
    BY <1>1, <2>1, <2>2, <2>3 DEF MoveAtHand, Excuse, Has
  <2>5. QED
    BY <2>1, <2>4, UntouchedStep
<1>14. CASE StorageFails \/ Restart
  <2>1. /\ UNCHANGED <<made, kind, status, box>> /\ todo' \subseteq todo
        /\ pc' \in {"idle", "mark", "broken"}
        /\ pc \in {"store", "failRead"} => c \notin todo'
    BY <1>1, <1>14, NextRowEffect DEF StorageFails, Restart, Break
  <2>2. pc \in {"store", "failRead"} => c \in Mutations /\ c <= made /\ status[c] = "in_flight"
    BY <1>1, <1>2 DEF BatchInv, Batch, TypeOK
  <2>3. MoveAtHand => Excuse'
    BY <1>1, <2>1, <2>2 DEF MoveAtHand, Excuse, Has
  <2>4. QED
    BY <2>1, <2>3, UntouchedStep
<1>15. CASE Reconnect
  BY <1>15, UntouchedStep DEF Reconnect, MoveAtHand
<1>16. CASE UNCHANGED vars
  BY <1>1, <1>3, <1>16, UntouchedStep DEF vars, MoveAtHand
<1>17. QED
  BY <1>5, <1>6, <1>7, <1>8, <1>9, <1>10, <1>11, <1>12, <1>13, <1>14, <1>15, <1>16
     DEF Next, Work

\* However a move is carried out, refused, cut short and tried again: the message is where it
\* was or has a copy, unless it was to be deleted, and has a second copy only after a move
\* that failed or was interrupted (move_message falls back to COPY and STORE).
THEOREM MessageIsKept == Spec => []NeitherLostNorMultiplied
<1>1. Init => Kept
  BY DEF Init, Kept
<1>2. Kept => NeitherLostNorMultiplied
  BY DEF Kept, Deleting, Excuse, NeitherLostNorMultiplied
<1>3. QED
  BY <1>1, <1>2, InitBatch, TypeStep, BatchStep, KeptStep, PTL DEF Spec

-----------------------------------------------------------------------------
(***************************************************************************)
(* The order in which changes take effect.                                  *)
(***************************************************************************)

\* Nothing went wrong so far: what waits is newer than what was done. (A change that cannot be
\* carried out at all is tried again behind newer ones, and touches nothing.)
Calm ==
    /\ conn
    /\ \A m \in Mutations : status[m] = "in_flight" => m \in todo
    /\ pc \in {"failRead", "failWrite"} => kind[Current] = "lost"
    /\ \A m \in Mutations :
          status[m] \in {"pending", "in_flight"} /\ kind[m] # "lost" => m >= lastSeen
    /\ \A m \in todo, n \in Mutations \ todo :
          status[n] = "pending" /\ kind[n] # "lost" => n > m
    /\ pc = "complete" /\ kind[Current] \in {"read", "unread"} /\ Present => lastSeen >= Current
    /\ lastSeen <= made

Newest ==
    \A m \in Mutations :
        status[m] = "completed" /\ kind[m] \in {"read", "unread"} /\ Present => lastSeen >= m

\* Without failures a command succeeds, and its change is the last one that it concerns.
LEMMA CalmCommand ==
    ASSUME TypeOK, BatchInv, faults = {}, conn, IsCommand, NEW c, c = Current
    PROVE  /\ conn' /\ pc' \in {"complete", "remove", "copy", "store"}
           /\ kind[c] # "lost"
           /\ lastSeen' \in {lastSeen, c}
           /\ pc' = "complete" /\ kind[c] \in {"read", "unread"} => lastSeen' = c
           /\ Present' => Present
<1> USE DEF Command, Succeeds, CommandFails, Takes, NoEffect
<1>1. box \in Boxes
  BY DEF TypeOK, Boxes
<1>2. CASE Add
  <2>1. kind[c] \in {"read", "swap"} /\ conn' /\ box' = AddSeen
        /\ pc' = IF kind[c] = "swap" THEN "remove" ELSE "complete"
    BY <1>2 DEF Add, BatchInv, Stage
  <2>2. box'.src = box.src
    BY <1>1, <2>1, ServerEffect
  <2>3. lastSeen' \in {lastSeen, c} /\ (kind[c] = "read" => lastSeen' = c)
    BY <1>2 DEF Add
  <2>4. QED
    BY <2>1, <2>2, <2>3 DEF Present
<1>3. CASE Remove
  <2>1. kind[c] \in {"unread", "swap"} /\ conn' /\ pc' = "complete"
        /\ (box' = RemoveFlag \/ box' = RemoveSeen)
    BY <1>3 DEF Remove, BatchInv, Stage
  <2>2. box'.src = box.src
    BY <1>1, <2>1, ServerEffect
  <2>3. lastSeen' \in {lastSeen, c} /\ (kind[c] = "unread" => lastSeen' = c)
    BY <1>3 DEF Remove
  <2>4. QED
    BY <2>1, <2>2, <2>3 DEF Present
<1>4. CASE hasMove /\ Move
  <2>1. kind[c] = "move" /\ conn' /\ pc' = "complete" /\ box' = MoveOver
        /\ lastSeen' \in {lastSeen, c}
    BY <1>4 DEF Move, BatchInv, Stage
  <2>2. box'.src = "gone"
    BY <1>1, <2>1, ServerEffect
  <2>3. QED
    BY <2>1, <2>2 DEF Present
<1>5. CASE Copy
  <2>1. kind[c] = "move" /\ conn' /\ pc' = "store" /\ box' = CopyOver
        /\ lastSeen' \in {lastSeen, c}
    BY <1>5 DEF Copy, BatchInv, Stage
  <2>2. box'.src = box.src
    BY <1>1, <2>1, ServerEffect
  <2>3. QED
    BY <2>1, <2>2 DEF Present
<1>6. CASE Store
  <2>1. kind[c] \in {"move", "delete"} /\ conn' /\ pc' = "complete" /\ box' = MarkDeleted
        /\ lastSeen' \in {lastSeen, c}
    BY <1>6 DEF Store, BatchInv, Stage
  <2>2. Present' => Present
    BY <2>1 DEF Present, MarkDeleted
  <2>3. QED
    BY <2>1, <2>2
<1>7. QED
  BY <1>2, <1>3, <1>4, <1>5, <1>6 DEF IsCommand

LEMMA CalmStep ==
    ASSUME TypeOK, BatchInv, faults = {}, Calm, Newest, [Next]_vars
    PROVE  Calm' /\ Newest'
<1> USE DEF world, rows, worker, history
<1>1. PICK c : c = Current
  OBVIOUS
<1>2. pc \notin {"idle", "broken"} =>
         c \in todo /\ c \in 1..made /\ c \in Mutations /\ \A m \in todo : c <= m
  BY <1>1, AtHand
<1>3. todo' = todo => Current' = c
  BY <1>1, SameCurrent
<1>4. /\ made \in Nat /\ lastSeen \in Nat /\ todo \subseteq Mutations
      /\ \A m \in todo : m <= made
      /\ \A m \in Mutations : m \in Nat
  BY DEF TypeOK, Mutations
<1>5. ASSUME NEW k \in Kinds, Make(k) PROVE Calm' /\ Newest'
  <2>1. made + 1 \in Mutations
    BY <1>5 DEF Make, TypeOK, Mutations
  <2>2. /\ status'[made + 1] = "pending"
        /\ \A m \in Mutations \ {made + 1} : status'[m] = status[m] /\ kind'[m] = kind[m]
    BY <1>5, <2>1 DEF Make, TypeOK
  <2>3. UNCHANGED <<conn, pc, todo, lastSeen, box>> /\ made' = made + 1
    BY <1>5 DEF Make
  <2>4. \A m \in todo : m # made + 1
    BY <1>4
  <2>5. conn' /\ (\A m \in Mutations : status'[m] = "in_flight" => m \in todo')
    BY <2>2, <2>3 DEF Calm
  <2>6. \A m \in Mutations :
           status'[m] \in {"pending", "in_flight"} /\ kind'[m] # "lost" => m >= lastSeen'
    BY <1>4, <2>2, <2>3 DEF Calm
  <2>7. \A m \in todo', n \in Mutations \ todo' :
           status'[n] = "pending" /\ kind'[n] # "lost" => n > m
    <3> SUFFICES ASSUME NEW m \in todo, NEW n \in Mutations \ todo,
                        status'[n] = "pending", kind'[n] # "lost"
                 PROVE  n > m
      BY <2>3
    <3>1. CASE n = made + 1
      BY <1>4, <3>1
    <3>2. CASE n # made + 1
      BY <2>2, <3>2 DEF Calm
    <3>3. QED
      BY <3>1, <3>2
  <2>8. pc \notin {"idle", "broken"} => kind'[c] = kind[c]
    BY <1>2, <2>2, <2>4
  <2>9. /\ pc' \in {"failRead", "failWrite"} => kind'[Current'] = "lost"
        /\ pc' = "complete" /\ kind'[Current'] \in {"read", "unread"} /\ Present' =>
              lastSeen' >= Current'
    BY <1>1, <1>3, <2>3, <2>8 DEF Calm, Present
  <2>10. lastSeen' <= made'
    BY <1>4, <2>3 DEF Calm
  <2>11. Newest'
    BY <2>2, <2>3 DEF Newest, Present
  <2>12. QED
    BY <2>5, <2>6, <2>7, <2>9, <2>10, <2>11 DEF Calm
<1>6. CASE Pass
  <2>1. todo' \subseteq Pending /\ \A m \in todo', n \in Pending \ todo' : m < n
    BY <1>6, OldestRows DEF Pass, Pending
  <2>2. todo = {} /\ pc' = "mark" /\ UNCHANGED <<conn, status, kind, lastSeen, made, box>>
    BY <1>6 DEF Pass, BatchInv, Batch
  <2>3. \A m \in todo', n \in Mutations \ todo' : status[n] = "pending" => n > m
    <3> SUFFICES ASSUME NEW m \in todo', NEW n \in Mutations \ todo', status[n] = "pending"
                 PROVE  n > m
      OBVIOUS
    <3>1. m < n /\ m \in Mutations
      BY <2>1 DEF Pending
    <3>2. QED
      BY <1>4, <3>1
  <2>4. QED
    BY <2>2, <2>3 DEF Calm, Newest, Present
<1>7. CASE Mark
  <2>1. status' = [status EXCEPT ![c] = "in_flight"] /\ pc = "mark" /\ pc' = "folder"
        /\ UNCHANGED <<conn, todo, kind, lastSeen, made, box>>
    BY <1>1, <1>7 DEF Mark
  <2>2. /\ status'[c] = "in_flight" /\ status[c] = "pending"
        /\ \A m \in Mutations \ {c} : status'[m] = status[m]
    BY <1>2, <2>1 DEF TypeOK, BatchInv, Batch
  <2>3. QED
    BY <1>2, <2>1, <2>2 DEF Calm, Newest, Present
<1>8. CASE FindFolder
  <2>1. /\ pc' \in {"complete", "failRead", "select"}
        /\ pc' = "complete" => kind[c] = "bare"
        /\ pc' = "failRead" => kind[c] = "lost"
        /\ UNCHANGED <<conn, todo, status, kind, lastSeen, made, box>>
    BY <1>1, <1>8 DEF FindFolder
  <2>2. QED
    BY <1>3, <2>1 DEF Calm, Newest, Present
<1>9. CASE Select
  <2>1. kind[c] \in {"read", "unread", "swap", "move", "delete"} /\ pc = "select"
    BY <1>1, <1>2, <1>9 DEF Select, BatchInv, Stage, TypeOK, AllKinds
  <2>2. /\ pc' \in {"add", "remove", "move", "store"}
        /\ UNCHANGED <<conn, todo, status, kind, lastSeen, made, box>>
    BY <1>1, <1>9, <2>1 DEF Select, Calm
  <2>3. QED
    BY <2>2 DEF Calm, Newest, Present
<1>10. CASE IsCommand
  <2>1. /\ UNCHANGED <<made, kind, status, todo>>
        /\ pc \in {"add", "remove", "move", "copy", "store"}
    BY <1>1, <1>10, CommandEffect
  <2>2. /\ conn' /\ pc' \in {"complete", "remove", "copy", "store"}
        /\ kind[c] # "lost"
        /\ lastSeen' \in {lastSeen, c}
        /\ pc' = "complete" /\ kind[c] \in {"read", "unread"} => lastSeen' = c
        /\ Present' => Present
    BY <1>1, <1>10, CalmCommand DEF Calm
  <2>3. status[c] = "in_flight" /\ c \in Mutations /\ c <= made
    BY <1>1, <1>2, <1>4, <2>1 DEF BatchInv, Batch
  <2>4. lastSeen <= c /\ lastSeen' \in Nat /\ c \in Nat /\ lastSeen <= lastSeen'
    BY <1>4, <2>2, <2>3 DEF Calm
  <2>5. \A m \in Mutations :
           status[m] \in {"pending", "in_flight"} /\ kind[m] # "lost" => m >= lastSeen'
    <3> SUFFICES ASSUME NEW m \in Mutations, status[m] \in {"pending", "in_flight"},
                        kind[m] # "lost"
                 PROVE  m >= c /\ m >= lastSeen
      BY <2>2
    <3>1. m >= lastSeen
      BY DEF Calm
    <3>2. CASE m \in todo
      BY <1>2, <1>4, <2>1, <2>4, <3>1, <3>2
    <3>3. CASE m \notin todo
      <4>1. m > c
        BY <1>2, <2>1, <3>3 DEF Calm
      <4>2. QED
        BY <1>4, <2>4, <3>1, <4>1
    <3>4. QED
      BY <3>2, <3>3
  <2>6. Newest'
    <3> SUFFICES ASSUME NEW m \in Mutations, status[m] = "completed",
                        kind[m] \in {"read", "unread"}, Present'
                 PROVE  lastSeen' >= m
      BY <2>1 DEF Newest
    <3>1. lastSeen >= m
      BY <2>2 DEF Newest
    <3>2. QED
      BY <1>4, <2>4, <3>1
  <2>7. pc' = "complete" /\ kind[c] \in {"read", "unread"} => lastSeen' >= c
    BY <2>2, <2>4
  <2>8. lastSeen' <= made
    BY <2>2, <2>3 DEF Calm
  <2>9. Calm'
    BY <1>3, <2>1, <2>2, <2>5, <2>7, <2>8 DEF Calm
  <2>10. QED
    BY <2>6, <2>9
<1>11. CASE ~ hasMove /\ Move
  BY <1>11 DEF Move, Calm, Newest, Present
<1>12. CASE Complete
  <2>1. status' = [status EXCEPT ![c] = "completed"] /\ NextRow /\ pc = "complete"
        /\ UNCHANGED <<conn, kind, lastSeen, made, box>>
    BY <1>1, <1>12 DEF Complete
  <2>2. /\ status'[c] = "completed" /\ c \in Mutations
        /\ \A m \in Mutations \ {c} : status'[m] = status[m]
    BY <1>2, <2>1 DEF TypeOK
  <2>3. pc' \in {"idle", "mark"} /\ todo' = todo \ {c}
    BY <1>1, <2>1, NextRowEffect
  <2>4. Calm'
    BY <2>1, <2>2, <2>3 DEF Calm
  <2>5. kind[c] \in {"read", "unread"} /\ Present => lastSeen >= c
    BY <1>1, <2>1 DEF Calm
  <2>6. Newest'
    BY <2>1, <2>2, <2>5 DEF Newest, Present
  <2>7. QED
    BY <2>4, <2>6
<1>13. CASE FailRead
  <2>1. pc = "failRead" /\ pc' = "failWrite"
        /\ UNCHANGED <<conn, todo, status, kind, lastSeen, made, box>>
    BY <1>13 DEF FailRead
  <2>2. QED
    BY <1>1, <1>3, <2>1 DEF Calm, Newest, Present
<1>14. CASE FailWrite
  <2>1. status' = [status EXCEPT ![c] = IF readCount >= MaxRetries THEN "failed" ELSE "pending"]
        /\ NextRow /\ pc = "failWrite" /\ UNCHANGED <<conn, kind, lastSeen, made, box>>
    BY <1>1, <1>14 DEF FailWrite
  <2>2. /\ status'[c] \in {"failed", "pending"} /\ c \in Mutations /\ kind[c] = "lost"
        /\ \A m \in Mutations \ {c} : status'[m] = status[m]
    BY <1>1, <1>2, <2>1 DEF TypeOK, Calm
  <2>3. pc' \in {"idle", "mark"} /\ todo' = todo \ {c}
    BY <1>1, <2>1, NextRowEffect
  <2>4. Calm'
    BY <2>1, <2>2, <2>3 DEF Calm
  <2>5. Newest'
    BY <2>1, <2>2 DEF Newest, Present
  <2>6. QED
    BY <2>4, <2>5
<1>15. CASE Reconnect
  BY <1>15 DEF Reconnect, Calm, Newest, Present
<1>16. CASE StorageFails \/ Restart
  BY <1>16 DEF StorageFails, Restart
<1>17. CASE UNCHANGED vars
  BY <1>1, <1>3, <1>17 DEF vars, Calm, Newest, Present
<1>18. QED
  BY <1>5, <1>6, <1>7, <1>8, <1>9, <1>10, <1>11, <1>12, <1>13, <1>14, <1>15, <1>16, <1>17
     DEF Next, Work, IsCommand

\* As long as nothing goes wrong, the newest completed change of a message wins, over every
\* batch and however many changes are made meanwhile (peek_pending_mutations and the
\* loop of process_mutations).
THEOREM NewestChangeWins == Spec => []NewestWins
<1> DEFINE Inv == faults = {} => Calm /\ Newest
<1>1. Init => Inv
  BY DEF Init, Calm, Newest, Mutations
<1>2. TypeOK /\ BatchInv /\ Inv /\ [Next]_vars => Inv'
  <2>1. [Next]_vars => faults' = faults
    BY DEF Next, Make, Work, Pass, Mark, FindFolder, Select, Add, Remove, Move, Copy, Store,
       Command, Complete, FailRead, FailWrite, Reconnect, StorageFails, Restart, vars, world
  <2>2. QED
    BY <2>1, CalmStep
<1>3. Inv => NewestWins
  BY DEF Newest, NewestWins
<1>4. QED
  BY <1>1, <1>2, <1>3, InitBatch, TypeStep, BatchStep, PTL DEF Spec

-----------------------------------------------------------------------------
(***************************************************************************)
(* The queue of changes.                                                    *)
(***************************************************************************)

\* While commands are at worst refused, only the row at hand is marked; what took effect is
\* recorded next; and of two changes the older is in the batch or was tried before.
Smooth ==
    /\ conn /\ pc # "broken"
    /\ \A m \in Mutations : status[m] = "in_flight" => m = Current /\ pc \notin {"idle", "mark"}
    /\ \A m \in carried : status[m] = "completed" \/ (m = Current /\ pc = "complete")
    /\ \A m \in todo, n \in Mutations \ todo : status[n] = "pending" /\ n < m => attempts[n] > 0
    /\ pc \in {"failRead", "failWrite"} => kind[Current] # "bare"
    /\ pc = "failWrite" => attempts[Current] > 0

\* A refused command does nothing, and the last command of a change completes it.
LEMMA SmoothCommand ==
    ASSUME TypeOK, BatchInv, OnlyRefusals, conn, IsCommand
    PROVE  conn' /\ (pc' = "complete" \/ carried' = carried)
<1> USE DEF Command, Succeeds, CommandFails, Takes, NoEffect
<1>1. "network" \notin faults
  BY DEF OnlyRefusals
<1>2. CASE Add
  <2>1. kind[Current] = "read" => kind[Current] # "swap"
    OBVIOUS
  <2>2. QED
    BY <1>1, <1>2, <2>1 DEF Add, BatchInv, Stage
<1>3. CASE Remove
  BY <1>1, <1>3 DEF Remove
<1>4. CASE hasMove /\ Move
  BY <1>1, <1>4 DEF Move
<1>5. CASE Copy
  BY <1>1, <1>5 DEF Copy
<1>6. CASE Store
  BY <1>1, <1>6 DEF Store
<1>7. QED
  BY <1>2, <1>3, <1>4, <1>5, <1>6 DEF IsCommand

LEMMA SmoothStep ==
    ASSUME TypeOK, BatchInv, OnlyRefusals, Smooth, [Next]_vars
    PROVE  Smooth'
<1> USE DEF world, rows, worker, history
<1>1. PICK c : c = Current
  OBVIOUS
<1>2. pc \notin {"idle", "broken"} =>
         c \in todo /\ c \in 1..made /\ c \in Mutations /\ \A m \in todo : c <= m
  BY <1>1, AtHand
<1>3. todo' = todo => Current' = c
  BY <1>1, SameCurrent
<1>4. /\ made \in Nat /\ todo \subseteq Mutations /\ carried \subseteq Mutations
      /\ \A m \in todo : m <= made
      /\ \A m \in Mutations : m \in Nat /\ attempts[m] \in Nat
  BY DEF TypeOK, Mutations
<1>5. {"network", "select", "storage", "restart"} \cap faults = {}
  BY DEF OnlyRefusals
<1>6. ASSUME NEW k \in Kinds, Make(k) PROVE Smooth'
  <2>1. made + 1 \in Mutations /\ status[made + 1] = "absent"
    BY <1>6 DEF Make, TypeOK, Mutations, BatchInv, Table
  <2>2. /\ status'[made + 1] = "pending"
        /\ \A m \in Mutations \ {made + 1} : status'[m] = status[m] /\ kind'[m] = kind[m]
    BY <1>6, <2>1 DEF Make, TypeOK
  <2>3. UNCHANGED <<conn, pc, todo, carried, attempts>>
    BY <1>6 DEF Make
  <2>4. made + 1 \notin carried
    <3>1. ~ (made + 1 = c /\ pc = "complete")
      BY <1>2, <1>4
    <3>2. QED
      BY <1>1, <2>1, <3>1 DEF Smooth
  <2>5. /\ \A m \in Mutations : status'[m] = "in_flight" => m = c /\ pc \notin {"idle", "mark"}
        /\ \A m \in carried : status'[m] = "completed" \/ (m = c /\ pc = "complete")
    BY <1>1, <1>4, <2>2, <2>4 DEF Smooth
  <2>6. \A m \in todo, n \in Mutations \ todo : status'[n] = "pending" /\ n < m => attempts[n] > 0
    <3> SUFFICES ASSUME NEW m \in todo, NEW n \in Mutations \ todo, status'[n] = "pending", n < m
                 PROVE  attempts[n] > 0
      OBVIOUS
    <3>1. n # made + 1
      BY <1>4
    <3>2. QED
      BY <2>2, <3>1 DEF Smooth
  <2>7. pc \notin {"idle", "broken"} => kind'[c] = kind[c]
    BY <1>2, <1>4, <2>2
  <2>8. QED
    BY <1>1, <1>3, <2>3, <2>5, <2>6, <2>7 DEF Smooth
<1>7. CASE Pass
  <2>1. todo' \subseteq Pending /\ \A m \in todo', n \in Pending \ todo' : m < n
    BY <1>7, OldestRows DEF Pass, Pending
  <2>2. pc = "idle" /\ pc' = "mark" /\ UNCHANGED <<conn, status, kind, attempts, carried>>
    BY <1>7 DEF Pass
  <2>3. \A m \in todo', n \in Mutations \ todo' : status[n] = "pending" => ~ (n < m)
    <3> SUFFICES ASSUME NEW m \in todo', NEW n \in Mutations \ todo', status[n] = "pending"
                 PROVE  ~ (n < m)
      OBVIOUS
    <3>1. m < n /\ m \in Mutations
      BY <2>1 DEF Pending
    <3>2. QED
      BY <1>4, <3>1
  <2>4. QED
    BY <2>2, <2>3 DEF Smooth
<1>8. CASE Mark
  <2>1. status' = [status EXCEPT ![c] = "in_flight"] /\ pc = "mark" /\ pc' = "folder"
        /\ UNCHANGED <<conn, todo, kind, attempts, carried>>
    BY <1>1, <1>8 DEF Mark
  <2>2. /\ status'[c] = "in_flight" /\ status[c] = "pending" /\ c \in todo
        /\ \A m \in Mutations \ {c} : status'[m] = status[m]
    BY <1>2, <2>1 DEF TypeOK, BatchInv, Batch
  <2>3. c \notin carried
    BY <2>1, <2>2 DEF Smooth
  <2>4. QED
    BY <1>3, <1>4, <2>1, <2>2, <2>3 DEF Smooth
<1>9. CASE FindFolder
  <2>1. /\ pc = "folder" /\ pc' \in {"complete", "failRead", "select"}
        /\ pc' = "failRead" => kind[c] = "lost"
        /\ UNCHANGED <<conn, todo, status, kind, attempts, carried>>
    BY <1>1, <1>9 DEF FindFolder
  <2>2. QED
    BY <1>1, <1>3, <2>1 DEF Smooth
<1>10. CASE Select
  <2>1. kind[c] \in {"read", "unread", "swap", "move", "delete"} /\ pc = "select"
    BY <1>1, <1>2, <1>10 DEF Select, BatchInv, Stage, TypeOK, AllKinds
  <2>2. /\ pc' \in {"add", "remove", "move", "store"}
        /\ UNCHANGED <<conn, todo, status, kind, attempts, carried>>
    BY <1>1, <1>5, <1>10, <2>1 DEF Select, Smooth
  <2>3. QED
    BY <1>1, <1>3, <2>1, <2>2 DEF Smooth
<1>11. CASE IsCommand
  <2>1. /\ UNCHANGED <<kind, status, todo, attempts>>
        /\ pc \in {"add", "remove", "move", "copy", "store"}
        /\ pc' \in {"complete", "failRead", "remove", "copy", "store"}
        /\ carried' \subseteq carried \cup {c}
    BY <1>1, <1>11, CommandEffect
  <2>2. conn' /\ (pc' = "complete" \/ carried' = carried)
    BY <1>11, SmoothCommand DEF Smooth
  <2>3. kind[c] # "bare"
    BY <1>1, <2>1 DEF BatchInv, Stage
  <2>4. \A m \in carried' : status[m] = "completed" \/ (m = c /\ pc' = "complete")
    BY <1>1, <2>1, <2>2 DEF Smooth
  <2>5. QED
    BY <1>1, <1>3, <2>1, <2>2, <2>3, <2>4 DEF Smooth
<1>12. CASE ~ hasMove /\ Move
  <2>1. pc = "move" /\ pc' = "copy" /\ UNCHANGED <<conn, todo, status, kind, attempts, carried>>
    BY <1>12 DEF Move
  <2>2. QED
    BY <1>1, <1>3, <2>1 DEF Smooth
<1>13. CASE Complete
  <2>1. status' = [status EXCEPT ![c] = "completed"] /\ NextRow /\ pc = "complete"
        /\ UNCHANGED <<conn, kind, attempts, carried>>
    BY <1>1, <1>13 DEF Complete
  <2>2. /\ status'[c] = "completed" /\ c \in Mutations
        /\ \A m \in Mutations \ {c} : status'[m] = status[m]
    BY <1>2, <2>1 DEF TypeOK
  <2>3. pc' \in {"idle", "mark"} /\ todo' = todo \ {c}
    BY <1>1, <2>1, NextRowEffect
  <2>4. \A m \in Mutations : status'[m] # "in_flight"
    BY <1>1, <2>2 DEF Smooth
  <2>5. \A m \in carried : status'[m] = "completed"
    BY <1>1, <1>4, <2>2 DEF Smooth
  <2>6. QED
    BY <2>1, <2>2, <2>3, <2>4, <2>5 DEF Smooth
<1>14. CASE FailRead
  <2>1. /\ attempts' = [attempts EXCEPT ![c] = attempts[c] + 1]
        /\ pc = "failRead" /\ pc' = "failWrite"
        /\ UNCHANGED <<conn, kind, status, carried, todo>>
    BY <1>1, <1>14 DEF FailRead
  <2>2. /\ attempts'[c] = attempts[c] + 1
        /\ \A m \in Mutations \ {c} : attempts'[m] = attempts[m]
    BY <1>2, <2>1 DEF TypeOK
  <2>3. attempts'[c] > 0
    BY <1>2, <1>4, <2>1, <2>2
  <2>4. \A m \in todo, n \in Mutations \ todo : status[n] = "pending" /\ n < m => attempts'[n] > 0
    BY <2>2, <2>3 DEF Smooth
  <2>5. QED
    BY <1>1, <1>3, <2>1, <2>3, <2>4 DEF Smooth
<1>15. CASE FailWrite
  <2>1. status' = [status EXCEPT ![c] = IF readCount >= MaxRetries THEN "failed" ELSE "pending"]
        /\ NextRow /\ pc = "failWrite" /\ UNCHANGED <<conn, kind, attempts, carried>>
    BY <1>1, <1>15 DEF FailWrite
  <2>2. /\ status'[c] \in {"failed", "pending"} /\ c \in Mutations /\ c \in todo
        /\ attempts[c] > 0 /\ status[c] = "in_flight"
        /\ \A m \in Mutations \ {c} : status'[m] = status[m]
    BY <1>1, <1>2, <2>1 DEF TypeOK, Smooth, BatchInv, Batch
  <2>3. pc' \in {"idle", "mark"} /\ todo' = todo \ {c}
    BY <1>1, <2>1, NextRowEffect
  <2>4. \A m \in Mutations : status'[m] # "in_flight"
    BY <1>1, <2>2 DEF Smooth
  <2>5. \A m \in carried : status'[m] = "completed"
    BY <1>1, <1>4, <2>1, <2>2 DEF Smooth
  <2>6. \A m \in todo', n \in Mutations \ todo' : status'[n] = "pending" /\ n < m => attempts[n] > 0
    <3> SUFFICES ASSUME NEW m \in todo, NEW n \in Mutations \ (todo \ {c}),
                        status'[n] = "pending", n < m
                 PROVE  attempts[n] > 0
      BY <2>3
    <3>1. CASE n = c
      BY <2>2, <3>1
    <3>2. CASE n # c
      BY <2>2, <3>2 DEF Smooth
    <3>3. QED
      BY <3>1, <3>2
  <2>7. QED
    BY <2>1, <2>3, <2>4, <2>5, <2>6 DEF Smooth
<1>16. CASE StorageFails \/ Restart
  BY <1>5, <1>16 DEF StorageFails, Restart
<1>17. CASE Reconnect
  BY <1>17 DEF Reconnect, Smooth
<1>18. CASE UNCHANGED vars
  BY <1>1, <1>3, <1>18 DEF vars, Smooth
<1>19. QED
  BY <1>6, <1>7, <1>8, <1>9, <1>10, <1>11, <1>12, <1>13, <1>14, <1>15, <1>16, <1>17, <1>18
     DEF Next, Work, IsCommand

LEMMA PromiseStarts == Init => Promise!ChangeInit
BY DEF Init, Promise!ChangeInit, Told, Has, OnlyRefusals, Mutations

\* A step that leaves what the user sees alone is a stutter.
LEMMA Unseen ==
    ASSUME UNCHANGED <<faults, made, kind, attempts, carried>>,
           \A m \in Mutations : Told(status'[m]) = Told(status[m])
    PROVE  UNCHANGED Promise!changeVars
BY DEF Promise!changeVars, OnlyRefusals, Has

\* The row at hand is still on its way, and older ones that are had their turn.
LEMMA RowAtHand ==
    ASSUME TypeOK, BatchInv, OnlyRefusals => Smooth, pc \notin {"idle", "broken", "mark"},
           NEW c, c = Current
    PROVE  /\ c \in Mutations /\ status[c] = "in_flight" /\ c <= made
           /\ OnlyRefusals => Promise!InTurn(c)
<1>1. c \in todo /\ c \in 1..made /\ c \in Mutations /\ \A m \in todo : c <= m
  BY AtHand
<1>2. status[c] = "in_flight" /\ c <= made
  BY <1>1 DEF BatchInv, Batch
<1>3. ASSUME OnlyRefusals, NEW n \in Mutations, n < c, Told(status[n]) = "waiting"
      PROVE  attempts[n] > 0
  <2>1. n \notin todo
    BY <1>1, <1>3 DEF Mutations
  <2>2. status[n] = "pending" \/ status[n] = "in_flight"
    BY <1>3 DEF Told, TypeOK
  <2>3. status[n] = "pending"
    BY <1>1, <1>3, <2>1, <2>2 DEF Smooth
  <2>4. QED
    BY <1>1, <1>3, <2>1, <2>3 DEF Smooth
<1>4. QED
  BY <1>1, <1>2, <1>3 DEF Promise!InTurn

\* A change is made.
LEMMA MakeMaps ==
    ASSUME TypeOK, BatchInv, Recorded, NEW k \in Kinds, Make(k)
    PROVE  Promise!Enter(made + 1) /\ made + 1 \in Mutations
<1>1. /\ made + 1 \in Mutations /\ status[made + 1] = "absent"
      /\ \A n \in Mutations : n < made + 1 => status[n] # "absent"
      /\ made \in Nat /\ \A m \in Mutations : m \in Nat
  BY DEF Make, TypeOK, Mutations, BatchInv, Table
<1>2. /\ status' = [status EXCEPT ![made + 1] = "pending"] /\ made' = made + 1
      /\ \A m \in Mutations \ {made + 1} : kind'[m] = kind[m]
      /\ UNCHANGED <<faults, attempts, carried>>
  BY <1>1 DEF Make, TypeOK, world, history
<1>3. [m \in Mutations |-> Told(status'[m])] =
          [[m \in Mutations |-> Told(status[m])] EXCEPT ![made + 1] = "waiting"]
  BY <1>1, <1>2 DEF Told, TypeOK
<1>4. \A n \in Mutations : n < made + 1 => Told(status[n]) # "none"
  BY <1>1 DEF Told, TypeOK
<1>5. Told(status[made + 1]) = "none"
  BY <1>1 DEF Told
<1>6. carried' \cup {m \in Mutations : Has(m, "bare")'} \in
          {carried \cup {m \in Mutations : Has(m, "bare")},
           (carried \cup {m \in Mutations : Has(m, "bare")}) \cup {made + 1}}
  <2>1. \A m \in Mutations : m # made + 1 => (Has(m, "bare")' <=> Has(m, "bare"))
    BY <1>1, <1>2 DEF Has
  <2>2. ~ Has(made + 1, "bare")
    BY <1>1 DEF Has
  <2>3. QED
    BY <1>1, <1>2, <2>1, <2>2
<1>7. UNCHANGED OnlyRefusals
  BY <1>2 DEF OnlyRefusals
<1>8. QED
  BY <1>1, <1>2, <1>3, <1>4, <1>5, <1>6, <1>7 DEF Promise!Enter

\* A command takes effect, or is not noticed.
LEMMA CommandMaps ==
    ASSUME TypeOK, BatchInv, OnlyRefusals => Smooth, IsCommand
    PROVE  [Promise!ChangeNext]_(Promise!changeVars)
<1>1. PICK c : c = Current
  OBVIOUS
<1>2. /\ UNCHANGED <<world, made, kind, rows, attempts>>
      /\ pc \in {"add", "remove", "move", "copy", "store"}
      /\ carried \subseteq carried' /\ carried' \subseteq carried \cup {c}
  BY <1>1, CommandEffect
<1>3. UNCHANGED <<faults, status>>
  BY <1>2 DEF world, rows
<1>4. CASE carried' = carried
  BY <1>2, <1>3, <1>4, Unseen
<1>5. CASE carried' # carried
  <2>1. c \notin carried /\ carried' = carried \cup {c}
    BY <1>2, <1>5
  <2>2. /\ c \in Mutations /\ status[c] = "in_flight"
        /\ OnlyRefusals => Promise!InTurn(c)
    BY <1>1, <1>2, RowAtHand
  <2>3. ~ Has(c, "bare")
    BY <1>1, <1>2 DEF BatchInv, Stage, Has
  <2>4. Told(status[c]) = "waiting"
    BY <2>2 DEF Told
  <2>5. \A m \in Mutations : Has(m, "bare")' <=> Has(m, "bare")
    BY <1>2 DEF Has
  <2>6. UNCHANGED OnlyRefusals
    BY <1>3 DEF OnlyRefusals
  <2>7. Promise!TakeEffect(c)
    BY <1>2, <1>3, <2>1, <2>2, <2>3, <2>4, <2>5, <2>6 DEF Promise!TakeEffect
  <2>8. QED
    BY <2>2, <2>7 DEF Promise!ChangeNext
<1>6. QED
  BY <1>4, <1>5

\* An end is recorded.
LEMMA CompleteMaps ==
    ASSUME TypeOK, BatchInv, Recorded, OnlyRefusals => Smooth, Complete
    PROVE  [Promise!ChangeNext]_(Promise!changeVars)
<1>1. PICK c : c = Current
  OBVIOUS
<1>2. /\ status' = [status EXCEPT ![c] = "completed"] /\ pc = "complete"
      /\ UNCHANGED <<faults, made, kind, attempts, carried>>
  BY <1>1 DEF Complete, world, history
<1>3. /\ c \in Mutations /\ status[c] = "in_flight" /\ c <= made
      /\ OnlyRefusals => Promise!InTurn(c)
  BY <1>1, <1>2, RowAtHand
<1>4. c \in carried \/ Has(c, "bare")
  BY <1>1, <1>2, <1>3 DEF Recorded, Counts, Has
<1>5. [m \in Mutations |-> Told(status'[m])] =
          [[m \in Mutations |-> Told(status[m])] EXCEPT ![c] = "done"]
  BY <1>2, <1>3 DEF Told, TypeOK
<1>6. Told(status[c]) = "waiting"
  BY <1>3 DEF Told
<1>7. (\A m \in Mutations : Has(m, "bare")' <=> Has(m, "bare")) /\ UNCHANGED OnlyRefusals
  BY <1>2 DEF Has, OnlyRefusals
<1>8. Promise!ReportDone(c)
  BY <1>2, <1>3, <1>4, <1>5, <1>6, <1>7 DEF Promise!ReportDone
<1>9. QED
  BY <1>3, <1>8 DEF Promise!ChangeNext

\* An attempt has failed.
LEMMA FailReadMaps ==
    ASSUME TypeOK, BatchInv, Recorded, OnlyRefusals => Smooth, FailRead
    PROVE  [Promise!ChangeNext]_(Promise!changeVars)
<1>1. PICK c : c = Current
  OBVIOUS
<1>2. /\ attempts' = [attempts EXCEPT ![c] = attempts[c] + 1] /\ pc = "failRead"
      /\ UNCHANGED <<faults, made, kind, status, carried>>
  BY <1>1 DEF FailRead, world, rows
<1>3. /\ c \in Mutations /\ status[c] = "in_flight"
      /\ OnlyRefusals => Promise!InTurn(c)
  BY <1>1, <1>2, RowAtHand
<1>4. OnlyRefusals => c \notin carried /\ ~ Has(c, "bare")
  BY <1>1, <1>2, <1>3 DEF Smooth, Has
<1>5. OnlyRefusals => attempts[c] < MaxRetries
  <2>1. retries[c] < MaxRetries
    BY <1>3 DEF BatchInv, Table
  <2>2. QED
    BY <1>2, <1>3, <2>1 DEF Recorded, Counts
<1>6. Told(status[c]) = "waiting"
  BY <1>3 DEF Told
<1>7. (\A m \in Mutations : Has(m, "bare")' <=> Has(m, "bare")) /\ UNCHANGED OnlyRefusals
  BY <1>2 DEF Has, OnlyRefusals
<1>8. Promise!TryFails(c)
  BY <1>2, <1>3, <1>4, <1>5, <1>6, <1>7 DEF Promise!TryFails
<1>9. QED
  BY <1>3, <1>8 DEF Promise!ChangeNext

\* The row waits again, or the change is given up.
LEMMA FailWriteMaps ==
    ASSUME TypeOK, BatchInv, Recorded, OnlyRefusals => Smooth, FailWrite
    PROVE  [Promise!ChangeNext]_(Promise!changeVars)
<1>1. PICK c : c = Current
  OBVIOUS
<1>2. /\ status' = [status EXCEPT ![c] = IF readCount >= MaxRetries THEN "failed" ELSE "pending"]
      /\ pc = "failWrite"
      /\ UNCHANGED <<faults, made, kind, attempts, carried>>
  BY <1>1 DEF FailWrite, world, history
<1>3. /\ c \in Mutations /\ status[c] = "in_flight"
      /\ OnlyRefusals => Promise!InTurn(c)
  BY <1>1, <1>2, RowAtHand
<1>4. Told(status[c]) = "waiting"
  BY <1>3 DEF Told
<1>5. CASE ~ (readCount >= MaxRetries)
  <2>1. status' = [status EXCEPT ![c] = "pending"]
    BY <1>2, <1>5
  <2>2. \A m \in Mutations : Told(status'[m]) = Told(status[m])
    BY <1>3, <2>1 DEF Told, TypeOK
  <2>3. QED
    BY <1>2, <2>2, Unseen
<1>6. CASE readCount >= MaxRetries
  <2>1. [m \in Mutations |-> Told(status'[m])] =
            [[m \in Mutations |-> Told(status[m])] EXCEPT ![c] = "failed"]
    BY <1>2, <1>3, <1>6 DEF Told, TypeOK
  <2>2. attempts[c] >= MaxRetries
    BY <1>1, <1>2, <1>3, <1>6 DEF Recorded, Counts, TypeOK
  <2>3. OnlyRefusals => c \notin carried /\ ~ Has(c, "bare")
    BY <1>1, <1>2, <1>3 DEF Smooth, Has
  <2>4. (\A m \in Mutations : Has(m, "bare")' <=> Has(m, "bare")) /\ UNCHANGED OnlyRefusals
    BY <1>2 DEF Has, OnlyRefusals
  <2>5. Promise!GiveUp(c)
    BY <1>2, <1>3, <1>4, <2>1, <2>2, <2>3, <2>4 DEF Promise!GiveUp
  <2>6. QED
    BY <1>3, <2>5 DEF Promise!ChangeNext
<1>7. QED
  BY <1>5, <1>6

LEMMA PromiseStep ==
    ASSUME TypeOK, BatchInv, Recorded, OnlyRefusals => Smooth, [Next]_vars
    PROVE  [Promise!ChangeNext]_(Promise!changeVars)
<1> USE DEF world, rows, worker, history
<1>1. ASSUME NEW k \in Kinds, Make(k) PROVE [Promise!ChangeNext]_(Promise!changeVars)
  BY <1>1, MakeMaps DEF Promise!ChangeNext
<1>2. CASE Mark
  <2>1. PICK c : c = Current
    OBVIOUS
  <2>2. status' = [status EXCEPT ![c] = "in_flight"] /\ pc = "mark"
        /\ UNCHANGED <<faults, made, kind, attempts, carried>>
    BY <1>2, <2>1 DEF Mark
  <2>3. c \in Mutations /\ status[c] = "pending"
    BY <2>1, <2>2, AtHand DEF BatchInv, Batch
  <2>4. \A m \in Mutations : Told(status'[m]) = Told(status[m])
    BY <2>2, <2>3 DEF Told, TypeOK
  <2>5. QED
    BY <2>2, <2>4, Unseen
<1>3. CASE UNCHANGED <<faults, made, kind, status, attempts, carried>>
  BY <1>3, Unseen
<1>4. CASE IsCommand
  BY <1>4, CommandMaps
<1>5. CASE Complete
  BY <1>5, CompleteMaps
<1>6. CASE FailRead
  BY <1>6, FailReadMaps
<1>7. CASE FailWrite
  BY <1>7, FailWriteMaps
<1>8. CASE Pass \/ FindFolder \/ Select \/ (~ hasMove /\ Move) \/ StorageFails \/ Reconnect
           \/ Restart \/ UNCHANGED vars
  BY <1>3, <1>8 DEF Pass, FindFolder, Select, Move, StorageFails, Reconnect, Restart, vars
<1>9. QED
  BY <1>1, <1>2, <1>4, <1>5, <1>6, <1>7, <1>8 DEF Next, Work, IsCommand

\* The table and the worker implement the queue of changes, however many there are and
\* whatever fails: an end is final and true, and while commands are at worst refused a change
\* takes effect once, is tried as often as it may, and none overtakes one not yet tried
\* (peek_pending_mutations, process_mutations and the statements that record an outcome).
THEOREM MutationsImplementChangeQueue == Spec => ImplementsChangeQueue
<1> DEFINE Ready == OnlyRefusals => Smooth
<1>1. Init => Recorded /\ Ready
  BY DEF Init, Recorded, Counts, Smooth, Mutations
<1>2. TypeOK /\ BatchInv /\ Ready /\ [Next]_vars => Ready'
  <2>1. [Next]_vars => UNCHANGED OnlyRefusals
    BY DEF Next, Make, Work, Pass, Mark, FindFolder, Select, Add, Remove, Move, Copy, Store,
       Command, Complete, FailRead, FailWrite, Reconnect, StorageFails, Restart, vars, world,
       OnlyRefusals
  <2>2. QED
    BY <2>1, SmoothStep
<1>3. TypeOK /\ BatchInv /\ Recorded /\ Ready /\ [Next]_vars =>
          [Promise!ChangeNext]_(Promise!changeVars)
  BY PromiseStep
<1>4. QED
  BY <1>1, <1>2, <1>3, InitBatch, TypeStep, BatchStep, RecordedStep, PromiseStarts, PTL
     DEF Spec, ImplementsChangeQueue, Promise!ChangeSpec
=============================================================================
