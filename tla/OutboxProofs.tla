---------------------------- MODULE OutboxProofs ----------------------------
(***************************************************************************)
(* What Outbox guarantees for every number of messages, of dispatch tasks,  *)
(* of rows per snapshot, of retries and of restarts, whatever fails; and    *)
(* what it promises besides while there is one dispatch task at a time.     *)
(***************************************************************************)
EXTENDS OutboxSerial, TLAPS, FiniteSetTheorems, WellFoundedInduction

USE OutboxAssumption

\* The oldest row of a snapshot is one of its rows.
LEMMA CurrentIsInSnapshot ==
    ASSUME NEW d \in Dispatchers, todo[d] \subseteq Msgs, todo[d] # {}
    PROVE  Current(d) \in todo[d]
<1>1. todo[d] \subseteq Nat
  BY DEF Msgs
<1>2. PICK x \in todo[d] : \A y \in todo[d] : ~ (<<y, x>> \in OpToRel(<, Nat))
  BY <1>1, NatLessThanWellFounded, WFMin
<1>3. ASSUME NEW y \in todo[d] PROVE x <= y
  <2>1. <<y, x>> \in Nat \X Nat
    BY <1>1
  <2>2. y < x => <<y, x>> \in OpToRel(<, Nat)
    BY <2>1 DEF OpToRel
  <2>3. ~ (y < x)
    BY <1>2, <2>2, Zenon
  <2>4. QED
    BY <1>1, <2>3
<1>4. QED
  BY <1>3 DEF Current

\* Msgs is finite only through NumMsgs, so no step needs more than its numbers.
LEMMA InitType == Init => TypeOK
<1>1. Init => refused \in BOOLEAN
  BY Zenon DEF Init
<1>2. QED
  BY <1>1 DEF Init, TypeOK, Msgs, Statuses, Stages

(***************************************************************************)
(* Typing.  Steps of a task write at its current row, which exists because  *)
(* a task past its peek has a non-empty snapshot.                           *)
(***************************************************************************)
SnapshotInv ==
    \A d \in Dispatchers : pc[d] \notin {"idle", "peek"} => todo[d] # {}

LEMMA SnapshotStep ==
    ASSUME TypeOK, SnapshotInv, [Next]_vars
    PROVE  SnapshotInv'
<1> USE DEF TypeOK, SnapshotInv
<1>1. ASSUME NEW k \in Kinds, Compose(k) PROVE SnapshotInv'
  BY <1>1 DEF Compose, taskVars
<1>2. ASSUME Gui PROVE SnapshotInv'
  BY <1>2 DEF Gui, SaveMessage, SaveFails, RequestDispatch, taskVars
<1>3. ASSUME NEW d \in Dispatchers, Dispatch(d) PROVE SnapshotInv'
  <2>1. CASE SpawnDispatch(d)
    BY <2>1 DEF SpawnDispatch, GoTo
  <2>2. CASE PeekQueued(d) \/ PeekFails(d)
    BY <2>2 DEF PeekQueued, PeekFails, GoTo, Return
  <2>3. CASE Connect(d) \/ ConnectFails(d)
    BY <2>3 DEF Connect, ConnectFails, GoTo, Return
  <2>4. CASE MarkSending(d) \/ MarkSendingFails(d) \/ Build(d) \/ BuildFails(d)
    BY <2>4 DEF MarkSending, MarkSendingFails, Build, BuildFails, AttemptFails, GoTo
  <2>5. CASE ServerAccepts(d) \/ SendFails(d) \/ ReplyArrives(d) \/ ReplyLost(d)
    BY <2>5 DEF ServerAccepts, SendFails, ReplyArrives, ReplyLost, AttemptFails, GoTo
  <2>6. CASE MarkSentFails(d)
    BY <2>6 DEF MarkSentFails, Return, GoTo
  <2>7. ASSUME NextMessage(d), todo[d] # {} PROVE SnapshotInv'
    BY <2>7 DEF NextMessage, Return, GoTo
  <2>8. CASE FailRead(d)
    BY <2>8 DEF FailRead, GoTo
  <2>9. QED
    BY <1>3, <2>1, <2>2, <2>3, <2>4, <2>5, <2>6, <2>7, <2>8
    DEF Dispatch, TaskStep, ServerStep, MarkSent, FailWrite, FailIsNotRecorded
<1>4. ASSUME GuiRestarts \/ SupervisorRestarts PROVE SnapshotInv'
  BY <1>4 DEF GuiRestarts, SupervisorRestarts, taskVars
<1>5. CASE UNCHANGED vars
  BY <1>5 DEF vars
<1>6. QED
  BY <1>1, <1>2, <1>3, <1>4, <1>5 DEF Next

\* GoTo, Return and NextMessage keep the variables of the tasks typed.
LEMMA TaskTyping ==
    ASSUME TypeOK, NEW d \in Dispatchers
    PROVE  /\ \A w \in Stages : GoTo(d, w) => pc' \in [Dispatchers -> Stages]
           /\ Return(d) \/ NextMessage(d) =>
                /\ pc' \in [Dispatchers -> Stages]
                /\ todo' \in [Dispatchers -> SUBSET Msgs]
                /\ connUp' \in [Dispatchers -> BOOLEAN]
                /\ readCount' \in [Dispatchers -> Nat]
<1>1. \A w \in Stages : GoTo(d, w) => pc' \in [Dispatchers -> Stages]
  BY DEF GoTo, TypeOK
<1>2. "idle" \in Stages /\ "mark" \in Stages
  BY DEF Stages
<1>3. Return(d) => /\ pc' \in [Dispatchers -> Stages]
                   /\ todo' \in [Dispatchers -> SUBSET Msgs]
                   /\ connUp' \in [Dispatchers -> BOOLEAN]
                   /\ readCount' \in [Dispatchers -> Nat]
  BY <1>1, <1>2 DEF Return, TypeOK
<1>4. NextMessage(d) => \/ Return(d)
                        \/ /\ pc' \in [Dispatchers -> Stages]
                           /\ todo' \in [Dispatchers -> SUBSET Msgs]
                           /\ connUp' \in [Dispatchers -> BOOLEAN]
                           /\ readCount' \in [Dispatchers -> Nat]
  BY <1>1, <1>2 DEF NextMessage, TypeOK
<1>5. QED
  BY <1>1, <1>3, <1>4

LEMMA TypeStep ==
    ASSUME TypeOK, SnapshotInv, [Next]_vars
    PROVE  TypeOK'
<1> USE DEF TypeOK
<1>1. ASSUME NEW k \in Kinds, Compose(k) PROVE TypeOK'
  <2>1. composed + 1 \in Msgs /\ composed + 1 \in 0..NumMsgs
    BY <1>1 DEF Compose, Msgs
  <2>2. kind' \in [Msgs -> Kinds \cup {"none"}]
    BY <1>1, <2>1 DEF Compose
  <2>3. QED
    BY <1>1, <2>1, <2>2 DEF Compose, rowVars, taskVars, history
<1>2. ASSUME NEW m \in Msgs, SaveMessage(m) \/ SaveFails(m) \/ RequestDispatch(m)
      PROVE  TypeOK'
  <2>1. CASE SaveMessage(m)
    BY <2>1 DEF SaveMessage, taskVars, history, Statuses
  <2>2. CASE SaveFails(m)
    BY <2>2 DEF SaveFails, rowVars, taskVars, history
  <2>3. CASE RequestDispatch(m)
    BY <2>3 DEF RequestDispatch, rowVars, taskVars, history
  <2>4. QED
    BY <1>2, <2>1, <2>2, <2>3
<1>3. ASSUME NEW d \in Dispatchers, Dispatch(d) PROVE TypeOK'
  <2> USE DEF uiVars, rowVars, history
  <2>1. ASSUME pc[d] \notin {"idle", "peek"} PROVE Current(d) \in Msgs
    BY <2>1, CurrentIsInSnapshot DEF SnapshotInv
  <2>2. {"queued", "sending", "sent", "failed"} \subseteq Statuses
    BY DEF Statuses
  <2>3. {"idle", "peek", "connect", "mark", "build", "smtp", "reply", "sent", "failRead",
         "failWrite"} \subseteq Stages
    BY DEF Stages
  <2>4. ASSUME AttemptFails(d), Current(d) \in Msgs
        PROVE  pc' \in [Dispatchers -> Stages] /\ failures' \in [Msgs -> Nat]
    BY <2>3, <2>4, TaskTyping DEF AttemptFails
  <2>5. CASE SpawnDispatch(d)
    BY <2>3, <2>5, TaskTyping DEF SpawnDispatch
  <2>6. CASE PeekQueued(d)
    BY <2>3, <2>6, TaskTyping DEF PeekQueued, Oldest, Queued
  <2>7. CASE PeekFails(d)
    BY <2>7, TaskTyping DEF PeekFails
  <2>8. CASE Connect(d)
    BY <2>3, <2>8, TaskTyping DEF Connect
  <2>9. CASE ConnectFails(d)
    BY <2>9, TaskTyping DEF ConnectFails
  <2>10. CASE MarkSending(d)
    BY <2>1, <2>2, <2>3, <2>10, TaskTyping DEF MarkSending
  <2>11. CASE MarkSendingFails(d)
    BY <2>1, <2>4, <2>11 DEF MarkSendingFails
  <2>12. CASE Build(d)
    BY <2>3, <2>12, TaskTyping DEF Build
  <2>13. CASE BuildFails(d)
    BY <2>1, <2>4, <2>13 DEF BuildFails
  <2>14. CASE ServerAccepts(d)
    BY <2>1, <2>3, <2>14, TaskTyping DEF ServerAccepts
  <2>15. CASE SendFails(d)
    BY <2>1, <2>4, <2>15 DEF SendFails
  <2>16. CASE ReplyArrives(d)
    BY <2>3, <2>16, TaskTyping DEF ReplyArrives
  <2>17. CASE ReplyLost(d)
    BY <2>1, <2>4, <2>17 DEF ReplyLost
  <2>18. CASE MarkSent(d)
    BY <2>1, <2>2, <2>18, TaskTyping DEF MarkSent
  <2>19. CASE MarkSentFails(d)
    BY <2>1, <2>19, TaskTyping DEF MarkSentFails
  <2>20. CASE FailRead(d)
    BY <2>1, <2>3, <2>20, TaskTyping DEF FailRead
  <2>21. CASE FailWrite(d)
    BY <2>1, <2>2, <2>21, TaskTyping DEF FailWrite
  <2>22. CASE FailIsNotRecorded(d)
    BY <2>1, <2>22, TaskTyping DEF FailIsNotRecorded
  <2>23. QED
    BY <1>3, <2>5, <2>6, <2>7, <2>8, <2>9, <2>10, <2>11, <2>12, <2>13, <2>14, <2>15,
       <2>16, <2>17, <2>18, <2>19, <2>20, <2>21, <2>22
    DEF Dispatch, TaskStep, ServerStep
<1>4. CASE GuiRestarts
  BY <1>4 DEF GuiRestarts, rowVars, taskVars, history
<1>5. CASE SupervisorRestarts
  <2>1. \A d \in Dispatchers : Trying(d) => Current(d) \in Msgs
    BY CurrentIsInSnapshot DEF SnapshotInv, Trying
  <2>2. unrecorded' \subseteq Msgs
    BY <1>5, <2>1 DEF SupervisorRestarts
  <2>3. pc' \in [Dispatchers -> Stages]
    BY <1>5 DEF SupervisorRestarts, Stages
  <2>4. /\ todo' \in [Dispatchers -> SUBSET Msgs]
        /\ connUp' \in [Dispatchers -> BOOLEAN]
        /\ readCount' \in [Dispatchers -> Nat]
        /\ restarts' \in 0..MaxRestarts
    BY <1>5 DEF SupervisorRestarts
  <2>5. QED
    BY <1>5, <2>2, <2>3, <2>4 DEF SupervisorRestarts, rowVars
<1>6. CASE UNCHANGED vars
  BY <1>6 DEF vars
<1>7. QED
  BY <1>1, <1>2, <1>3, <1>4, <1>5, <1>6 DEF Next, Gui

\* Every reachable state of the outbox has values of the declared types, and a
\* task that is past its peek has a row to work on.
THEOREM TypeCorrect == Spec => [](TypeOK /\ SnapshotInv)
<1>1. Init => TypeOK /\ SnapshotInv
  BY InitType DEF Init, SnapshotInv
<1>2. TypeOK /\ SnapshotInv /\ [Next]_vars => TypeOK' /\ SnapshotInv'
  BY TypeStep, SnapshotStep
<1>3. QED
  BY <1>1, <1>2, PTL DEF Spec

-----------------------------------------------------------------------------
(***************************************************************************)
(* The inductive invariant behind the safety properties.                    *)
(***************************************************************************)

\* Rows exist only for messages whose save succeeded, and keep their kind.
RowInv ==
    \A m \in Msgs :
        /\ m > composed => gui[m] = "none"
        /\ gui[m] \in {"none", "saving"} => status[m] = "absent"
        /\ gui[m] # "none" => kind[m] \in Kinds
        /\ status[m] \notin {"absent", "draft"} => kind[m] \in {"mail", "bare"}
        /\ accepted[m] > 0 => kind[m] = "mail" /\ status[m] # "absent"
        /\ status[m] = "sent" => accepted[m] > 0

\* Snapshots hold rows that were queued once; a task past the build works on a
\* message with a recipient, and past the server's answer on an accepted one.
TaskInv ==
    \A d \in Dispatchers :
        /\ \A m \in todo[d] : status[m] \notin {"absent", "draft"}
        /\ pc[d] \in {"smtp", "reply", "sent"} => kind[Current(d)] = "mail"
        /\ pc[d] \in {"reply", "sent"} => accepted[Current(d)] > 0

\* Tasks that have failed on m and not yet read its retry count.
Failing(m) == {d \in Dispatchers : pc[d] = "failRead" /\ Current(d) = m}

\* Neither the stored retry count nor one on its way into the table exceeds the
\* failures whose accounting is already past its read.
RetryInv ==
    \A m \in Msgs :
        /\ retries[m] + Cardinality(Failing(m)) <= failures[m]
        /\ \A d \in Dispatchers : pc[d] = "failWrite" /\ Current(d) = m =>
               readCount[d] + Cardinality(Failing(m)) <= failures[m]
        /\ status[m] = "failed" => retries[m] >= MaxRetries

OutboxInv == RowInv /\ TaskInv /\ RetryInv /\ SendingHasOwner

LEMMA InitInv == Init => OutboxInv
<1> SUFFICES ASSUME Init PROVE OutboxInv
  OBVIOUS
<1>1. RowInv /\ TaskInv /\ SendingHasOwner
  BY DEF Init, RowInv, TaskInv, SendingHasOwner, Msgs
<1>2. \A m \in Msgs : Failing(m) = {}
  BY DEF Init, Failing
<1>3. RetryInv
  BY <1>2, FS_EmptySet DEF Init, RetryInv
<1>4. QED
  BY <1>1, <1>3 DEF OutboxInv

\* A task whose snapshot a step leaves alone keeps its current row.
LEMMA CurrentIsKept ==
    ASSUME NEW e \in Dispatchers, todo'[e] = todo[e]
    PROVE  Current(e)' = Current(e)
BY DEF Current

\* A task past its peek works on a row of the table that is not a draft.
LEMMA CurrentIsARow ==
    ASSUME TypeOK, SnapshotInv, TaskInv, NEW d \in Dispatchers,
           pc[d] \notin {"idle", "peek"}
    PROVE  /\ Current(d) \in todo[d]
           /\ Current(d) \in Msgs
           /\ status[Current(d)] \notin {"absent", "draft"}
BY CurrentIsInSnapshot DEF TypeOK, SnapshotInv, TaskInv

LEMMA RowStep ==
    ASSUME TypeOK, SnapshotInv, OutboxInv, [Next]_vars
    PROVE  RowInv'
<1> USE DEF TypeOK, RowInv, OutboxInv
<1>1. ASSUME NEW k \in Kinds, Compose(k) PROVE RowInv'
  BY <1>1 DEF Compose, rowVars, history, Msgs
<1>2. ASSUME NEW m \in Msgs, SaveMessage(m) \/ SaveFails(m) \/ RequestDispatch(m)
      PROVE  RowInv'
  <2>1. CASE SaveMessage(m)
    BY <2>1 DEF SaveMessage, history
  <2>2. CASE SaveFails(m)
    BY <2>2 DEF SaveFails, rowVars, history
  <2>3. CASE RequestDispatch(m)
    BY <2>3 DEF RequestDispatch, rowVars, history
  <2>4. QED
    BY <1>2, <2>1, <2>2, <2>3
<1>3. ASSUME NEW d \in Dispatchers, Dispatch(d) PROVE RowInv'
  <2> USE DEF uiVars, rowVars, history
  <2>1. ASSUME pc[d] \notin {"idle", "peek"}
        PROVE  Current(d) \in Msgs /\ status[Current(d)] \notin {"absent", "draft"}
    BY <2>1, CurrentIsARow
  <2>2. ASSUME UNCHANGED <<composed, gui, kind, status, accepted>> PROVE RowInv'
    BY <2>2
  <2>3. CASE MarkSending(d)
    BY <2>1, <2>3 DEF MarkSending
  <2>4. CASE ServerAccepts(d)
    BY <2>1, <2>4 DEF ServerAccepts, TaskInv
  <2>5. CASE MarkSent(d)
    BY <2>1, <2>5 DEF MarkSent, TaskInv
  <2>6. CASE FailWrite(d)
    BY <2>1, <2>6 DEF FailWrite
  <2>7. QED
    BY <1>3, <2>2, <2>3, <2>4, <2>5, <2>6
    DEF Dispatch, TaskStep, ServerStep, SpawnDispatch, PeekQueued, PeekFails, Connect,
        ConnectFails, MarkSendingFails, Build, BuildFails, SendFails, ReplyArrives,
        ReplyLost, MarkSentFails, FailRead, FailIsNotRecorded
<1>4. CASE GuiRestarts
  BY <1>4 DEF GuiRestarts, rowVars, history
<1>5. CASE SupervisorRestarts
  BY <1>5 DEF SupervisorRestarts, rowVars
<1>6. CASE UNCHANGED vars
  BY <1>6 DEF vars
<1>7. QED
  BY <1>1, <1>2, <1>3, <1>4, <1>5, <1>6 DEF Next, Gui

\* A step of task d leaves the snapshot and the place of every other task alone.
LEMMA OthersAreKept ==
    ASSUME TypeOK, NEW d \in Dispatchers, Dispatch(d),
           NEW e \in Dispatchers, e # d
    PROVE  /\ pc'[e] = pc[e]
           /\ todo'[e] = todo[e]
           /\ readCount'[e] = readCount[e]
           /\ Current(e)' = Current(e)
<1>1. /\ pc'[e] = pc[e]
      /\ todo'[e] = todo[e]
      /\ readCount'[e] = readCount[e]
  BY DEF TypeOK, Dispatch, TaskStep, ServerStep, SpawnDispatch, PeekQueued, PeekFails,
         Connect, ConnectFails, MarkSending, MarkSendingFails, Build, BuildFails,
         ServerAccepts, SendFails, ReplyArrives, ReplyLost, MarkSent, MarkSentFails,
         FailRead, FailWrite, FailIsNotRecorded, AttemptFails, NextMessage, Return, GoTo
<1>2. QED
  BY <1>1, CurrentIsKept

LEMMA TaskInvStep ==
    ASSUME TypeOK, SnapshotInv, OutboxInv, [Next]_vars
    PROVE  TaskInv'
<1> USE DEF TypeOK, TaskInv, OutboxInv
<1>1. ASSUME NEW k \in Kinds, Compose(k) PROVE TaskInv'
  <2>1. \A e \in Dispatchers : Current(e)' = Current(e)
    BY <1>1, CurrentIsKept DEF Compose, taskVars
  <2>2. \A e \in Dispatchers : pc[e] \in {"smtp", "reply", "sent"} =>
            Current(e) \in Msgs /\ Current(e) # composed + 1
    BY CurrentIsARow DEF RowInv
  <2>3. QED
    BY <1>1, <2>1, <2>2 DEF Compose, taskVars, rowVars, history
<1>2. ASSUME NEW m \in Msgs, SaveMessage(m) \/ SaveFails(m) \/ RequestDispatch(m)
      PROVE  TaskInv'
  <2>2. \A e \in Dispatchers : Current(e)' = Current(e)
    BY <1>2, CurrentIsKept DEF SaveMessage, SaveFails, RequestDispatch, taskVars
  <2>3. CASE SaveMessage(m)
    BY <2>2, <2>3 DEF SaveMessage, taskVars, history, RowInv
  <2>4. CASE SaveFails(m)
    BY <2>2, <2>4 DEF SaveFails, rowVars, taskVars, history
  <2>5. CASE RequestDispatch(m)
    BY <2>2, <2>5 DEF RequestDispatch, rowVars, taskVars, history
  <2>6. QED
    BY <1>2, <2>3, <2>4, <2>5
<1>3. ASSUME NEW d \in Dispatchers, Dispatch(d) PROVE TaskInv'
  <2> USE DEF uiVars, rowVars, history
  <2>1. ASSUME pc[d] \notin {"idle", "peek"}
        PROVE  /\ Current(d) \in todo[d]
               /\ Current(d) \in Msgs
               /\ status[Current(d)] \notin {"absent", "draft"}
    BY <2>1, CurrentIsARow
  <2>2. /\ kind' = kind
        /\ \A m \in Msgs : /\ status[m] \notin {"absent", "draft"}
                                => status'[m] \notin {"absent", "draft"}
                           /\ accepted[m] > 0 => accepted'[m] > 0
    <3>1. CASE MarkSending(d)
      BY <2>1, <3>1 DEF MarkSending
    <3>2. CASE ServerAccepts(d)
      BY <2>1, <3>2 DEF ServerAccepts
    <3>3. CASE MarkSent(d)
      BY <2>1, <3>3 DEF MarkSent
    <3>4. CASE FailWrite(d)
      BY <2>1, <3>4 DEF FailWrite
    <3>5. QED
      BY <1>3, <3>1, <3>2, <3>3, <3>4
      DEF Dispatch, TaskStep, ServerStep, SpawnDispatch, PeekQueued, PeekFails, Connect,
          ConnectFails, MarkSendingFails, Build, BuildFails, SendFails, ReplyArrives,
          ReplyLost, MarkSentFails, FailRead, FailIsNotRecorded
  <2>3. ASSUME NEW e \in Dispatchers, e # d
        PROVE  /\ \A m \in todo'[e] : status'[m] \notin {"absent", "draft"}
               /\ pc'[e] \in {"smtp", "reply", "sent"} => kind'[Current(e)'] = "mail"
               /\ pc'[e] \in {"reply", "sent"} => accepted'[Current(e)'] > 0
    BY <1>3, <2>2, <2>3, OthersAreKept, CurrentIsARow
  <2>4. \A m \in todo'[d] : status'[m] \notin {"absent", "draft"}
    <3>1. CASE PeekQueued(d)
      BY <3>1 DEF PeekQueued, Oldest, Queued
    <3>2. ASSUME todo'[d] \subseteq todo[d]
          PROVE  \A m \in todo'[d] : status'[m] \notin {"absent", "draft"}
      BY <2>2, <3>2
    <3>3. QED
      BY <1>3, <3>1, <3>2
      DEF Dispatch, TaskStep, ServerStep, SpawnDispatch, PeekFails, Connect,
          ConnectFails, MarkSending, MarkSendingFails, Build, BuildFails, ServerAccepts,
          SendFails, ReplyArrives, ReplyLost, MarkSent, MarkSentFails, FailRead,
          FailWrite, FailIsNotRecorded, NextMessage, Return
  <2>5. /\ pc'[d] \in {"smtp", "reply", "sent"} => kind'[Current(d)'] = "mail"
        /\ pc'[d] \in {"reply", "sent"} => accepted'[Current(d)'] > 0
    <3>1. CASE Build(d)
      BY <2>1, <3>1, CurrentIsKept DEF Build, GoTo, RowInv
    <3>2. CASE ServerAccepts(d)
      BY <2>1, <3>2, CurrentIsKept DEF ServerAccepts, GoTo
    <3>3. CASE ReplyArrives(d)
      BY <2>1, <3>3, CurrentIsKept DEF ReplyArrives, GoTo
    <3>4. ASSUME pc'[d] \notin {"smtp", "reply", "sent"}
          PROVE  /\ pc'[d] \in {"smtp", "reply", "sent"} => kind'[Current(d)'] = "mail"
                 /\ pc'[d] \in {"reply", "sent"} => accepted'[Current(d)'] > 0
      BY <3>4
    <3>5. QED
      BY <1>3, <3>1, <3>2, <3>3, <3>4
      DEF Dispatch, TaskStep, ServerStep, SpawnDispatch, PeekQueued, PeekFails, Connect,
          ConnectFails, MarkSending, MarkSendingFails, BuildFails, SendFails,
          ReplyLost, MarkSent, MarkSentFails, FailRead, FailWrite, FailIsNotRecorded,
          AttemptFails, NextMessage, Return, GoTo
  <2>6. QED
    BY <2>3, <2>4, <2>5
<1>4. CASE GuiRestarts
  <2>1. \A e \in Dispatchers : Current(e)' = Current(e)
    BY <1>4, CurrentIsKept DEF GuiRestarts, taskVars
  <2>2. QED
    BY <1>4, <2>1 DEF GuiRestarts, taskVars, rowVars, history
<1>5. CASE SupervisorRestarts
  BY <1>5 DEF SupervisorRestarts
<1>6. CASE UNCHANGED vars
  <2>1. \A e \in Dispatchers : Current(e)' = Current(e)
    BY <1>6, CurrentIsKept DEF vars
  <2>2. QED
    BY <1>6, <2>1 DEF vars
<1>7. QED
  BY <1>1, <1>2, <1>3, <1>4, <1>5, <1>6 DEF Next, Gui

LEMMA OwnerStep ==
    ASSUME TypeOK, SnapshotInv, OutboxInv, [Next]_vars
    PROVE  SendingHasOwner'
<1> USE DEF TypeOK, SendingHasOwner, OutboxInv
<1>1. ASSUME NEW k \in Kinds, Compose(k) PROVE SendingHasOwner'
  <2>1. \A e \in Dispatchers : Current(e)' = Current(e)
    BY <1>1, CurrentIsKept DEF Compose, taskVars
  <2>2. QED
    BY <1>1, <2>1 DEF Compose, taskVars, rowVars, history, Trying
<1>2. ASSUME NEW m \in Msgs, SaveMessage(m) \/ SaveFails(m) \/ RequestDispatch(m)
      PROVE  SendingHasOwner'
  <2>1. \A e \in Dispatchers : Current(e)' = Current(e)
    BY <1>2, CurrentIsKept DEF SaveMessage, SaveFails, RequestDispatch, taskVars
  <2>2. QED
    BY <1>2, <2>1
    DEF SaveMessage, SaveFails, RequestDispatch, taskVars, rowVars, history, Trying
<1>3. ASSUME NEW d \in Dispatchers, Dispatch(d) PROVE SendingHasOwner'
  <2> SUFFICES ASSUME NEW m \in Msgs, status'[m] = "sending", m \notin unrecorded'
               PROVE  \E e \in Dispatchers : Trying(e)' /\ m = Current(e)'
    OBVIOUS
  <2> USE DEF uiVars, rowVars, history
  <2>1. ASSUME NEW e \in Dispatchers, e # d, Trying(e), m = Current(e)
        PROVE  Trying(e)' /\ m = Current(e)'
    BY <1>3, <2>1, OthersAreKept DEF Trying
  <2>2. CASE MarkSending(d)
    <3>1. CASE m = Current(d)
      BY <2>2, <3>1, CurrentIsKept DEF MarkSending, Trying, GoTo
    <3>2. CASE m # Current(d)
      BY <2>1, <2>2, <3>2 DEF MarkSending, Trying
    <3>3. QED
      BY <3>1, <3>2
  <2>3. ASSUME status[m] = "sending", m \notin unrecorded, Trying(d) =>
                 \/ m # Current(d)
                 \/ Trying(d)' /\ Current(d)' = Current(d)
        PROVE  \E e \in Dispatchers : Trying(e)' /\ m = Current(e)'
    BY <2>1, <2>3
  <2>4. CASE SpawnDispatch(d) \/ PeekQueued(d) \/ PeekFails(d) \/ Connect(d)
               \/ ConnectFails(d) \/ MarkSendingFails(d)
    BY <2>3, <2>4
    DEF SpawnDispatch, PeekQueued, PeekFails, Connect, ConnectFails, MarkSendingFails,
        Trying
  <2>5. CASE Build(d) \/ BuildFails(d) \/ ServerAccepts(d) \/ SendFails(d)
               \/ ReplyArrives(d) \/ ReplyLost(d) \/ FailRead(d)
    BY <2>3, <2>5, CurrentIsKept
    DEF Build, BuildFails, ServerAccepts, SendFails, ReplyArrives, ReplyLost, FailRead,
        AttemptFails, GoTo, Trying
  <2>6. CASE MarkSent(d) \/ MarkSentFails(d) \/ FailWrite(d) \/ FailIsNotRecorded(d)
    BY <2>3, <2>6 DEF MarkSent, MarkSentFails, FailWrite, FailIsNotRecorded
  <2>7. QED
    BY <1>3, <2>2, <2>4, <2>5, <2>6 DEF Dispatch, TaskStep, ServerStep
<1>4. CASE GuiRestarts
  <2>1. \A e \in Dispatchers : Current(e)' = Current(e)
    BY <1>4, CurrentIsKept DEF GuiRestarts, taskVars
  <2>2. QED
    BY <1>4, <2>1 DEF GuiRestarts, taskVars, rowVars, history, Trying
<1>5. CASE SupervisorRestarts
  BY <1>5 DEF SupervisorRestarts, rowVars
<1>6. CASE UNCHANGED vars
  <2>1. \A e \in Dispatchers : Current(e)' = Current(e)
    BY <1>6, CurrentIsKept DEF vars
  <2>2. QED
    BY <1>6, <2>1 DEF vars, Trying
<1>7. QED
  BY <1>1, <1>2, <1>3, <1>4, <1>5, <1>6 DEF Next, Gui

LEMMA FailingIsFinite ==
    ASSUME NEW m
    PROVE  /\ IsFiniteSet(Failing(m))
           /\ Cardinality(Failing(m)) \in Nat
<1>1. Failing(m) \in SUBSET Dispatchers
  BY DEF Failing
<1>2. IsFiniteSet(Failing(m))
  BY <1>1, FS_Subset DEF OutboxAssumption
<1>3. QED
  BY <1>2, FS_CardinalityType

\* A step after which no more tasks are failing on m, and which leaves its counts
\* alone, leaves RetryInv alone.
LEMMA RetryStep ==
    ASSUME TypeOK, SnapshotInv, OutboxInv, [Next]_vars
    PROVE  RetryInv'
<1> USE DEF TypeOK, OutboxInv
<1>0. ASSUME NEW m \in Msgs, Failing(m)' \in SUBSET Failing(m)
      PROVE  /\ Cardinality(Failing(m)') \in Nat
             /\ Cardinality(Failing(m)') <= Cardinality(Failing(m))
  <2>1. IsFiniteSet(Failing(m)')
    BY <1>0, FailingIsFinite, FS_Subset
  <2>2. QED
    BY <1>0, <2>1, FailingIsFinite, FS_Subset, FS_CardinalityType
<1>1. ASSUME \A e \in Dispatchers : /\ pc'[e] = pc[e]
                                    /\ Current(e)' = Current(e)
                                    /\ readCount'[e] = readCount[e],
             failures' = failures,
             \A m \in Msgs : \/ retries'[m] = retries[m] /\ status'[m] = status[m]
                             \/ retries'[m] = 0 /\ status'[m] # "failed"
      PROVE  RetryInv'
  <2>1. \A m \in Msgs : Failing(m)' = Failing(m)
    BY <1>1 DEF Failing
  <2>2. QED
    BY <1>1, <2>1, FailingIsFinite DEF RetryInv
<1>2. ASSUME NEW k \in Kinds, Compose(k) PROVE RetryInv'
  <2>1. \A e \in Dispatchers : Current(e)' = Current(e)
    BY <1>2, CurrentIsKept DEF Compose, taskVars
  <2>2. QED
    BY <1>1, <1>2, <2>1 DEF Compose, taskVars, rowVars, history
<1>3. ASSUME NEW m \in Msgs, SaveMessage(m) \/ SaveFails(m) \/ RequestDispatch(m)
      PROVE  RetryInv'
  <2>1. \A e \in Dispatchers : Current(e)' = Current(e)
    BY <1>3, CurrentIsKept DEF SaveMessage, SaveFails, RequestDispatch, taskVars
  <2>2. QED
    BY <1>1, <1>3, <2>1
    DEF SaveMessage, SaveFails, RequestDispatch, taskVars, rowVars, history
<1>4. ASSUME NEW d \in Dispatchers, Dispatch(d) PROVE RetryInv'
  <2> USE DEF uiVars, rowVars, history
  <2>1. ASSUME pc[d] \notin {"idle", "peek"} PROVE Current(d) \in Msgs
    BY <2>1, CurrentIsARow
  <2>2. \A e \in Dispatchers \ {d} : /\ pc'[e] = pc[e]
                                     /\ Current(e)' = Current(e)
                                     /\ readCount'[e] = readCount[e]
    BY <1>4, OthersAreKept
  \* The task starts to account for a failure.
  <2>3. ASSUME AttemptFails(d), pc[d] \in {"mark", "build", "smtp", "reply"},
               UNCHANGED <<retries, status, todo>>
        PROVE  RetryInv'
    <3>1. Current(d) \in Msgs /\ Current(d)' = Current(d)
      BY <2>1, <2>3, CurrentIsKept
    <3>2. Failing(Current(d))' = Failing(Current(d)) \cup {d}
      BY <2>2, <2>3, <3>1 DEF AttemptFails, GoTo, Failing
    <3>3. d \notin Failing(Current(d))
      BY <2>3 DEF Failing
    <3>4. Cardinality(Failing(Current(d))') = Cardinality(Failing(Current(d))) + 1
      BY <3>2, <3>3, FailingIsFinite, FS_AddElement
    <3>5. \A m \in Msgs \ {Current(d)} : Failing(m)' = Failing(m)
      BY <2>2, <2>3, <3>1 DEF AttemptFails, GoTo, Failing
    <3>6. ASSUME NEW m \in Msgs
          PROVE  /\ retries'[m] + Cardinality(Failing(m)') <= failures'[m]
                 /\ \A e \in Dispatchers : pc'[e] = "failWrite" /\ Current(e)' = m =>
                        readCount'[e] + Cardinality(Failing(m)') <= failures'[m]
      <4>1. \A e \in Dispatchers : pc'[e] = "failWrite" =>
                /\ pc[e] = "failWrite"
                /\ Current(e)' = Current(e)
                /\ readCount'[e] = readCount[e]
        BY <2>2, <2>3 DEF AttemptFails, GoTo
      <4>2. CASE m = Current(d)
        <5>1. /\ retries[m] + Cardinality(Failing(m)) <= failures[m]
              /\ \A e \in Dispatchers : pc[e] = "failWrite" /\ Current(e) = m =>
                     readCount[e] + Cardinality(Failing(m)) <= failures[m]
          BY DEF RetryInv
        <5>2. failures'[m] = failures[m] + 1 /\ retries'[m] = retries[m]
          BY <2>3, <4>2 DEF AttemptFails
        <5>3. Cardinality(Failing(m)') = Cardinality(Failing(m)) + 1
          BY <3>1, <3>4, <4>2
        <5>4. Cardinality(Failing(m)) \in Nat
          BY FailingIsFinite
        <5>5. QED
          BY <4>1, <5>1, <5>2, <5>3, <5>4
      <4>3. CASE m # Current(d)
        BY <2>3, <3>5, <4>1, <4>3, FailingIsFinite DEF AttemptFails, RetryInv
      <4>4. QED
        BY <4>2, <4>3
    <3>7. QED
      BY <2>3, <3>6 DEF RetryInv
  \* The task goes on without touching the counts.
  <2>4. ASSUME pc'[d] \notin {"failRead", "failWrite"}, UNCHANGED <<retries, failures>>,
               \A m \in Msgs : status'[m] = "failed" => status[m] = "failed"
        PROVE  RetryInv'
    <3>1. \A m \in Msgs : Failing(m)' \in SUBSET Failing(m)
      BY <2>2, <2>4 DEF Failing
    <3>2. \A e \in Dispatchers : pc'[e] = "failWrite" =>
              /\ pc[e] = "failWrite"
              /\ Current(e)' = Current(e)
              /\ readCount'[e] = readCount[e]
      BY <2>2, <2>4
    <3>3. QED
      BY <1>0, <2>4, <3>1, <3>2, FailingIsFinite DEF RetryInv
  <2>5. CASE MarkSendingFails(d) \/ BuildFails(d) \/ SendFails(d) \/ ReplyLost(d)
    BY <2>3, <2>5 DEF MarkSendingFails, BuildFails, SendFails, ReplyLost
  <2>6. CASE \/ SpawnDispatch(d) \/ PeekQueued(d) \/ PeekFails(d)
             \/ Connect(d) \/ ConnectFails(d)
    BY <2>4, <2>6
    DEF SpawnDispatch, PeekQueued, PeekFails, Connect, ConnectFails, Return, GoTo
  <2>7. CASE \/ MarkSending(d) \/ Build(d) \/ ServerAccepts(d) \/ ReplyArrives(d)
             \/ MarkSent(d) \/ MarkSentFails(d) \/ FailIsNotRecorded(d)
    BY <2>1, <2>4, <2>7
    DEF MarkSending, Build, ServerAccepts, ReplyArrives, MarkSent, MarkSentFails,
        FailIsNotRecorded, NextMessage, Return, GoTo
  <2>8. CASE FailRead(d)
    <3>1. Current(d) \in Msgs /\ Current(d)' = Current(d)
      BY <2>1, <2>8, CurrentIsKept DEF FailRead
    <3>2. Failing(Current(d))' = Failing(Current(d)) \ {d} /\ d \in Failing(Current(d))
      BY <2>2, <2>8, <3>1 DEF FailRead, GoTo, Failing
    <3>3. Cardinality(Failing(Current(d))') = Cardinality(Failing(Current(d))) - 1
      <4>1. IsFiniteSet(Failing(Current(d)))
        BY FailingIsFinite
      <4>2. Cardinality(Failing(Current(d)) \ {d}) =
                IF d \in Failing(Current(d)) THEN Cardinality(Failing(Current(d))) - 1
                                             ELSE Cardinality(Failing(Current(d)))
        BY <4>1, FS_RemoveElement
      <4>3. QED
        BY <3>2, <4>2
    <3>4. \A m \in Msgs \ {Current(d)} : Failing(m)' = Failing(m)
      BY <2>2, <2>8, <3>1 DEF FailRead, GoTo, Failing
    <3>5. readCount'[d] = retries[Current(d)] + 1
      BY <2>8 DEF FailRead
    <3>6. ASSUME NEW m \in Msgs
          PROVE  /\ retries'[m] + Cardinality(Failing(m)') <= failures'[m]
                 /\ \A e \in Dispatchers : pc'[e] = "failWrite" /\ Current(e)' = m =>
                        readCount'[e] + Cardinality(Failing(m)') <= failures'[m]
      <4>1. CASE m = Current(d)
        BY <2>2, <2>8, <3>1, <3>3, <3>5, <4>1, FailingIsFinite DEF FailRead, RetryInv
      <4>2. CASE m # Current(d)
        BY <2>2, <2>8, <3>1, <3>4, <4>2, FailingIsFinite DEF FailRead, RetryInv
      <4>3. QED
        BY <4>1, <4>2
    <3>7. QED
      BY <2>8, <3>6 DEF FailRead, RetryInv
  <2>9. CASE FailWrite(d)
    <3>1. Current(d) \in Msgs /\ pc'[d] \in {"idle", "mark"}
      BY <2>1, <2>9 DEF FailWrite, NextMessage, Return, GoTo
    <3>2. \A m \in Msgs : Failing(m)' \in SUBSET Failing(m)
      BY <2>2, <3>1 DEF Failing
    <3>3. \A e \in Dispatchers : pc'[e] = "failWrite" =>
              /\ pc[e] = "failWrite"
              /\ Current(e)' = Current(e)
              /\ readCount'[e] = readCount[e]
      BY <2>2, <3>1
    <3>4. QED
      BY <1>0, <2>9, <3>1, <3>2, <3>3, FailingIsFinite DEF FailWrite, RetryInv
  <2>10. QED
    BY <1>4, <2>5, <2>6, <2>7, <2>8, <2>9 DEF Dispatch, TaskStep, ServerStep
<1>5. CASE GuiRestarts
  <2>1. \A e \in Dispatchers : Current(e)' = Current(e)
    BY <1>5, CurrentIsKept DEF GuiRestarts, taskVars
  <2>2. QED
    BY <1>1, <1>5, <2>1 DEF GuiRestarts, taskVars, rowVars, history
<1>6. CASE SupervisorRestarts
  <2>1. \A m \in Msgs : Failing(m)' \in SUBSET Failing(m)
    BY <1>6 DEF SupervisorRestarts, Failing
  <2>2. QED
    BY <1>0, <1>6, <2>1, FailingIsFinite DEF SupervisorRestarts, rowVars, RetryInv
<1>7. CASE UNCHANGED vars
  <2>1. \A e \in Dispatchers : Current(e)' = Current(e)
    BY <1>7, CurrentIsKept DEF vars
  <2>2. QED
    BY <1>1, <1>7, <2>1 DEF vars
<1>8. QED
  BY <1>2, <1>3, <1>4, <1>5, <1>6, <1>7 DEF Next, Gui

\* The invariant holds in every reachable state.
THEOREM Invariance == Spec => [](TypeOK /\ SnapshotInv /\ OutboxInv)
<1>1. Init => TypeOK /\ SnapshotInv /\ OutboxInv
  BY InitType, InitInv DEF Init, SnapshotInv
<1>2. TypeOK /\ SnapshotInv /\ OutboxInv /\ [Next]_vars
        => (TypeOK /\ SnapshotInv /\ OutboxInv)'
  BY TypeStep, SnapshotStep, RowStep, TaskInvStep, OwnerStep, RetryStep DEF OutboxInv
<1>3. QED
  BY <1>1, <1>2, PTL DEF Spec

\* A row marked sent was taken by the server, for every interleaving of tasks.
THEOREM SentMailWasAccepted == Spec => []SentWasAccepted
<1>1. OutboxInv => SentWasAccepted
  BY DEF OutboxInv, RowInv, SentWasAccepted
<1>2. QED
  BY <1>1, Invariance, PTL

\* A row marked failed has failed at least MaxRetries times, although concurrent
\* tasks overwrite each other's retry count.
THEOREM NoMailIsGivenUpEarly == Spec => []NoEarlyGiveUp
<1>1. TypeOK /\ OutboxInv => NoEarlyGiveUp
  <2> SUFFICES ASSUME TypeOK, OutboxInv, NEW m \in Msgs, status[m] = "failed"
               PROVE  failures[m] >= MaxRetries
    BY DEF NoEarlyGiveUp
  <2>1. /\ retries[m] + Cardinality(Failing(m)) <= failures[m]
        /\ retries[m] >= MaxRetries
    BY DEF OutboxInv, RetryInv
  <2>2. Cardinality(Failing(m)) \in Nat
    BY FailingIsFinite
  <2>3. QED
    BY <2>1, <2>2 DEF TypeOK
<1>2. QED
  BY <1>1, Invariance, PTL

\* Sent and failed rows tell the truth, however many tasks write them at once.
THEOREM StatusesAreTrue == Spec => []StatusIsTrue
<1>1. SentWasAccepted /\ NoEarlyGiveUp => StatusIsTrue
  BY DEF StatusIsTrue
<1>2. QED
  BY <1>1, SentMailWasAccepted, NoMailIsGivenUpEarly, PTL

\* A row is "sending" only while a task sends it, unless a restart or a failed
\* write lost the outcome.
THEOREM SendingRowsHaveOwners == Spec => []SendingHasOwner
<1>1. OutboxInv => SendingHasOwner
  BY DEF OutboxInv
<1>2. QED
  BY <1>1, Invariance, PTL

\* Only messages the user sent reach the server, never a draft.
THEOREM DraftsStayLocal == Spec => []OnlySentMailLeaves
<1>1. OutboxInv => OnlySentMailLeaves
  BY DEF OutboxInv, RowInv, OnlySentMailLeaves
<1>2. QED
  BY <1>1, Invariance, PTL

-----------------------------------------------------------------------------
(***************************************************************************)
(* The serial outbox. With one dispatch task at a time it keeps promises    *)
(* that overlapping tasks break: see the inductive invariant SerialInv.     *)
(***************************************************************************)
USE DEF OneTask

\* The snapshot of the one task is still true of the table: rows it has not come
\* to are queued, and the row it is trying is being sent.
FreshSnapshot ==
    \A d \in Dispatchers :
        /\ \A m \in todo[d] : (Trying(d) /\ m = Current(d)) \/ status[m] = "queued"
        /\ Trying(d) => status[Current(d)] \in {"sending", "queued"}
        /\ pc[d] \in {"build", "smtp", "reply", "sent"} => status[Current(d)] = "sending"

\* Copies are confirmed at most once, between the server's answer and the report.
CopyInv ==
    /\ \A m \in Msgs :
        /\ accepted[m] \in {lost[m], lost[m] + 1}
        /\ status[m] = "sent" => accepted[m] = lost[m] + 1
        /\ status[m] \in {"absent", "draft", "queued", "failed"} => accepted[m] = lost[m]
    /\ \A d \in Dispatchers :
        /\ pc[d] \in {"build", "smtp", "failRead", "failWrite"} =>
               accepted[Current(d)] = lost[Current(d)]
        /\ pc[d] \in {"reply", "sent"} => accepted[Current(d)] = lost[Current(d)] + 1

\* A failure of m that the one task has seen and not yet recorded.
Unwritten(m) ==
    \E d \in Dispatchers : pc[d] \in {"failRead", "failWrite"} /\ Current(d) = m

\* retry_count is exact while no outcome has been lost.
CountInv ==
    /\ \A m \in Msgs :
        /\ retries[m] <= MaxRetries
        /\ status[m] # "failed" => retries[m] < MaxRetries
        /\ m \notin unrecorded =>
               failures[m] = IF Unwritten(m) THEN retries[m] + 1 ELSE retries[m]
        /\ status[m] = "absent" => retries[m] = 0
    /\ \A d \in Dispatchers :
           pc[d] = "failWrite" => readCount[d] = retries[Current(d)] + 1

SerialInv == FreshSnapshot /\ CopyInv /\ CountInv

Inv == TypeOK /\ SnapshotInv /\ OutboxInv /\ SerialInv

LEMMA SerialInit ==
    ASSUME OneTask
    PROVE  Init => SerialInv
BY DEF Init, SerialInv, FreshSnapshot, CopyInv, CountInv, Unwritten, Trying

\* Steps of the GUI process touch neither tasks nor rows a task can see.
LEMMA GuiStep ==
    ASSUME OneTask, Inv, \/ \E k \in Kinds : Compose(k)
                \/ Gui
                \/ GuiRestarts
    PROVE  /\ UNCHANGED <<taskVars, history>>
           /\ \A d \in Dispatchers : Current(d)' = Current(d)
           /\ \/ UNCHANGED rowVars
              \/ \E m \in Msgs :
                    /\ status[m] = "absent"
                    /\ \E s \in {"draft", "queued"} : status' = [status EXCEPT ![m] = s]
                    /\ retries' = [retries EXCEPT ![m] = 0]
                    /\ \A d \in Dispatchers : m \notin todo[d]
<1>1. UNCHANGED <<taskVars, history>>
  BY DEF Compose, Gui, SaveMessage, SaveFails, RequestDispatch, GuiRestarts
<1>2. \A d \in Dispatchers : Current(d)' = Current(d)
  BY <1>1, CurrentIsKept DEF taskVars
<1>3. ASSUME NEW m \in Msgs, SaveMessage(m)
      PROVE  /\ status[m] = "absent"
             /\ \E s \in {"draft", "queued"} : status' = [status EXCEPT ![m] = s]
             /\ retries' = [retries EXCEPT ![m] = 0]
             /\ \A d \in Dispatchers : m \notin todo[d]
  BY <1>3 DEF SaveMessage, Inv, OutboxInv, RowInv, TaskInv
<1>4. QED
  BY <1>1, <1>2, <1>3
  DEF Compose, Gui, SaveFails, RequestDispatch, GuiRestarts, rowVars

LEMMA FreshStep ==
    ASSUME OneTask, Inv, [Next]_vars
    PROVE  FreshSnapshot'
<1> USE DEF Inv, TypeOK, SerialInv, FreshSnapshot
<1>1. ASSUME \/ \E k \in Kinds : Compose(k)
             \/ Gui
             \/ GuiRestarts
      PROVE  FreshSnapshot'
  <2>1. \A d \in Dispatchers : Trying(d) => Current(d) \in todo[d] /\ Current(d) \in Msgs
    BY CurrentIsARow DEF Trying, OutboxInv
  <2>2. QED
    BY <1>1, <2>1, GuiStep DEF taskVars, rowVars, history, Trying
<1>2. ASSUME NEW d \in Dispatchers, Dispatch(d) PROVE FreshSnapshot'
  <2> SUFFICES
        /\ \A m \in todo'[d] : (Trying(d)' /\ m = Current(d)') \/ status'[m] = "queued"
        /\ Trying(d)' => status'[Current(d)'] \in {"sending", "queued"}
        /\ pc'[d] \in {"build", "smtp", "reply", "sent"} => status'[Current(d)'] = "sending"
    OBVIOUS
  <2> USE DEF rowVars
  <2>1. ASSUME pc[d] \notin {"idle", "peek"}
        PROVE  Current(d) \in Msgs /\ Current(d) \in todo[d]
    BY <2>1, CurrentIsARow DEF OutboxInv
  <2>2. CASE SpawnDispatch(d)
    BY <2>2, CurrentIsKept DEF SpawnDispatch, GoTo, Trying
  <2>3. CASE PeekQueued(d)
    BY <2>3 DEF PeekQueued, GoTo, Trying, Oldest, Queued
  <2>4. CASE PeekFails(d) \/ ConnectFails(d) \/ MarkSentFails(d)
    BY <2>4 DEF PeekFails, ConnectFails, MarkSentFails, Return, GoTo, Trying
  <2>5. CASE Connect(d)
    BY <2>5 DEF Connect, GoTo, Trying
  <2>6. CASE MarkSending(d)
    BY <2>1, <2>6, CurrentIsKept DEF MarkSending, GoTo, Trying
  <2>7. CASE MarkSendingFails(d)
    BY <2>1, <2>7, CurrentIsKept DEF MarkSendingFails, AttemptFails, GoTo, Trying
  <2>8. CASE Build(d) \/ BuildFails(d)
    BY <2>1, <2>8, CurrentIsKept DEF Build, BuildFails, AttemptFails, GoTo, Trying
  <2>9. CASE SendFails(d) \/ ReplyLost(d)
    BY <2>1, <2>9, CurrentIsKept DEF SendFails, ReplyLost, AttemptFails, GoTo, Trying
  <2>10. CASE ServerAccepts(d)
    BY <2>1, <2>10, CurrentIsKept DEF ServerAccepts, GoTo, Trying
  <2>11. CASE ReplyArrives(d) \/ FailRead(d)
    BY <2>1, <2>11, CurrentIsKept DEF ReplyArrives, FailRead, GoTo, Trying
  <2>12. CASE MarkSent(d) \/ FailWrite(d) \/ FailIsNotRecorded(d)
    BY <2>1, <2>12
    DEF MarkSent, FailWrite, FailIsNotRecorded, NextMessage, Return, GoTo, Trying
  <2>13. QED
    BY <1>2, <2>2, <2>3, <2>4, <2>5, <2>6, <2>7, <2>8, <2>9, <2>10, <2>11, <2>12
    DEF Dispatch, TaskStep, ServerStep
<1>3. CASE SupervisorRestarts
  BY <1>3 DEF SupervisorRestarts, Trying
<1>4. CASE UNCHANGED vars
  BY <1>4, CurrentIsKept DEF vars, Trying
<1>5. QED
  BY <1>1, <1>2, <1>3, <1>4 DEF Next

LEMMA CopyStep ==
    ASSUME OneTask, Inv, [Next]_vars
    PROVE  CopyInv'
<1> USE DEF Inv, TypeOK, SerialInv, CopyInv
<1>0. \A d \in Dispatchers : pc[d] \notin {"idle", "peek"} => Current(d) \in Msgs
  BY CurrentIsARow DEF OutboxInv
<1>1. ASSUME \/ \E k \in Kinds : Compose(k)
             \/ Gui
             \/ GuiRestarts
      PROVE  CopyInv'
  BY <1>1, <1>0, GuiStep DEF taskVars, rowVars, history
<1>2. ASSUME NEW d \in Dispatchers, Dispatch(d) PROVE CopyInv'
  <2> USE DEF rowVars, history
  \* The parts of CopyInv' about the one task, and about the rows.
  <2>1. ASSUME UNCHANGED <<accepted, lost>>,
               \A m \in Msgs : \/ status'[m] = status[m]
                               \/ status'[m] = "sending"
                               \/ status'[m] = "sent" /\ accepted[m] = lost[m] + 1
                               \/ status'[m] # "sent" /\ accepted[m] = lost[m],
               pc'[d] \in {"build", "smtp", "failRead", "failWrite"} =>
                   accepted[Current(d)'] = lost[Current(d)'],
               pc'[d] \in {"reply", "sent"} =>
                   accepted[Current(d)'] = lost[Current(d)'] + 1
        PROVE  CopyInv'
    BY <2>1
  <2>2. CASE SpawnDispatch(d) \/ PeekQueued(d) \/ PeekFails(d) \/ Connect(d) \/ ConnectFails(d)
    BY <2>1, <2>2
    DEF SpawnDispatch, PeekQueued, PeekFails, Connect, ConnectFails, Return, GoTo
  <2>3. CASE MarkSending(d) \/ MarkSendingFails(d)
    <3>1. Current(d) \in todo[d] /\ status[Current(d)] = "queued" /\ Current(d) \in Msgs
      BY <2>3, CurrentIsARow
      DEF FreshSnapshot, Trying, MarkSending, MarkSendingFails, OutboxInv
    <3>2. QED
      BY <2>1, <2>3, <3>1, CurrentIsKept
      DEF MarkSending, MarkSendingFails, AttemptFails, GoTo
  <2>4. CASE Build(d) \/ BuildFails(d) \/ SendFails(d) \/ ReplyArrives(d) \/ FailRead(d)
    BY <2>1, <2>4, CurrentIsKept
    DEF Build, BuildFails, SendFails, ReplyArrives, FailRead, AttemptFails, GoTo
  <2>5. CASE ServerAccepts(d)
    BY <1>0, <2>5, CurrentIsKept DEF ServerAccepts, GoTo, FreshSnapshot
  <2>6. CASE ReplyLost(d)
    BY <1>0, <2>6, CurrentIsKept DEF ReplyLost, AttemptFails, GoTo, FreshSnapshot
  <2>7. CASE MarkSent(d) \/ MarkSentFails(d)
    BY <1>0, <2>1, <2>7 DEF MarkSent, MarkSentFails, NextMessage, Return, GoTo
  <2>8. CASE FailWrite(d) \/ FailIsNotRecorded(d)
    BY <1>0, <2>1, <2>8 DEF FailWrite, FailIsNotRecorded, NextMessage, Return, GoTo
  <2>9. QED
    BY <1>2, <2>2, <2>3, <2>4, <2>5, <2>6, <2>7, <2>8 DEF Dispatch, TaskStep, ServerStep
<1>3. CASE SupervisorRestarts
  BY <1>3 DEF SupervisorRestarts, rowVars
<1>4. CASE UNCHANGED vars
  BY <1>4, CurrentIsKept DEF vars
<1>5. QED
  BY <1>1, <1>2, <1>3, <1>4 DEF Next

LEMMA CountStep ==
    ASSUME OneTask, Inv, [Next]_vars
    PROVE  CountInv'
<1> USE DEF Inv, TypeOK, SerialInv, CountInv
<1>0. \A d \in Dispatchers : pc[d] \notin {"idle", "peek"} => Current(d) \in Msgs
  BY CurrentIsARow DEF OutboxInv
<1>1. ASSUME \/ \E k \in Kinds : Compose(k)
             \/ Gui
             \/ GuiRestarts
      PROVE  CountInv'
  <2>1. /\ UNCHANGED <<taskVars, history>>
        /\ \A d \in Dispatchers : Current(d)' = Current(d)
    BY <1>1, GuiStep
  <2>2. \A m \in Msgs : Unwritten(m)' <=> Unwritten(m)
    BY <2>1 DEF Unwritten, taskVars
  <2>3. CASE UNCHANGED rowVars
    BY <2>1, <2>2, <2>3 DEF rowVars, taskVars, history
  <2>4. ASSUME NEW m \in Msgs, NEW s \in {"draft", "queued"},
               status[m] = "absent",
               status' = [status EXCEPT ![m] = s],
               retries' = [retries EXCEPT ![m] = 0]
        PROVE  CountInv'
    <3>1. retries' = retries
      BY <2>4
    <3>2. QED
      BY <2>1, <2>2, <2>4, <3>1 DEF taskVars, history
  <2>5. QED
    BY <1>1, <2>3, <2>4, GuiStep
<1>2. ASSUME NEW d \in Dispatchers, Dispatch(d) PROVE CountInv'
  <2> USE DEF rowVars, history
  <2>1. ASSUME NEW m \in Msgs
        PROVE  /\ Unwritten(m)  <=> pc[d] \in {"failRead", "failWrite"} /\ Current(d) = m
               /\ Unwritten(m)' <=> pc'[d] \in {"failRead", "failWrite"} /\ Current(d)' = m
    BY DEF Unwritten
  <2>2. ASSUME AttemptFails(d), pc[d] \in {"mark", "build", "smtp", "reply"},
               UNCHANGED <<retries, status, todo, unrecorded>>
        PROVE  CountInv'
    BY <1>0, <2>1, <2>2, CurrentIsKept DEF AttemptFails, GoTo
  <2>3. ASSUME pc[d] \notin {"failRead", "failWrite"},
               pc'[d] \notin {"failRead", "failWrite"},
               UNCHANGED <<retries, failures>>, unrecorded \subseteq unrecorded',
               \A m \in Msgs : \/ status'[m] = status[m]
                               \/ status'[m] # "absent" /\ status[m] # "failed"
        PROVE  CountInv'
    BY <2>1, <2>3
  <2>4. CASE MarkSendingFails(d) \/ BuildFails(d) \/ SendFails(d) \/ ReplyLost(d)
    BY <2>2, <2>4 DEF MarkSendingFails, BuildFails, SendFails, ReplyLost
  <2>5. CASE \/ SpawnDispatch(d) \/ PeekQueued(d) \/ PeekFails(d) \/ Connect(d)
             \/ ConnectFails(d) \/ Build(d) \/ ServerAccepts(d) \/ ReplyArrives(d)
    BY <2>3, <2>5
    DEF SpawnDispatch, PeekQueued, PeekFails, Connect, ConnectFails, Build,
        ServerAccepts, ReplyArrives, Return, GoTo
  <2>6. CASE MarkSending(d)
    <3>1. status[Current(d)] = "queued"
      BY <2>6, CurrentIsARow DEF MarkSending, FreshSnapshot, Trying, OutboxInv
    <3>2. QED
      BY <1>0, <2>3, <2>6, <3>1 DEF MarkSending, GoTo
  <2>7. CASE MarkSent(d) \/ MarkSentFails(d)
    <3>1. status[Current(d)] \in {"sending", "queued"}
      BY <2>7 DEF MarkSent, MarkSentFails, FreshSnapshot, Trying
    <3>2. QED
      BY <1>0, <2>3, <2>7, <3>1 DEF MarkSent, MarkSentFails, NextMessage, Return, GoTo
  <2>8. CASE FailRead(d)
    BY <1>0, <2>1, <2>8, CurrentIsKept DEF FailRead, GoTo
  <2>9. CASE FailWrite(d)
    <3>1. /\ Current(d) \in Msgs
          /\ readCount[d] = retries[Current(d)] + 1
          /\ status[Current(d)] \in {"sending", "queued"}
          /\ retries[Current(d)] < MaxRetries
      BY <1>0, <2>9 DEF FailWrite, FreshSnapshot, Trying
    <3>2. \A m \in Msgs : ~ Unwritten(m)'
      BY <2>1, <2>9 DEF FailWrite, NextMessage, Return, GoTo
    <3>3. retries' = [retries EXCEPT ![Current(d)] = retries[Current(d)] + 1]
      BY <2>9, <3>1 DEF FailWrite
    <3>4. /\ \A m \in Msgs \ {Current(d)} : ~ Unwritten(m)
          /\ Unwritten(Current(d))
      BY <2>1, <2>9, <3>1 DEF FailWrite
    <3>5. /\ status'[Current(d)] = IF readCount[d] >= MaxRetries THEN "failed" ELSE "queued"
          /\ \A m \in Msgs \ {Current(d)} : status'[m] = status[m]
          /\ pc'[d] \in {"idle", "mark"}
          /\ UNCHANGED <<failures, unrecorded>>
      BY <2>9, <3>1 DEF FailWrite, NextMessage, Return, GoTo
    <3>6. ASSUME NEW m \in Msgs
          PROVE  /\ retries'[m] <= MaxRetries
                 /\ status'[m] # "failed" => retries'[m] < MaxRetries
                 /\ m \notin unrecorded' => failures'[m] = retries'[m]
                 /\ status'[m] = "absent" => retries'[m] = 0
      BY <3>1, <3>3, <3>4, <3>5
    <3>7. QED
      BY <3>2, <3>5, <3>6
  <2>10. CASE FailIsNotRecorded(d)
    <3>1. \A m \in Msgs : ~ Unwritten(m)'
      BY <2>1, <2>10 DEF FailIsNotRecorded, NextMessage, Return, GoTo
    <3>2. QED
      BY <1>0, <2>1, <2>10, <3>1 DEF FailIsNotRecorded, NextMessage, Return, GoTo
  <2>11. QED
    BY <1>2, <2>4, <2>5, <2>6, <2>7, <2>8, <2>9, <2>10 DEF Dispatch, TaskStep, ServerStep
<1>3. CASE SupervisorRestarts
  <2>1. \A m \in Msgs : ~ Unwritten(m)' /\ (Unwritten(m) => m \in unrecorded')
    BY <1>3 DEF SupervisorRestarts, Unwritten, Trying
  <2>2. QED
    BY <1>3, <2>1 DEF SupervisorRestarts, rowVars
<1>4. CASE UNCHANGED vars
  BY <1>4, CurrentIsKept DEF vars, Unwritten
<1>5. QED
  BY <1>1, <1>2, <1>3, <1>4 DEF Next

\* The serial invariant holds in every reachable state.
THEOREM SerialInvariance ==
    ASSUME OneTask
    PROVE  Spec => []Inv
<1>1. Init => SerialInv
  BY SerialInit
<1>2. Inv /\ [Next]_vars => SerialInv'
  BY FreshStep, CopyStep, CountStep DEF SerialInv
<1>3. Inv <=> (TypeOK /\ SnapshotInv /\ OutboxInv) /\ SerialInv
  BY DEF Inv
<1>4. QED
  BY <1>1, <1>2, <1>3, Invariance, PTL DEF Spec

-----------------------------------------------------------------------------
\* The recipients get a second copy only after a reply was lost.
THEOREM OneCopy ==
    ASSUME OneTask
    PROVE  Spec => []OneCopyUnlessReplyLost
<1>1. Inv => OneCopyUnlessReplyLost
  BY DEF Inv, TypeOK, SerialInv, CopyInv, OneCopyUnlessReplyLost
<1>2. QED
  BY <1>1, SerialInvariance, PTL

\* A message whose outcomes are all on record was tried MaxRetries times at most.
THEOREM BoundedFailures ==
    ASSUME OneTask
    PROVE  Spec => []FailuresAreBounded
<1>1. ASSUME Inv, NEW m \in Msgs, m \notin unrecorded PROVE failures[m] <= MaxRetries
  <2> USE DEF Inv, TypeOK, SerialInv, CountInv
  <2>1. CASE Unwritten(m)
    <3>1. status[m] # "failed"
      BY <1>1, <2>1 DEF Unwritten, FreshSnapshot, Trying
    <3>2. failures[m] = retries[m] + 1 /\ retries[m] < MaxRetries
      BY <1>1, <2>1, <3>1
    <3>3. QED
      BY <1>1, <3>2
  <2>2. CASE ~ Unwritten(m)
    BY <1>1, <2>2
  <2>3. QED
    BY <2>1, <2>2
<1>2. Inv => FailuresAreBounded
  BY <1>1 DEF FailuresAreBounded
<1>3. QED
  BY <1>2, SerialInvariance, PTL

\* What one step of the one task does to the status of a row.
LEMMA StatusStep ==
    ASSUME OneTask, Inv, [Next]_vars, NEW m \in Msgs, status'[m] # status[m]
    PROVE  \/ status[m] = "absent" /\ status'[m] \in {"draft", "queued"}
           \/ status[m] \in {"queued", "sending"}
<1> USE DEF Inv, TypeOK, SerialInv
<1>0. \A d \in Dispatchers : pc[d] \notin {"idle", "peek"} =>
          /\ Current(d) \in Msgs
          /\ status[Current(d)] \in {"queued", "sending"}
  BY CurrentIsARow DEF OutboxInv, FreshSnapshot
<1>1. CASE (\E k \in Kinds : Compose(k)) \/ Gui \/ GuiRestarts
  BY <1>1, GuiStep DEF rowVars
<1>2. ASSUME NEW d \in Dispatchers, Dispatch(d) PROVE status[m] \in {"queued", "sending"}
  <2>1. CASE MarkSending(d) \/ MarkSent(d) \/ FailWrite(d)
    BY <1>0, <2>1 DEF MarkSending, MarkSent, FailWrite
  <2>2. CASE UNCHANGED status
    BY <2>2
  <2>3. QED
    BY <1>2, <2>1, <2>2
    DEF Dispatch, TaskStep, ServerStep, rowVars, SpawnDispatch, PeekQueued, PeekFails,
        Connect, ConnectFails, MarkSendingFails, Build, BuildFails, ServerAccepts,
        SendFails, ReplyArrives, ReplyLost, MarkSentFails, FailRead, FailIsNotRecorded
<1>3. CASE SupervisorRestarts \/ UNCHANGED vars
  BY <1>3 DEF SupervisorRestarts, rowVars, vars
<1>4. QED
  BY <1>1, <1>2, <1>3 DEF Next

\* A sent or failed row stays what it is.
THEOREM SettledRowsAreFinal ==
    ASSUME OneTask
    PROVE  Spec => SettledIsFinal
<1>1. ASSUME Inv, [Next]_vars
      PROVE  [\A m \in Msgs : status[m] \in {"sent", "failed"} => status'[m] = status[m]]_vars
  BY <1>1, StatusStep
<1>2. QED
  BY <1>1, SerialInvariance, PTL DEF Spec, SettledIsFinal

-----------------------------------------------------------------------------
(***************************************************************************)
(* Refinement.  Opening a connection, the UPDATE to sending, the replies    *)
(* and the SELECT of a count are invisible to the user of the queue.        *)
(***************************************************************************)

LEMMA QueueStarts == Init => Queue!QueueInit
BY DEF Init, Queue!QueueInit, Told

\* A step that leaves what the user is told and the history alone is a stutter.
LEMMA Invisible ==
    ASSUME Inv, UNCHANGED <<accepted, lost, failures>>,
           \A m \in Msgs : Told(status'[m]) = Told(status[m])
    PROVE  UNCHANGED Queue!queueVars
BY DEF Queue!queueVars

\* The one task's steps, seen by the user of the queue.
LEMMA DispatchMaps ==
    ASSUME OneTask, Inv, Inv', NEW d \in Dispatchers, Dispatch(d)
    PROVE  [Queue!QueueNext]_(Queue!queueVars)
<1> USE DEF Inv, TypeOK
<1>0. pc[d] \notin {"idle", "peek"} =>
          /\ Current(d) \in Msgs
          /\ status[Current(d)] \in {"queued", "sending"}
          /\ Told(status[Current(d)]) = "pending"
  BY CurrentIsARow DEF OutboxInv, SerialInv, FreshSnapshot, Told
<1>1. CASE MarkSendingFails(d) \/ BuildFails(d) \/ SendFails(d)
  <2>1. /\ accepted[Current(d)] = lost[Current(d)]
        /\ Current(d) \in Msgs
        /\ Told(status[Current(d)]) = "pending"
    BY <1>0, <1>1, CurrentIsARow
    DEF MarkSendingFails, BuildFails, SendFails, SerialInv, CopyInv, FreshSnapshot,
        OutboxInv, Trying
  <2>2. /\ failures' = [failures EXCEPT ![Current(d)] = @ + 1]
        /\ UNCHANGED <<status, accepted, lost>>
    BY <1>1 DEF MarkSendingFails, BuildFails, SendFails, AttemptFails, rowVars
  <2>3. Queue!TryFails(Current(d))
    BY <2>1, <2>2 DEF Queue!TryFails, Queue!NothingConfirmed
  <2>4. QED
    BY <2>1, <2>3 DEF Queue!QueueNext
<1>2. CASE ServerAccepts(d)
  <2>1. accepted[Current(d)] = lost[Current(d)]
    BY <1>2 DEF ServerAccepts, SerialInv, CopyInv
  <2>2. Queue!HandOver(Current(d))
    BY <1>0, <1>2, <2>1 DEF ServerAccepts, rowVars, Queue!HandOver, Queue!NothingConfirmed
  <2>3. QED
    BY <1>0, <1>2, <2>2 DEF Queue!QueueNext, ServerAccepts
<1>3. CASE ReplyLost(d)
  <2>1. accepted[Current(d)] = lost[Current(d)] + 1
    BY <1>3 DEF ReplyLost, SerialInv, CopyInv
  <2>2. Queue!LoseReply(Current(d))
    BY <1>0, <1>3, <2>1 DEF ReplyLost, AttemptFails, rowVars, Queue!LoseReply
  <2>3. QED
    BY <1>0, <1>3, <2>2 DEF Queue!QueueNext, ReplyLost
<1>4. CASE MarkSent(d)
  <2>1. /\ Current(d) \in Msgs
        /\ Told(status[Current(d)]) = "pending"
        /\ accepted[Current(d)] = lost[Current(d)] + 1
    BY <1>0, <1>4 DEF MarkSent, SerialInv, CopyInv
  <2>2. [m \in Msgs |-> Told(status'[m])] =
            [[m \in Msgs |-> Told(status[m])] EXCEPT ![Current(d)] = "sent"]
    BY <2>1, <1>4 DEF MarkSent, Told
  <2>3. Queue!ReportSent(Current(d))
    BY <1>4, <2>1, <2>2 DEF MarkSent, history, Queue!ReportSent
  <2>4. QED
    BY <2>1, <2>3 DEF Queue!QueueNext
<1>5. CASE FailWrite(d)
  <2>1. /\ Current(d) \in Msgs
        /\ Told(status[Current(d)]) = "pending"
        /\ accepted[Current(d)] = lost[Current(d)]
        /\ UNCHANGED <<accepted, lost, failures>>
    BY <1>0, <1>5 DEF FailWrite, SerialInv, CopyInv, history
  <2>2. CASE readCount[d] >= MaxRetries
    <3>1. [m \in Msgs |-> Told(status'[m])] =
            [[m \in Msgs |-> Told(status[m])] EXCEPT ![Current(d)] = "failed"]
      BY <1>5, <2>1, <2>2 DEF FailWrite, Told
    <3>2. readCount[d] + Cardinality(Failing(Current(d))) <= failures[Current(d)]
      BY <1>5, <2>1 DEF FailWrite, OutboxInv, RetryInv
    <3>3. failures'[Current(d)] >= MaxRetries
      BY <2>1, <2>2, <3>2, FailingIsFinite
    <3>4. Queue!ReportFailed(Current(d))
      BY <2>1, <3>1, <3>3 DEF Queue!ReportFailed, Queue!NothingConfirmed
    <3>5. QED
      BY <2>1, <3>4 DEF Queue!QueueNext
  <2>3. CASE ~ (readCount[d] >= MaxRetries)
    BY <1>5, <2>1, <2>3, Invisible DEF FailWrite, Told
  <2>4. QED
    BY <2>2, <2>3
<1>6. CASE MarkSending(d)
  BY <1>0, <1>6, Invisible DEF MarkSending, Told, history
<1>7. CASE UNCHANGED <<status, accepted, lost, failures>>
  BY <1>7, Invisible
<1>8. QED
  BY <1>1, <1>2, <1>3, <1>4, <1>5, <1>6, <1>7
  DEF Dispatch, TaskStep, ServerStep, rowVars, history, SpawnDispatch, PeekQueued, PeekFails,
      Connect, ConnectFails, Build, ReplyArrives, MarkSentFails, FailRead, FailIsNotRecorded

\* Saving a message enters it in the queue.
LEMMA SaveMaps ==
    ASSUME OneTask, Inv, (\E k \in Kinds : Compose(k)) \/ Gui \/ GuiRestarts
    PROVE  [Queue!QueueNext]_(Queue!queueVars)
<1> USE DEF Inv, TypeOK
<1>1. UNCHANGED <<accepted, lost, failures>>
  BY GuiStep DEF history
<1>2. CASE UNCHANGED rowVars
  BY <1>1, <1>2, Invisible DEF rowVars
<1>3. ASSUME NEW m \in Msgs, NEW s \in {"draft", "queued"},
             status[m] = "absent", status' = [status EXCEPT ![m] = s]
      PROVE  [Queue!QueueNext]_(Queue!queueVars)
  <2>1. PICK as \in {"draft", "pending"} : as = Told(s)
    BY DEF Told
  <2>2. [n \in Msgs |-> Told(status'[n])] =
            [[n \in Msgs |-> Told(status[n])] EXCEPT ![m] = as]
    BY <1>3, <2>1
  <2>3. Queue!Enter(m, as)
    BY <1>1, <1>3, <2>2 DEF Queue!Enter, Told
  <2>4. QED
    BY <2>1, <2>3 DEF Queue!QueueNext
<1>4. QED
  BY <1>2, <1>3, GuiStep

\* The outbox with one task at a time implements the mail queue of its user.
THEOREM OutboxImplementsMailQueue ==
    ASSUME OneTask
    PROVE  Spec => ImplementsMailQueue
<1>1. ASSUME Inv, Inv', [Next]_vars
      PROVE  [Queue!QueueNext]_(Queue!queueVars)
  <2>1. CASE SupervisorRestarts \/ UNCHANGED vars
    BY <1>1, <2>1, Invisible DEF SupervisorRestarts, rowVars, vars
  <2>2. QED
    BY <1>1, <2>1, SaveMaps, DispatchMaps DEF Next
<1>2. QED
  BY <1>1, QueueStarts, SerialInvariance, PTL
  DEF Spec, ImplementsMailQueue, Queue!QueueSpec
=============================================================================
