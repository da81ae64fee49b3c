-------------------------- MODULE TaskControlProofs --------------------------
(***************************************************************************)
(* Proofs about TaskControl, for any numbers of handlers, snapshots,       *)
(* attempts, items, requests, turns and crashes.                           *)
(*                                                                         *)
(* TypeCorrect is inductive as it stands.  QueuedHasWork needs to know, of *)
(* a turn that is about to close its item or to write what it read, that   *)
(* some other item keeps a queued task alive: WorkInv.  SavedKept needs    *)
(* that nothing that will be written refers to a saved snapshot: SavedInv. *)
(* ResumedOnce and NoResurrection need that what a turn resumes from is    *)
(* fit until its last write, and that a snapshot in use was revived as     *)
(* often as it was resumed from to the end: UseInv.                        *)
(***************************************************************************)
EXTENDS TaskControl, TLAPS

-----------------------------------------------------------------------------
(***************************************************************************)
(* Types of the helpers.                                                   *)
(***************************************************************************)
LEMMA PutType ==
    ASSUME NEW now \in TaskRows, NEW seen \in TaskRows, NEW new \in TaskRows
    PROVE  Put(now, seen, new) \in TaskRows
  BY DEF Put, Column, TaskRows

LEMMA NoRowType == NoRow \in TaskRows
  BY DEF NoRow, TaskRows, TaskStatuses, Intents

LEMMA IdleType == Idle \in Handlers /\ Idle.op = "none"
  BY NoRowType DEF Idle, Handlers, Operations

LEMMA WillType ==
    ASSUME TypeOK, NEW op \in Operations, NEW change \in TaskRows
    PROVE  Will(op, change) \in Handlers /\ Will(op, change).op = op
  BY NoRowType DEF TypeOK, Will, Idle, Handlers

LEMMA LatestAttemptType ==
    ASSUME TypeOK, NEW a \in LatestAttempt PROVE a \in Attempts \cup {None}
  BY DEF LatestAttempt, ActiveAttempts

LEMMA QueuedType ==
    ASSUME NEW a \in Attempts \cup {None}, NEW s \in Snaps \cup {None}
    PROVE  Queued(a, s) \in ItemRows
  BY DEF Queued, ItemRows, ItemStatuses

LEMMA NewItemType ==
    ASSUME TypeOK, NEW i \in Items, item' = [item EXCEPT ![i] = Queued(None, None)]
    PROVE  item' \in [Items -> ItemRows]
  <1>1. Queued(None, None) \in ItemRows
    BY QueuedType
  <1>. QED
    BY <1>1 DEF TypeOK

LEMMA SupersededType ==
    ASSUME NEW rows \in [Snaps -> SnapRows]
    PROVE  Superseded(rows) \in [Snaps -> SnapRows]
  BY DEF Superseded, SnapRows, SnapStatuses

LEMMA CancelsType ==
    ASSUME TypeOK, NEW which PROVE Cancels(which) \in [Items -> ItemRows]
  BY DEF TypeOK, Cancels, ItemRows, ItemStatuses

LEMMA ReportingType ==
    ASSUME turn.item \in Items, NEW again \in BOOLEAN
    PROVE  /\ Reporting(again) \in Turns
           /\ Reporting(again).item \in Items
  BY NoRowType DEF Reporting, NoTurn, Turns, Phases

LEMMA SourceType ==
    ASSUME TypeOK, turn.item \in Items, Resuming PROVE Source \in Snaps
  BY DEF TypeOK, Source, Resuming, ItemRows

LEMMA AttemptBecomesType ==
    ASSUME TypeOK, turn.item \in Items, NEW status \in AttemptStatuses
    PROVE  AttemptBecomes(status) \in [Attempts -> AttemptRows]
  BY DEF TypeOK, AttemptBecomes, AttemptRows, ItemRows

LEMMA SnapsInTurnType ==
    ASSUME TypeOK, turn.item \in Items PROVE SnapsInTurn \in [Snaps -> SnapRows]
  BY SourceType DEF TypeOK, SnapsInTurn, SnapRows, SnapStatuses

LEMMA ConsumedType ==
    ASSUME TypeOK, turn.item \in Items, NEW rows \in [Snaps -> SnapRows]
    PROVE  Consumed(rows) \in [Snaps -> SnapRows]
  BY SourceType DEF Consumed, SnapRows, SnapStatuses

LEMMA ReleasedType ==
    ASSUME NEW row \in TaskRows PROVE Released(row) \in TaskRows
  BY DEF Released, TaskRows, Intents

LEMMA WithSnapshotType ==
    ASSUME NEW rows \in [Snaps -> SnapRows], NEW n \in Snaps,
           NEW status \in SnapStatuses
    PROVE  WithSnapshot(rows, n, status) \in [Snaps -> SnapRows]
  BY SupersededType DEF WithSnapshot, SnapRows, Kinds

LEMMA PreparedType == Prepared \subseteq SnapStatuses
  BY TaskControlAssumption DEF SnapStatuses

-----------------------------------------------------------------------------
(***************************************************************************)
(* Types of the steps, by the shape they share.                            *)
(***************************************************************************)
\* A request that has only read.
LEMMA DecidesType ==
    ASSUME TypeOK, HistoryType', NEW c \in Clients, NEW d \in Handlers, Decides(c, d),
           d.op = "resume" => d.snap \in Snaps, ops' \in 0 .. MaxOps
    PROVE  TypeOK'
  BY DEF TypeOK, Decides

LEMMA AsksType ==
    ASSUME TypeOK, NEW c \in Clients, Asks(c) PROVE ops' \in 0 .. MaxOps
  BY TaskControlAssumption DEF TypeOK, Asks

\* A transaction of a request that commits.
LEMMA CommitsType ==
    ASSUME TypeOK, HistoryType', NEW c \in Clients, NEW op, NEW change \in TaskRows,
           Commits(c, op, change),
           snap' \in [Snaps -> SnapRows], att' \in [Attempts -> AttemptRows],
           item' \in [Items -> ItemRows]
    PROVE  TypeOK'
  <1>1. task' \in TaskRows
    BY PutType DEF TypeOK, Commits, Handlers
  <1>2. /\ client' \in [Clients -> Handlers]
        /\ \A e \in Clients : client'[e].op = "resume" => client'[e].snap \in Snaps
    BY IdleType DEF TypeOK, Commits
  <1>. QED
    BY <1>1, <1>2 DEF TypeOK, Commits, bounds

\* A step of the turn.
LEMMA TurnType ==
    ASSUME TypeOK, HistoryType',
           task' \in TaskRows, snap' \in [Snaps -> SnapRows],
           att' \in [Attempts -> AttemptRows], item' \in [Items -> ItemRows],
           turn' \in Turns, turn'.phase # "idle" => turn'.item \in Items,
           UNCHANGED <<client, bounds>>
    PROVE  TypeOK'
  BY DEF TypeOK, bounds

LEMMA StopsEarlyType ==
    ASSUME TypeOK, HistoryType', NEW change \in TaskRows, StopsEarly(change),
           snap' \in [Snaps -> SnapRows], item' \in [Items -> ItemRows]
    PROVE  TypeOK'
  <1>1. turn.item \in Items /\ turn.row \in TaskRows /\ turn.base \in TaskRows
    BY DEF TypeOK, StopsEarly, Turns
  <1>2. task' \in TaskRows
    BY <1>1, PutType DEF StopsEarly
  <1>3. att' \in [Attempts -> AttemptRows]
    BY <1>1, AttemptBecomesType DEF StopsEarly, AttemptStatuses, ActiveStatuses
  <1>. QED
    BY <1>1, <1>2, <1>3, ReportingType, TurnType DEF StopsEarly

LEMMA StopsPausedType ==
    ASSUME TypeOK, HistoryType', NEW n \in Snaps, NEW status \in SnapStatuses,
           NEW change \in TaskRows, StopsPaused(n, status, change)
    PROVE  TypeOK'
  <1>1. turn.item \in Items
    BY DEF TypeOK, StopsPaused, StopsEarly
  <1>2. snap' \in [Snaps -> SnapRows]
    BY <1>1, SnapsInTurnType, WithSnapshotType DEF StopsPaused
  <1>3. [change EXCEPT !.status = "paused", !.snap = n] \in TaskRows
    BY DEF TaskRows, TaskStatuses
  <1>. QED
    BY <1>2, <1>3, StopsEarlyType DEF StopsPaused, TypeOK

-----------------------------------------------------------------------------
(***************************************************************************)
(* Type correctness.                                                       *)
(***************************************************************************)
LEMMA RequestType ==
    ASSUME TypeOK, HistoryType', NEW c \in Clients, Request(c) PROVE TypeOK'
  <1> USE DEF TypeOK
  <1>1. \A status \in TaskStatuses : Unpaused(status) \in TaskRows
    BY DEF Unpaused, TaskRows
  <1>2. CASE Start(c) \/ Retry(c)
    <2> DEFINE d == Will("queue", [Unpaused("queued") EXCEPT !.intent = None])
    <2>1. [Unpaused("queued") EXCEPT !.intent = None] \in TaskRows
      BY <1>1 DEF TaskRows, TaskStatuses, Intents
    <2>2. d \in Handlers /\ d.op = "queue"
      BY <2>1, WillType DEF Operations
    <2>. QED
      BY <1>2, <2>2, DecidesType, AsksType DEF Start, Retry
  <1>3. CASE Revise(c)
    <2>1. [Unpaused("queued") EXCEPT !.snap = None] \in TaskRows
      BY <1>1 DEF TaskRows, TaskStatuses
    <2> DEFINE d == Will("queue", [Unpaused("queued") EXCEPT !.snap = None])
    <2>2. d \in Handlers /\ d.op = "queue"
      BY <2>1, WillType DEF Operations
    <2>. QED
      BY <1>3, <2>2, DecidesType, AsksType DEF Revise
  <1>4. CASE Approve(c)
    <2>1. [Unpaused("completed") EXCEPT !.snap = None] \in TaskRows
      BY <1>1 DEF TaskRows, TaskStatuses
    <2> DEFINE d == Will("write", [Unpaused("completed") EXCEPT !.snap = None])
    <2>2. d \in Handlers /\ d.op = "write"
      BY <2>1, WillType DEF Operations
    <2>. QED
      BY <1>4, <2>2, DecidesType, AsksType DEF Approve
  <1>5. CASE Resume(c)
    <2>1. PICK a \in LatestAttempt :
            Decides(c, [Will("resume", [Unpaused("paused") EXCEPT !.intent = "resume",
                                                                 !.att = a])
                          EXCEPT !.snap = task.snap, !.att = a])
      BY <1>5 DEF Resume
    <2>2. a \in Attempts \cup {None}
      BY LatestAttemptType
    <2>3. [Unpaused("paused") EXCEPT !.intent = "resume", !.att = a] \in TaskRows
      BY <1>1, <2>2 DEF TaskRows, TaskStatuses, Intents
    <2>4. Will("resume", [Unpaused("paused") EXCEPT !.intent = "resume", !.att = a])
            \in Handlers
      BY <2>3, WillType DEF Operations
    <2>5. [Will("resume", [Unpaused("paused") EXCEPT !.intent = "resume", !.att = a])
             EXCEPT !.snap = task.snap, !.att = a] \in Handlers
      BY <2>2, <2>4 DEF Handlers, TaskRows
    <2>6. task.snap \in Snaps
      BY <1>5 DEF Resume, Resumable
    <2>7. [Will("resume", [Unpaused("paused") EXCEPT !.intent = "resume", !.att = a])
             EXCEPT !.snap = task.snap, !.att = a].snap = task.snap
      BY <2>4 DEF Handlers
    <2>. QED
      BY <1>5, <2>1, <2>6, <2>7, <2>5, DecidesType, AsksType DEF Resume
  <1>6. CASE Pause(c)
    <2>1. /\ Will("prepare", task) \in Handlers /\ Will("prepare", task).op = "prepare"
          /\ Will("flag", task) \in Handlers /\ Will("flag", task).op = "flag"
      BY WillType DEF Operations
    <2>2. /\ client' \in [Clients -> Handlers]
          /\ \A e \in Clients : client'[e].op = "resume" => client'[e].snap \in Snaps
      BY <1>6, <2>1 DEF Pause
    <2>3. item' \in [Items -> ItemRows]
      BY <1>6, CancelsType DEF Pause
    <2>. QED
      BY <1>6, <2>2, <2>3, AsksType DEF Pause
  <1>7. CASE PreparePause(c)
    <2>1. /\ client' \in [Clients -> Handlers]
          /\ \A e \in Clients : client'[e].op = "resume" => client'[e].snap \in Snaps
      BY <1>7 DEF PreparePause, Handlers, Operations
    <2>2. task' \in TaskRows
      BY <1>7 DEF PreparePause, TaskRows
    <2>3. snap' \in [Snaps -> SnapRows]
      BY <1>7, SupersededType, PreparedType DEF PreparePause, SnapRows, Kinds
    <2>. QED
      BY <1>7, <2>1, <2>2, <2>3 DEF PreparePause, bounds
  <1>8. CASE Reread(c)
    <2>1. client[c].snap \in Snaps \cup {Lost, None}
      BY DEF Handlers
    <2>2. [task EXCEPT !.pause = TRUE, !.intent = "pause"] \in TaskRows
      BY DEF TaskRows, Intents
    <2>3. [Unpaused("paused") EXCEPT !.snap = client[c].snap, !.intent = None]
            \in TaskRows
      BY <1>1, <2>1 DEF TaskRows, TaskStatuses, Intents
    <2> DEFINE d == Will("write", [task EXCEPT !.pause = TRUE, !.intent = "pause"])
               e == Will("write", [Unpaused("paused") EXCEPT !.snap = client[c].snap,
                                                            !.intent = None])
    <2>4. d \in Handlers /\ d.op = "write" /\ e \in Handlers /\ e.op = "write"
      BY <2>2, <2>3, WillType DEF Operations
    <2>5. ops' \in 0 .. MaxOps
      BY <1>8 DEF Reread
    <2>. QED
      BY <1>8, <2>4, <2>5, DecidesType DEF Reread
  <1>9. CASE Cancel(c)
    <2>1. PICK a \in LatestAttempt :
            Decides(c, [Will(IF task.snap \in Snaps THEN "cancel" ELSE "audit",
                             [Unpaused("cancelled") EXCEPT !.snap = None, !.att = None,
                                                           !.intent = None])
                          EXCEPT !.att = a,
                                 !.items = {i \in Items : item[i].status = "queued"}])
      BY <1>9 DEF Cancel
    <2>2. a \in Attempts \cup {None}
      BY LatestAttemptType
    <2> DEFINE change == [Unpaused("cancelled") EXCEPT !.snap = None, !.att = None,
                                                       !.intent = None]
               op == IF task.snap \in Snaps THEN "cancel" ELSE "audit"
               which == {i \in Items : item[i].status = "queued"}
    <2>3. change \in TaskRows
      BY <1>1 DEF TaskRows, TaskStatuses, Intents
    <2>4. op \in Operations
      BY DEF Operations
    <2> HIDE DEF change, op
    <2>5. Will(op, change) \in Handlers /\ Will(op, change).op = op
      BY <2>3, <2>4, WillType
    <2> DEFINE d == [Will(op, change) EXCEPT !.att = a, !.items = which]
    <2>6. d \in Handlers /\ d.op = op
      BY <2>2, <2>5 DEF Handlers
    <2>7. Decides(c, d) /\ op # "resume"
      BY <2>1 DEF change, op
    <2> HIDE DEF d
    <2>. QED
      BY <1>9, <2>6, <2>7, DecidesType, AsksType DEF Cancel
  <1>10. CASE PrepareAudit(c)
    <2>1. /\ client' \in [Clients -> Handlers]
          /\ \A e \in Clients : client'[e].op = "resume" => client'[e].snap \in Snaps
      BY <1>10, IdleType DEF PrepareAudit, Handlers, Operations
    <2>2. snap' \in [Snaps -> SnapRows]
      BY <1>10, SupersededType, PreparedType DEF PrepareAudit, SnapRows, Kinds
    <2>. QED
      BY <1>10, <2>1, <2>2 DEF PrepareAudit, bounds
  <1>11. CASE Save(c)
    <2>1. snap' \in [Snaps -> SnapRows]
      BY <1>11 DEF Save, SnapRows, SnapStatuses, Kinds
    <2>. QED
      BY <1>11, <2>1, AsksType DEF Save
  <1>12. client[c].change \in TaskRows
    BY DEF Handlers
  <1>13. CASE CommitWrite(c)
    BY <1>12, <1>13, CommitsType DEF CommitWrite
  <1>14. CASE CommitQueue(c)
    <2>1. item' \in [Items -> ItemRows]
      BY <1>14, NewItemType DEF CommitQueue
    <2>. QED
      BY <1>12, <1>14, <2>1, CommitsType DEF CommitQueue
  <1>15. CASE CommitResumeAgain(c)
    BY <1>12, <1>15, CommitsType DEF CommitResumeAgain
  <1>16. CASE CommitResume(c)
    <2>1. PICK a \in Attempts, i \in Items :
            /\ Commits(c, "resume", [client[c].change EXCEPT !.att = a])
            /\ att' = [att EXCEPT ![a] = [status |-> "queued", snap |-> client[c].snap]]
            /\ item' = [item EXCEPT ![i] = Queued(a, client[c].snap)]
      BY <1>16 DEF CommitResume
    <2>2. client[c].snap \in Snaps
      BY <2>1 DEF Commits
    <2>3. [client[c].change EXCEPT !.att = a] \in TaskRows
      BY <1>12 DEF TaskRows
    <2>4. att' \in [Attempts -> AttemptRows]
      BY <2>1, <2>2 DEF AttemptRows, AttemptStatuses, ActiveStatuses
    <2>5. item' \in [Items -> ItemRows]
      BY <2>1, <2>2, QueuedType
    <2>6. snap' \in [Snaps -> SnapRows]
      BY <1>16 DEF CommitResume
    <2>. QED
      BY <2>1, <2>3, <2>4, <2>5, <2>6, CommitsType
  <1>17. CASE CommitCancel(c)
    <2>1. item' \in [Items -> ItemRows]
      BY <1>17, CancelsType DEF CommitCancel
    <2>2. att' \in [Attempts -> AttemptRows]
      BY <1>17 DEF CommitCancel, AttemptRows, AttemptStatuses
    <2>3. snap' \in [Snaps -> SnapRows]
      <3>1. CASE client[c].snap \in Snaps
        <4>1. snap' = [snap EXCEPT ![client[c].snap].status = "archived"]
          BY <1>17, <3>1 DEF CommitCancel
        <4>2. "archived" \in SnapStatuses
          BY DEF SnapStatuses
        <4>. QED
          BY <4>1, <4>2 DEF SnapRows
      <3>2. CASE client[c].snap \notin Snaps
        <4>1. PICK n \in Snaps :
                snap' = [snap EXCEPT ![n] = [status |-> "archived",
                                             kind |-> "cancel-audit"]]
          BY <1>17, <3>2 DEF CommitCancel
        <4>2. [status |-> "archived", kind |-> "cancel-audit"] \in SnapRows
          BY DEF SnapRows, SnapStatuses, Kinds
        <4>. QED
          BY <4>1, <4>2
      <3>. QED
        BY <3>1, <3>2
    <2>4. Commits(c, "cancel", client[c].change)
      BY <1>17 DEF CommitCancel
    <2>. QED
      BY <1>12, <2>1, <2>2, <2>3, <2>4, CommitsType, SMTT(30)
  <1>. QED
    BY <1>2, <1>3, <1>4, <1>5, <1>6, <1>7, <1>8, <1>9, <1>10, <1>11, <1>13, <1>14,
       <1>15, <1>16, <1>17 DEF Request

\* A turn that ends in a commit, with what it wrote typed.
LEMMA EndsType ==
    ASSUME TypeOK, HistoryType', turn.item \in Items, NEW again \in BOOLEAN,
           turn' = Reporting(again),
           task' \in TaskRows, snap' \in [Snaps -> SnapRows],
           att' \in [Attempts -> AttemptRows], item' \in [Items -> ItemRows],
           UNCHANGED <<client, bounds>>
    PROVE  TypeOK'
  BY ReportingType, TurnType

LEMMA TurnStepType ==
    ASSUME TypeOK, HistoryType', Turn PROVE TypeOK'
  <1> USE DEF TypeOK
  <1>0. turn.base \in TaskRows /\ turn.row \in TaskRows
    BY DEF Turns
  <1>1. CASE Claim
    <2>1. item' \in [Items -> ItemRows]
      BY <1>1 DEF Claim, ItemRows, ItemStatuses
    <2>2. turn' \in Turns /\ turn'.item \in Items
      BY <1>1, NoRowType DEF Claim, NoTurn, Turns, Phases
    <2>3. turns' \in 0 .. MaxTurns
      BY <1>1, TaskControlAssumption DEF Claim
    <2>. QED
      BY <1>1, <2>1, <2>2, <2>3 DEF Claim
  <1>2. CASE Load
    <2>1. turn' \in Turns /\ turn'.item = turn.item
      BY <1>2 DEF Load, Turns, Phases
    <2>. QED
      BY <1>2, <2>1, TurnType DEF Load
  <1>3. CASE Block
    <2>1. turn.item \in Items
      BY <1>3 DEF Block
    <2>2. snap' \in [Snaps -> SnapRows]
      BY <1>3, <2>1, SourceType DEF Block, SnapRows, SnapStatuses
    <2>3. att' \in [Attempts -> AttemptRows]
      BY <1>3, <2>1, AttemptBecomesType DEF Block, AttemptStatuses, ActiveStatuses
    <2>4. [turn.base EXCEPT !.status = "resume-blocked", !.pause = FALSE, !.intent = None]
            \in TaskRows
      BY <1>0 DEF TaskRows, TaskStatuses, Intents
    <2>5. task' \in TaskRows
      BY <1>0, <1>3, <2>4, PutType DEF Block
    <2>. QED
      BY <1>3, <2>1, <2>2, <2>3, <2>5, EndsType DEF Block
  <1>4. CASE Execute
    <2> DEFINE running == [turn.base EXCEPT !.status = "running",
                                            !.intent = IF Resuming THEN "resume" ELSE @]
    <2>1. running \in TaskRows
      BY <1>0 DEF TaskRows, TaskStatuses, Intents
    <2>2. Put(task, turn.base, running) \in TaskRows
      BY <1>0, <2>1, PutType
    <2>3. turn' = [turn EXCEPT !.phase = "executing", !.base = running,
                               !.row = Put(task, turn.base, running)]
      BY <1>4 DEF Execute
    <2> HIDE DEF running
    <2>4. turn' \in Turns /\ turn'.item = turn.item
      BY <2>1, <2>2, <2>3 DEF Turns, Phases
    <2>. QED
      BY <1>4, <2>4, TurnType DEF Execute
  <1>5. CASE DeliverPaused
    <2>1. turn.item \in Items
      BY <1>5 DEF DeliverPaused
    <2>2. PICK n \in Snaps, status \in Prepared :
            /\ snap' = Consumed(WithSnapshot(SnapsInTurn, n, status))
            /\ task' = Released([turn.row EXCEPT !.status = "paused", !.pause = FALSE,
                                                 !.snap = n])
      BY <1>5 DEF DeliverPaused
    <2>3. WithSnapshot(SnapsInTurn, n, status) \in [Snaps -> SnapRows]
      BY <2>1, SnapsInTurnType, WithSnapshotType, PreparedType
    <2>4. snap' \in [Snaps -> SnapRows]
      BY <2>1, <2>2, <2>3, ConsumedType
    <2>5. [turn.row EXCEPT !.status = "paused", !.pause = FALSE, !.snap = n] \in TaskRows
      BY <1>0 DEF TaskRows, TaskStatuses
    <2>6. task' \in TaskRows
      BY <2>2, <2>5, ReleasedType
    <2>7. att' \in [Attempts -> AttemptRows]
      BY <1>5, <2>1, AttemptBecomesType DEF DeliverPaused, AttemptStatuses
    <2>. QED
      BY <1>5, <2>1, <2>4, <2>6, <2>7, EndsType DEF DeliverPaused
  <1>6. \A status \in TaskStatuses : Delivered(status) \in TaskRows
    <2> TAKE status \in TaskStatuses
    <2>1. [turn.row EXCEPT !.status = status, !.pause = FALSE, !.snap = None] \in TaskRows
      BY <1>0 DEF TaskRows
    <2>. QED
      BY <2>1, ReleasedType DEF Delivered
  <1>7. CASE Deliver
    <2>1. turn.item \in Items
      BY <1>7 DEF Deliver
    <2>2. task' \in TaskRows
      BY <1>6, <1>7 DEF Deliver, TaskStatuses
    <2>3. snap' \in [Snaps -> SnapRows]
      BY <1>7, <2>1, SnapsInTurnType, ConsumedType DEF Deliver
    <2>4. att' \in [Attempts -> AttemptRows]
      BY <1>7, <2>1, AttemptBecomesType DEF Deliver, AttemptStatuses
    <2>. QED
      BY <1>7, <2>1, <2>2, <2>3, <2>4, EndsType DEF Deliver
  <1>8. CASE DeliverAndContinue
    <2>1. turn.item \in Items
      BY <1>8 DEF DeliverAndContinue
    <2>2. task' \in TaskRows
      BY <1>6, <1>8 DEF DeliverAndContinue, TaskStatuses
    <2>3. snap' \in [Snaps -> SnapRows]
      BY <1>8, <2>1, SnapsInTurnType, ConsumedType DEF DeliverAndContinue
    <2>4. att' \in [Attempts -> AttemptRows]
      BY <1>8, <2>1, AttemptBecomesType DEF DeliverAndContinue, AttemptStatuses
    <2>5. item' \in [Items -> ItemRows]
      BY <1>8, NewItemType DEF DeliverAndContinue
    <2>. QED
      BY <1>8, <2>1, <2>2, <2>3, <2>4, <2>5, EndsType DEF DeliverAndContinue
  <1>9. CASE StopForBudget
    <2>1. [turn.base EXCEPT !.pause = FALSE] \in TaskRows
      BY <1>0 DEF TaskRows
    <2>. QED
      BY <1>9, <2>1, StopsPausedType, PreparedType DEF StopForBudget
  <1>10. CASE StopForShutdown
    <2>1. ASSUME NEW n \in Snaps, StopsPaused(n, "restorable", turn.base) PROVE TypeOK'
      BY <1>0, <2>1, StopsPausedType DEF SnapStatuses
    <2>2. ASSUME StopsEarly(turn.base), snap' = SnapsInTurn, UNCHANGED item
          PROVE  TypeOK'
      <3>1. snap' \in [Snaps -> SnapRows]
        BY <2>2, SnapsInTurnType DEF StopsEarly
      <3>. QED
        BY <1>0, <2>2, <3>1, StopsEarlyType
    <2>. QED
      BY <1>10, <2>1, <2>2 DEF StopForShutdown
  <1>11. CASE Fail
    <2>1. [turn.base EXCEPT !.status = "failed"] \in TaskRows
      BY <1>0 DEF TaskRows, TaskStatuses
    <2>2. snap' \in [Snaps -> SnapRows]
      BY <1>11, SnapsInTurnType DEF Fail, StopsEarly
    <2>. QED
      BY <1>11, <2>1, <2>2, StopsEarlyType DEF Fail
  <1>12. CASE FailAndContinue
    <2>1. [turn.base EXCEPT !.status = "queued"] \in TaskRows
      BY <1>0 DEF TaskRows, TaskStatuses
    <2>2. snap' \in [Snaps -> SnapRows]
      BY <1>12, SnapsInTurnType DEF FailAndContinue, StopsEarly
    <2>3. item' \in [Items -> ItemRows]
      BY <1>12, NewItemType DEF FailAndContinue
    <2>. QED
      BY <1>12, <2>1, <2>2, <2>3, StopsEarlyType DEF FailAndContinue
  <1>13. CASE Abort
    <2>1. turn' \in Turns /\ turn'.item = turn.item
      BY <1>13, NoRowType DEF Abort, NoTurn, Turns, Phases
    <2>. QED
      BY <1>13, <2>1, TurnType DEF Abort
  <1>14. CASE Raise
    <2>1. turn.item \in Items
      BY <1>14 DEF Raise
    <2>2. PICK again \in BOOLEAN : turn' = Reporting(again)
      BY <1>14 DEF Raise
    <2>3. snap' \in [Snaps -> SnapRows]
      <3>1. Source \in Snaps
        BY <1>14, <2>1, SourceType DEF Raise
      <3>. QED
        BY <1>14, <3>1 DEF Raise, SnapRows, SnapStatuses
    <2>4. att' \in [Attempts -> AttemptRows]
      BY <1>14, <2>1, AttemptBecomesType DEF Raise, AttemptStatuses, ActiveStatuses
    <2>5. task' \in TaskRows
      BY <1>14 DEF Raise, Unpaused, TaskRows, TaskStatuses, Intents
    <2>. QED
      BY <1>14, <2>1, <2>2, <2>3, <2>4, <2>5, EndsType DEF Raise
  <1>18. CASE RaiseUnread
    <2>1. turn.item \in Items /\ turn' = Reporting(FALSE)
      BY <1>18 DEF RaiseUnread
    <2>2. task' \in TaskRows
      BY <1>18 DEF RaiseUnread, TaskRows, TaskStatuses
    <2>. QED
      BY <1>18, <2>1, <2>2, EndsType DEF RaiseUnread
  <1>15. CASE Report
    <2>1. item' \in [Items -> ItemRows]
      BY <1>15 DEF Report, ItemRows, ItemStatuses
    <2>2. turn' \in Turns /\ turn'.phase = "idle"
      BY <1>15, NoRowType DEF Report, NoTurn, Turns, Phases
    <2>. QED
      BY <1>15, <2>1, <2>2, TurnType DEF Report
  <1>16. CASE Crash
    <2>1. turn' \in Turns /\ turn'.item = turn.item
      BY <1>16, NoRowType DEF Crash, NoTurn, Turns, Phases
    <2>2. crashes' \in 0 .. MaxCrash
      BY <1>16, TaskControlAssumption DEF Crash
    <2>. QED
      BY <1>16, <2>1, <2>2 DEF Crash
  <1>17. CASE Recover
    <2>1. item' \in [Items -> ItemRows]
      BY <1>17 DEF Recover, ItemRows, ItemStatuses
    <2>2. turn' \in Turns /\ turn'.phase = "idle"
      BY <1>17, NoRowType DEF Recover, NoTurn, Turns, Phases
    <2>. QED
      BY <1>17, <2>1, <2>2, TurnType DEF Recover
  <1>. QED
    BY <1>1, <1>2, <1>3, <1>4, <1>5, <1>7, <1>8, <1>9, <1>10, <1>11, <1>12, <1>13,
       <1>14, <1>18, <1>15, <1>16, <1>17 DEF Turn

\* What the history counts are natural numbers.
LEMMA HistoryStep == TypeOK /\ [Next]_vars => HistoryType'
  <1> SUFFICES ASSUME TypeOK, [Next]_vars PROVE HistoryType'
    OBVIOUS
  <1>1. /\ EndedOnceMore \in [Snaps -> Nat]
        /\ [revived EXCEPT ![Source] = @ + 1] \in [Snaps -> Nat]
    <2>1. \A f \in [Snaps -> Nat] : \A s : [f EXCEPT ![s] = @ + 1] \in [Snaps -> Nat]
      <3> TAKE f \in [Snaps -> Nat]
      <3> TAKE s
      <3>1. CASE s \in Snaps
        BY <3>1
      <3>2. CASE s \notin Snaps
        BY <3>2
      <3>. QED
        BY <3>1, <3>2
    <2>. QED
      BY <2>1 DEF TypeOK, HistoryType, EndedOnceMore
  <1>2. history' = history => HistoryType'
    BY DEF TypeOK, HistoryType, history
  <1>3. ASSUME NEW c \in Clients, Request(c) \/ HandlerDies(c) PROVE history' = history
    BY <1>3 DEF Request, HandlerDies, Start, Retry, Revise, Approve, Resume, Pause, PreparePause,
       Reread, Cancel, PrepareAudit, Save, Decides, CommitWrite, CommitQueue, CommitResume,
       CommitResumeAgain, CommitCancel, Commits
  <1>4. CASE DeliverPaused \/ Deliver \/ DeliverAndContinue
    BY <1>1, <1>4 DEF DeliverPaused, Deliver, DeliverAndContinue, TypeOK, HistoryType
  <1>5. CASE Raise
    BY <1>1, <1>5 DEF Raise, TypeOK, HistoryType
  <1>6. CASE Claim \/ Load \/ Block \/ Execute \/ StopForBudget \/ StopForShutdown \/ Fail
             \/ FailAndContinue \/ Abort \/ RaiseUnread \/ Report \/ Crash \/ Recover
    <2>1. history' = history
      BY <1>6 DEF Claim, Load, Block, Execute, StopForBudget, StopForShutdown, Fail,
         FailAndContinue, StopsPaused, StopsEarly, Abort, RaiseUnread, Report, Crash, Recover
    <2>. QED
      BY <1>2, <2>1
  <1>7. CASE UNCHANGED vars
    BY <1>2, <1>7 DEF vars, history
  <1>. QED
    BY <1>2, <1>3, <1>4, <1>5, <1>6, <1>7 DEF Next, Turn

LEMMA TypeStep == TypeOK /\ [Next]_vars => TypeOK'
  <1> SUFFICES ASSUME TypeOK, [Next]_vars PROVE TypeOK'
    OBVIOUS
  <1>0. HistoryType'
    BY HistoryStep
  <1>1. ASSUME NEW c \in Clients, HandlerDies(c) PROVE TypeOK'
    BY <1>0, <1>1, IdleType, TaskControlAssumption DEF TypeOK, HandlerDies
  <1>2. CASE UNCHANGED vars
    BY <1>0, <1>2 DEF TypeOK, vars
  <1>. QED
    BY <1>0, <1>1, <1>2, RequestType, TurnStepType DEF Next

LEMMA TypeInit == Init => TypeOK
  <1> SUFFICES ASSUME Init PROVE TypeOK
    OBVIOUS
  <1>1. snap \in [Snaps -> SnapRows] /\ att \in [Attempts -> AttemptRows]
    BY DEF Init, SnapRows, SnapStatuses, Kinds, AttemptRows, AttemptStatuses
  <1>2. item \in [Items -> ItemRows]
    BY DEF Init, ItemRows, ItemStatuses
  <1>3. turn \in Turns /\ turn.phase = "idle" /\ HistoryType
    BY NoRowType DEF Init, NoTurn, Turns, Phases, HistoryType
  <1>. QED
    BY <1>1, <1>2, <1>3, NoRowType, IdleType, TaskControlAssumption DEF Init, TypeOK

\* The rows, what the handlers carry and the turn keep their types.
THEOREM TypeCorrect == Spec => []TypeOK
  BY TypeInit, TypeStep, PTL DEF Spec
-----------------------------------------------------------------------------
(***************************************************************************)
(* A queued task has work.                                                 *)
(***************************************************************************)
\* The task is being paused, or an item other than that of the turn is open.
Kept == Pausing \/ \E i \in Items : i # turn.item /\ Open(i)

\* What the handlers will make of the status.
Intended ==
    \A c \in Clients :
        /\ client[c].op = "write" => \/ client[c].change.status \in {"paused", "completed"}
                                     \/ client[c].change.status = client[c].row.status
        /\ client[c].op = "resume" => client[c].change.status = "paused"
        /\ client[c].op \in {"audit", "cancel"} =>
              client[c].change.status = "cancelled" /\ client[c].row.status # "cancelled"

WorkInv ==
    /\ Intended
    /\ turn.phase # "idle" => item[turn.item].status # "absent"
    /\ QueuedHasWork
    /\ turn.phase = "reporting" /\ task.status = "queued" => Kept
    \* a turn that read another status may leave "queued" as it finds it
    /\ turn.phase = "loaded" /\ task.status = "queued" /\ turn.base.status # "queued"
          => Kept
    /\ turn.phase = "executing" /\ turn.row.status = "queued"
          => Kept /\ task.status = "queued"
    /\ turn.phase = "executing" => turn.base.status = "running"

\* What a request may do to a task that is queued when it is through.
RequestKeeps(c) ==
    /\ turn' = turn
    /\ turn.phase = "executing" => task'.status = task.status
    /\ \A i \in Items : item[i].status # "absent" => item'[i].status # "absent"
    /\ task'.status = "queued" /\ task.status = "queued" =>
          /\ Pausing => Pausing'
          /\ \A i \in Items : Open(i) => Open(i)' \/ Pausing'
    /\ task'.status = "queued" /\ task.status # "queued" =>
          \E i \in Items : item[i].status = "absent" /\ Open(i)'

LEMMA DecidesKeeps ==
    ASSUME NEW c \in Clients, NEW d, Decides(c, d),
           task.status = "queued" /\ IsPausing(client[c]) => IsPausing(d),
           TypeOK
    PROVE  RequestKeeps(c)
  <1>1. client' = [client EXCEPT ![c] = d]
    BY DEF Decides
  <1>2. task.status = "queued" /\ Pausing => Pausing'
    <2> SUFFICES ASSUME task.status = "queued", Pausing PROVE Pausing'
      OBVIOUS
    <2>1. PICK e \in Clients : IsPausing(client[e])
      BY DEF Pausing
    <2>2. IsPausing(client'[e])
      BY <1>1, <2>1 DEF TypeOK
    <2>. QED
      BY <2>2 DEF Pausing, IsPausing
  <1>. QED
    BY <1>2 DEF RequestKeeps, Decides, Open

\* A commit leaves "queued" alone only when it is no pause that was to end it.
LEMMA CommitsKeeps ==
    ASSUME NEW c \in Clients, NEW op, NEW change, Commits(c, op, change),
           TypeOK, task.status = "queued", task'.status = "queued",
           change.status = client[c].change.status, Pausing, op # "prepare",
           op # "paused"
    PROVE  Pausing'
  <1>1. PICK e \in Clients : IsPausing(client[e])
    BY DEF Pausing
  <1>2. ~IsPausing(client[c])
    BY DEF Commits, IsPausing, Put, Column
  <1>3. client'[e] = client[e]
    BY <1>1, <1>2 DEF Commits, TypeOK
  <1>. QED
    BY <1>1, <1>3 DEF Pausing, IsPausing

LEMMA RequestKeepsQueued ==
    ASSUME TypeOK, WorkInv, NEW c \in Clients, Request(c)
    PROVE  RequestKeeps(c)
  <1>1. ASSUME client[c].op = "none", NEW d, Decides(c, d) PROVE RequestKeeps(c)
    BY <1>1, DecidesKeeps DEF IsPausing
  <1>2. CASE Start(c) \/ Retry(c) \/ Revise(c) \/ Approve(c) \/ Resume(c) \/ Cancel(c)
    BY <1>1, <1>2 DEF Start, Retry, Revise, Approve, Resume, Cancel, Asks
  <1>3. CASE Pause(c)
    <2>1. CASE task.status = "queued"
      <3>1. client'[c] = Will("prepare", task) /\ task' = task /\ turn' = turn
        BY <1>3, <2>1 DEF Pause, TypeOK
      <3>2. Pausing'
        BY <3>1 DEF Pausing, IsPausing, Will, Idle
      <3>3. \A i \in Items : item[i].status # "absent" => item'[i].status # "absent"
        BY <1>3, <2>1 DEF Pause, Cancels, TypeOK, ItemRows
      <3>. QED
        BY <2>1, <3>1, <3>2, <3>3 DEF RequestKeeps
    <2>2. CASE task.status # "queued"
      BY <1>3, <2>2 DEF Pause, RequestKeeps
    <2>. QED
      BY <2>1, <2>2
  <1>4. CASE PreparePause(c)
    <2>1. task'.status = task.status /\ turn' = turn /\ item' = item
      BY <1>4 DEF PreparePause, TypeOK, TaskRows
    <2>2. client'[c].op = "paused"
      BY <1>4 DEF PreparePause, TypeOK, Handlers
    <2>3. Pausing'
      BY <2>2 DEF Pausing, IsPausing
    <2>. QED
      BY <2>1, <2>3 DEF RequestKeeps, Open
  <1>5. CASE Reread(c)
    <2>1. CASE client[c].op = "flag"
      BY <1>5, <2>1, DecidesKeeps DEF Reread, IsPausing
    <2>2. CASE client[c].op = "paused"
      <3> DEFINE d == Will("write", [Unpaused("paused") EXCEPT !.snap = client[c].snap,
                                                              !.intent = None])
      <3>1. Decides(c, d)
        BY <1>5, <2>2 DEF Reread
      <3>2. d.op = "write" /\ d.change.status = "paused" /\ d.row = task
        BY DEF Will, Idle, Unpaused, TypeOK, TaskRows
      <3>3. task.status = "queued" => IsPausing(d)
        BY <3>2 DEF IsPausing
      <3> HIDE DEF d
      <3>. QED
        BY <3>1, <3>3, DecidesKeeps
    <2>. QED
      BY <1>5, <2>1, <2>2 DEF Reread
  <1>6. CASE PrepareAudit(c)
    <2>1. task' = task /\ turn' = turn /\ item' = item /\ client[c].op = "audit"
      BY <1>6 DEF PrepareAudit
    <2>2. Pausing => Pausing'
      <3> SUFFICES ASSUME Pausing PROVE Pausing'
        OBVIOUS
      <3>1. PICK e \in Clients : IsPausing(client[e])
        BY DEF Pausing
      <3>2. client'[e] = client[e]
        BY <1>6, <2>1, <3>1 DEF PrepareAudit, IsPausing, TypeOK
      <3>. QED
        BY <3>1, <3>2 DEF Pausing, IsPausing
    <2>. QED
      BY <2>1, <2>2 DEF RequestKeeps, Open
  <1>7. CASE Save(c)
    BY <1>7 DEF Save, RequestKeeps, Open, Pausing, IsPausing
  <1>8. CASE CommitWrite(c)
    <2>1. /\ Commits(c, "write", client[c].change)
          /\ item' = item /\ turn' = turn /\ turn.phase # "executing"
      BY <1>8 DEF CommitWrite, Commits, RowFree
    <2>2. ~(task'.status = "queued" /\ task.status # "queued")
      BY <2>1 DEF Commits, WorkInv, Intended, Put, Column
    <2>. QED
      BY <2>1, <2>2, CommitsKeeps DEF RequestKeeps, Open
  <1>9. CASE CommitQueue(c)
    <2>1. PICK i \in Items : Fresh(item, i) /\ item' = [item EXCEPT ![i] = Queued(None, None)]
      BY <1>9 DEF CommitQueue
    <2>2. /\ Commits(c, "queue", client[c].change)
          /\ turn' = turn /\ turn.phase # "executing"
      BY <1>9 DEF CommitQueue, Commits, RowFree
    <2>3. item[i].status = "absent" /\ Open(i)'
      BY <2>1 DEF Fresh, Open, Queued, TypeOK
    <2>4. \A j \in Items : j # i => item'[j] = item[j]
      BY <2>1 DEF TypeOK
    <2>. QED
      BY <2>2, <2>3, <2>4, CommitsKeeps DEF RequestKeeps, Open
  <1>10. CASE CommitResumeAgain(c)
    <2>1. /\ Commits(c, "resume", client[c].change)
          /\ item' = item /\ turn' = turn /\ turn.phase # "executing"
      BY <1>10 DEF CommitResumeAgain, Commits, RowFree
    <2>2. ~(task'.status = "queued" /\ task.status # "queued")
      BY <2>1 DEF Commits, WorkInv, Intended, Put, Column
    <2>. QED
      BY <2>1, <2>2, CommitsKeeps DEF RequestKeeps, Open
  <1>11. CASE CommitResume(c)
    <2>1. PICK a \in Attempts, i \in Items :
            /\ Fresh(item, i)
            /\ Commits(c, "resume", [client[c].change EXCEPT !.att = a])
            /\ item' = [item EXCEPT ![i] = Queued(a, client[c].snap)]
      BY <1>11 DEF CommitResume
    <2>2. turn' = turn /\ turn.phase # "executing"
      BY <2>1 DEF Commits, RowFree
    <2>3. item[i].status = "absent" /\ Open(i)'
      BY <2>1 DEF Fresh, Open, Queued, TypeOK
    <2>4. \A j \in Items : j # i => item'[j] = item[j]
      BY <2>1 DEF TypeOK
    <2>5. [client[c].change EXCEPT !.att = a].status = client[c].change.status
      BY DEF TypeOK, Handlers, TaskRows
    <2>. QED
      BY <2>1, <2>2, <2>3, <2>4, <2>5, CommitsKeeps DEF RequestKeeps, Open
  <1>12. CASE CommitCancel(c)
    <2>1. /\ Commits(c, "cancel", client[c].change)
          /\ item' = Cancels(client[c].items) /\ turn' = turn /\ turn.phase # "executing"
      BY <1>12 DEF CommitCancel, Commits, RowFree
    <2>2. task'.status = "cancelled"
      BY <2>1 DEF Commits, WorkInv, Intended, Put, Column
    <2>3. \A i \in Items : item[i].status # "absent" => item'[i].status # "absent"
      BY <2>1 DEF Cancels, TypeOK, ItemRows
    <2>. QED
      BY <2>1, <2>2, <2>3 DEF RequestKeeps
  <1>. QED
    BY <1>2, <1>3, <1>4, <1>5, <1>6, <1>7, <1>8, <1>9, <1>10, <1>11, <1>12 DEF Request

\* What a handler that has decided d will make of the status.
Intends(h) ==
    /\ h.op = "write" => \/ h.change.status \in {"paused", "completed"}
                         \/ h.change.status = h.row.status
    /\ h.op = "resume" => h.change.status = "paused"
    /\ h.op \in {"audit", "cancel"} =>
          h.change.status = "cancelled" /\ h.row.status # "cancelled"

LEMMA RequestIntends ==
    ASSUME TypeOK, Intended, NEW c \in Clients, Request(c)
    PROVE  Intended'
  <1>1. SUFFICES ASSUME NEW e \in Clients PROVE Intends(client'[e])
    BY DEF Intended, Intends
  <1>2. Intends(client[e])
    BY DEF Intended, Intends
  <1>3. Intends(Idle)
    BY DEF Intends, Idle
  <1>4. ASSUME NEW d, Decides(c, d), Intends(d) PROVE Intends(client'[e])
    BY <1>2, <1>4 DEF Decides, TypeOK
  <1>5. CASE Start(c) \/ Retry(c) \/ Revise(c)
    <2>1. \A change : Intends(Will("queue", change))
      BY DEF Intends, Will, Idle
    <2>. QED
      BY <1>4, <1>5, <2>1 DEF Start, Retry, Revise
  <1>6. CASE Approve(c)
    <2>1. Intends(Will("write", [Unpaused("completed") EXCEPT !.snap = None]))
      BY DEF Intends, Will, Idle, Unpaused, TypeOK, TaskRows
    <2>. QED
      BY <1>4, <1>6, <2>1 DEF Approve
  <1>7. CASE Resume(c)
    <2>1. \A a : Intends([Will("resume", [Unpaused("paused") EXCEPT !.intent = "resume",
                                                                   !.att = a])
                            EXCEPT !.snap = task.snap, !.att = a])
      BY DEF Intends, Will, Idle, Unpaused, TypeOK, TaskRows
    <2>. QED
      BY <1>4, <1>7, <2>1 DEF Resume
  <1>8. CASE Pause(c)
    <2>1. Intends(Will("prepare", task)) /\ Intends(Will("flag", task))
      BY DEF Intends, Will, Idle
    <2>. QED
      BY <1>2, <1>8, <2>1 DEF Pause, TypeOK
  <1>9. CASE PreparePause(c)
    <2>1. client'[c].op = "paused"
      BY <1>9 DEF PreparePause, TypeOK, Handlers
    <2>2. e # c => client'[e] = client[e]
      BY <1>9 DEF PreparePause, TypeOK
    <2>. QED
      BY <1>2, <2>1, <2>2 DEF Intends
  <1>10. CASE Reread(c)
    <2>1. Intends(Will("write", [task EXCEPT !.pause = TRUE, !.intent = "pause"]))
      BY DEF Intends, Will, Idle, TypeOK, TaskRows
    <2>2. Intends(Will("write", [Unpaused("paused") EXCEPT !.snap = client[c].snap,
                                                          !.intent = None]))
      BY DEF Intends, Will, Idle, Unpaused, TypeOK, TaskRows
    <2>. QED
      BY <1>4, <1>10, <2>1, <2>2 DEF Reread
  <1>11. CASE Cancel(c)
    <2> DEFINE change == [Unpaused("cancelled") EXCEPT !.snap = None, !.att = None,
                                                       !.intent = None]
    <2>1. change.status = "cancelled"
      BY DEF Unpaused, TypeOK, TaskRows
    <2>2. task.status # "cancelled"
      BY <1>11 DEF Cancel
    <2> HIDE DEF change
    <2>3. \A op \in {"cancel", "audit"} : \A a, which :
            Intends([Will(op, change) EXCEPT !.att = a, !.items = which])
      BY <2>1, <2>2 DEF Intends, Will, Idle
    <2>4. PICK a \in LatestAttempt :
            Decides(c, [Will(IF task.snap \in Snaps THEN "cancel" ELSE "audit", change)
                          EXCEPT !.att = a,
                                 !.items = {i \in Items : item[i].status = "queued"}])
      BY <1>11 DEF Cancel, change
    <2>. QED
      BY <1>4, <2>3, <2>4
  <1>12. CASE PrepareAudit(c)
    BY <1>2, <1>3, <1>12 DEF PrepareAudit, TypeOK, Handlers, Intends
  <1>13. CASE Save(c)
    BY <1>2, <1>13 DEF Save
  <1>14. ASSUME NEW op, NEW change, Commits(c, op, change) PROVE Intends(client'[e])
    BY <1>2, <1>3, <1>14 DEF Commits, TypeOK
  <1>. QED
    BY <1>5, <1>6, <1>7, <1>8, <1>9, <1>10, <1>11, <1>12, <1>13, <1>14
       DEF Request, CommitWrite, CommitQueue, CommitResume, CommitResumeAgain, CommitCancel

LEMMA RequestWork ==
    ASSUME TypeOK, WorkInv, NEW c \in Clients, Request(c)
    PROVE  WorkInv'
  <1>1. RequestKeeps(c)
    BY RequestKeepsQueued
  <1>2. Intended'
    BY RequestIntends DEF WorkInv
  <1>3. turn' = turn /\ (turn.phase # "idle" => turn.item \in Items)
    BY <1>1 DEF RequestKeeps, TypeOK
  <1>4. turn.phase # "idle" => item'[turn.item].status # "absent"
    BY <1>1, <1>3 DEF RequestKeeps, WorkInv
  <1>5. QueuedHasWork'
    BY <1>1 DEF RequestKeeps, WorkInv, QueuedHasWork
  <1>6. ASSUME turn.phase # "idle", task'.status = "queued",
               task.status = "queued" => Kept
        PROVE  Kept'
    BY <1>1, <1>3, <1>6 DEF RequestKeeps, Kept, WorkInv
  <1>. QED
    BY <1>1, <1>2, <1>3, <1>4, <1>5, <1>6 DEF WorkInv, RequestKeeps

\* A turn that ends with its item still to be reported.
LEMMA ReportingWork ==
    ASSUME TypeOK, WorkInv, turn.phase # "idle", client' = client,
           NEW again, turn' = Reporting(again),
           \A i \in Items : item[i].status # "absent" => item'[i] = item[i],
           task'.status = "queued" =>
              Kept \/ \E i \in Items : item[i].status = "absent" /\ Open(i)'
    PROVE  WorkInv'
  <1>1. turn'.item = turn.item /\ turn'.phase = "reporting" /\ turn.item \in Items
    BY DEF Reporting, NoTurn, TypeOK
  <1>2. Intended' /\ (Pausing => Pausing')
    BY DEF WorkInv, Intended, Pausing
  <1>3. item'[turn.item].status # "absent"
    BY <1>1 DEF WorkInv
  <1>4. \A i \in Items : Open(i) => Open(i)'
    BY DEF Open
  <1>5. task'.status = "queued" => Kept'
    BY <1>1, <1>2, <1>4 DEF WorkInv, Kept
  <1>6. QueuedHasWork'
    BY <1>5 DEF Kept, QueuedHasWork
  <1>. QED
    BY <1>1, <1>2, <1>3, <1>5, <1>6 DEF WorkInv

LEMMA TurnStepWork ==
    ASSUME TypeOK, WorkInv, Turn
    PROVE  WorkInv'
  <1>1. client' = client /\ Intended' /\ (Pausing <=> Pausing')
    BY DEF Turn, Claim, Load, Block, Execute, DeliverPaused, Deliver, DeliverAndContinue,
           StopForBudget, StopForShutdown, StopsPaused, StopsEarly, Fail, FailAndContinue,
           Abort, Raise, RaiseUnread, Report, Crash, Recover, WorkInv, Intended, Pausing
  <1>2. CASE Claim
    <2>1. PICK k \in Items : /\ item[k].status = "queued"
                             /\ item' = [item EXCEPT ![k].status = "leased"]
                             /\ turn' = [NoTurn EXCEPT !.phase = "claimed", !.item = k]
      BY <1>2 DEF Claim
    <2>2. item'[k].status = "leased" /\ \A i \in Items : i # k => item'[i] = item[i]
      BY <2>1 DEF TypeOK, ItemRows
    <2>3. turn'.phase = "claimed" /\ turn'.item = k
      BY <2>1 DEF NoTurn
    <2>4. QueuedHasWork'
      BY <1>1, <1>2, <2>1, <2>2 DEF Claim, WorkInv, QueuedHasWork, Open
    <2>. QED
      BY <1>1, <2>2, <2>3, <2>4 DEF WorkInv
  <1>3. CASE Load
    <2>1. turn'.phase = "loaded" /\ turn'.item = turn.item /\ turn'.base = task
      BY <1>3 DEF Load, TypeOK, Turns
    <2>2. task' = task /\ item' = item
      BY <1>3 DEF Load
    <2>. QED
      BY <1>1, <1>3, <2>1, <2>2 DEF Load, WorkInv, QueuedHasWork, Open
  <1>4. CASE Block
    <2>1. [turn.base EXCEPT !.status = "resume-blocked", !.pause = FALSE,
                            !.intent = None].status = "resume-blocked"
      BY DEF TypeOK, Turns, TaskRows
    <2>2. task'.status = "queued" => Kept
      BY <1>4, <2>1 DEF Block, Put, Column, WorkInv
    <2>. QED
      BY <1>1, <1>4, <2>2, ReportingWork DEF Block
  <1>5. CASE Execute
    <2> DEFINE running == [turn.base EXCEPT !.status = "running",
                                            !.intent = IF Resuming THEN "resume" ELSE @]
    <2>1. running.status = "running"
      BY DEF TypeOK, Turns, TaskRows
    <2>2. /\ turn'.phase = "executing" /\ turn'.item = turn.item
          /\ turn'.base = running /\ turn'.row = Put(task, turn.base, running)
      BY <1>5 DEF Execute, TypeOK, Turns
    <2>3. task' = task /\ item' = item
      BY <1>5 DEF Execute
    <2> HIDE DEF running
    <2>4. turn'.row.status = "queued" => Kept /\ task.status = "queued"
      BY <1>5, <2>1, <2>2 DEF Execute, Put, Column, WorkInv
    <2>. QED
      BY <1>1, <1>5, <2>1, <2>2, <2>3, <2>4 DEF Execute, WorkInv, QueuedHasWork, Open, Kept
  <1>6. CASE DeliverPaused
    <2>1. task'.status = "paused"
      BY <1>6 DEF DeliverPaused, Released, TypeOK, Turns, TaskRows
    <2>. QED
      BY <1>1, <1>6, <2>1, ReportingWork DEF DeliverPaused
  <1>7. \A status : Delivered(status).status = status
    BY DEF Delivered, Released, TypeOK, Turns, TaskRows
  <1>8. CASE Deliver
    <2>1. task'.status # "queued"
      BY <1>7, <1>8 DEF Deliver
    <2>. QED
      BY <1>1, <1>8, <2>1, ReportingWork DEF Deliver
  <1>9. ASSUME NEW i \in Items, Fresh(item, i), item' = [item EXCEPT ![i] = Queued(None, None)]
        PROVE  /\ item[i].status = "absent" /\ Open(i)'
               /\ \A j \in Items : item[j].status # "absent" => item'[j] = item[j]
    BY <1>9 DEF Fresh, Open, Queued, TypeOK
  <1>10. CASE DeliverAndContinue
    BY <1>1, <1>9, <1>10, ReportingWork DEF DeliverAndContinue
  <1>11. ASSUME NEW change, StopsEarly(change), item' = item, change.status \in {"paused", "failed"}
         PROVE  WorkInv'
    <2>1. task'.status = change.status
      BY <1>11 DEF StopsEarly, WorkInv, Put, Column
    <2>. QED
      BY <1>1, <1>11, <2>1, ReportingWork DEF StopsEarly
  <1>12. ASSUME NEW n \in Snaps, NEW status, NEW change \in TaskRows,
                StopsPaused(n, status, change)
         PROVE  WorkInv'
    <2>1. [change EXCEPT !.status = "paused", !.snap = n].status = "paused"
      BY DEF TaskRows
    <2>. QED
      BY <1>11, <1>12, <2>1 DEF StopsPaused
  <1>13. turn.base \in TaskRows /\ [turn.base EXCEPT !.pause = FALSE] \in TaskRows
    BY DEF TypeOK, Turns, TaskRows
  <1>14. CASE StopForBudget
    BY <1>12, <1>13, <1>14 DEF StopForBudget
  <1>15. CASE StopForShutdown
    <2>1. ASSUME StopsEarly(turn.base), item' = item PROVE WorkInv'
      <3>1. task'.status = turn.row.status
        BY <2>1 DEF StopsEarly, Put, Column
      <3>. QED
        BY <1>1, <2>1, <3>1, ReportingWork DEF StopsEarly, WorkInv
    <2>. QED
      BY <1>12, <1>13, <1>15, <2>1 DEF StopForShutdown
  <1>16. CASE Fail
    <2>1. [turn.base EXCEPT !.status = "failed"].status = "failed"
      BY <1>13 DEF TaskRows
    <2>. QED
      BY <1>11, <1>16, <2>1 DEF Fail
  <1>17. CASE FailAndContinue
    BY <1>1, <1>9, <1>17, ReportingWork DEF FailAndContinue, StopsEarly
  <1>18. CASE Abort
    <2>1. turn'.phase \in {"raised", "unread"} /\ turn'.item = turn.item
      BY <1>18 DEF Abort, NoTurn
    <2>. QED
      BY <1>1, <1>18, <2>1 DEF Abort, WorkInv, QueuedHasWork, Open
  <1>19. CASE Raise \/ RaiseUnread
    <2>1. task'.status # "queued"
      BY <1>19 DEF Raise, RaiseUnread, Unpaused, TypeOK, TaskRows
    <2>. QED
      BY <1>1, <1>19, <2>1, ReportingWork DEF Raise, RaiseUnread
  <1>20. CASE Report
    <2>1. turn.item \in Items /\ turn'.phase = "idle"
      BY <1>20 DEF Report, TypeOK, NoTurn
    <2>2. \A i \in Items : i # turn.item => item'[i] = item[i]
      BY <1>20 DEF Report, TypeOK
    <2>3. QueuedHasWork'
      BY <1>1, <1>20, <2>2 DEF Report, WorkInv, QueuedHasWork, Kept, Open
    <2>. QED
      BY <1>1, <2>1, <2>3 DEF WorkInv
  <1>21. CASE Crash
    <2>1. turn'.phase = "dead" /\ turn'.item = turn.item
      BY <1>21 DEF Crash, NoTurn
    <2>. QED
      BY <1>1, <1>21, <2>1 DEF Crash, WorkInv, QueuedHasWork, Open
  <1>22. CASE Recover
    <2>1. turn.item \in Items /\ turn'.phase = "idle"
      BY <1>22 DEF Recover, TypeOK, NoTurn
    <2>2. QueuedHasWork'
      BY <1>22, <2>1 DEF Recover, TypeOK, ItemRows, QueuedHasWork, Open
    <2>. QED
      BY <1>1, <2>1, <2>2 DEF WorkInv
  <1>. QED
    BY <1>2, <1>3, <1>4, <1>5, <1>6, <1>8, <1>10, <1>14, <1>15, <1>16, <1>17, <1>18,
       <1>19, <1>20, <1>21, <1>22 DEF Turn

LEMMA WorkStep ==
    ASSUME HandlersDie = FALSE
    PROVE  TypeOK /\ WorkInv /\ [Next]_vars => WorkInv'
  <1> SUFFICES ASSUME TypeOK, WorkInv, [Next]_vars PROVE WorkInv'
    OBVIOUS
  <1>1. \A c \in Clients : ~HandlerDies(c)
    BY DEF HandlerDies
  <1>2. CASE UNCHANGED vars
    BY <1>2 DEF vars, WorkInv, Intended, QueuedHasWork, Kept, Pausing, IsPausing, Open
  <1>. QED
    BY <1>1, <1>2, RequestWork, TurnStepWork DEF Next

LEMMA WorkInit == Init => WorkInv
  BY DEF Init, WorkInv, Intended, QueuedHasWork, NoTurn, NoRow, Idle

\* As long as no handler dies between its transactions, whatever is lost,
\* retried or overtaken, a task never says it is queued with nothing to run
\* it: the stale writes of the handlers and of the turn cannot bring it there.
THEOREM QueuedTaskHasWork ==
    ASSUME HandlersDie = FALSE
    PROVE  Spec => []QueuedHasWork
  <1>1. TypeOK /\ WorkInv /\ [Next]_vars => WorkInv'
    BY WorkStep
  <1>2. WorkInv => QueuedHasWork
    BY DEF WorkInv
  <1>. QED
    BY <1>1, <1>2, WorkInit, TypeCorrect, PTL DEF Spec
-----------------------------------------------------------------------------
(***************************************************************************)
(* What was saved is kept.                                                 *)
(***************************************************************************)
\* A snapshot that may be written: it exists and no user saved it.
Written(s) == s \in Snaps => snap[s].status # "absent" /\ snap[s].kind # "user-saved"

SavedInv ==
    /\ Written(task.snap)
    /\ \A i \in Items : Written(item[i].snap)
    /\ \A c \in Clients : Written(client[c].snap) /\ Written(client[c].change.snap)
    /\ Written(turn.base.snap) /\ Written(turn.row.snap)

\* A step leaves saved snapshots alone, and kinds and existence as they are.
Keeps(s) ==
    snap[s].status # "absent" =>
        /\ snap'[s].status # "absent" /\ snap'[s].kind = snap[s].kind
        /\ snap[s].kind = "user-saved" => snap'[s] = snap[s]

KeepsSaved == \A s \in Snaps : Keeps(s)

LEMMA WrittenStays ==
    ASSUME NEW s, Written(s), KeepsSaved PROVE Written(s)'
  BY DEF Written, KeepsSaved, Keeps

LEMMA NoneWritten == Written(None) /\ Written(Lost)
  BY TaskControlAssumption DEF Written

\* An UPDATE writes a reference that was in the row or is in the change.
LEMMA PutSnap ==
    ASSUME NEW now, NEW seen, NEW new
    PROVE  Put(now, seen, new).snap \in {now.snap, new.snap}
  BY DEF Put, Column

\* What leaves the rows where they are but for the status of one that may be
\* written.
LEMMA StatusKeeps ==
    ASSUME TypeOK, NEW s \in Snaps, Written(s), NEW status, status # "absent",
           snap' = [snap EXCEPT ![s].status = status]
    PROVE  KeepsSaved
  BY DEF TypeOK, SnapRows, Written, KeepsSaved, Keeps

LEMMA FreshKeeps ==
    ASSUME TypeOK, NEW n \in Snaps, Fresh(snap, n), NEW row,
           snap' = [snap EXCEPT ![n] = row] \/ snap' = [Superseded(snap) EXCEPT ![n] = row]
    PROVE  KeepsSaved
  <1>1. \A s \in Snaps : snap[s].status # "absent" => s # n
    BY DEF Fresh
  <1>2. \A s \in Snaps : s # n => snap'[s] \in {snap[s], Superseded(snap)[s]}
    BY DEF TypeOK, Superseded
  <1>3. \A s \in Snaps : /\ snap[s].status # "absent" => Superseded(snap)[s].status # "absent"
                         /\ Superseded(snap)[s].kind = snap[s].kind
                         /\ snap[s].kind = "user-saved" => Superseded(snap)[s] = snap[s]
    BY DEF TypeOK, SnapRows, Superseded
  <1>. QED
    BY <1>1, <1>2, <1>3 DEF KeepsSaved, Keeps

LEMMA FreshWritten ==
    ASSUME TypeOK, NEW n \in Snaps, NEW row, row.status # "absent", row.kind # "user-saved",
           snap' = [snap EXCEPT ![n] = row] \/ snap' = [Superseded(snap) EXCEPT ![n] = row]
    PROVE  Written(n)'
  BY DEF TypeOK, Written, Superseded

LEMMA PreparedWritten ==
    ASSUME TypeOK, NEW n \in Snaps, NEW status \in Prepared,
           NEW kind \in {"active-paused", "cancel-audit"},
           snap' = [Superseded(snap) EXCEPT ![n] = [status |-> status, kind |-> kind]]
    PROVE  Written(n)'
  <1> DEFINE row == [status |-> status, kind |-> kind]
  <1>1. row.status # "absent" /\ row.kind # "user-saved"
    BY TaskControlAssumption
  <1>2. snap' = [Superseded(snap) EXCEPT ![n] = row]
    OBVIOUS
  <1> HIDE DEF row
  <1>. QED
    BY <1>1, <1>2, FreshWritten

\* A request that has only read carries a reference of the task or none.
LEMMA DecidesSaved ==
    ASSUME TypeOK, SavedInv, NEW c \in Clients, NEW d, Decides(c, d),
           Written(d.snap), Written(d.change.snap)
    PROVE  SavedInv' /\ KeepsSaved
  <1>1. \A e \in Clients : Written(client'[e].snap) /\ Written(client'[e].change.snap)
    BY DEF Decides, SavedInv, TypeOK
  <1>. QED
    BY <1>1 DEF Decides, SavedInv, Written, KeepsSaved, Keeps

LEMMA CommitsSaved ==
    ASSUME TypeOK, SavedInv, NEW c \in Clients, NEW op, NEW change,
           Commits(c, op, change), Written(change.snap), KeepsSaved,
           \A i \in Items : Written(item'[i].snap)
    PROVE  SavedInv'
  <1>1. Written(task'.snap)
    BY PutSnap DEF Commits, SavedInv
  <1>2. \A e \in Clients : Written(client'[e].snap) /\ Written(client'[e].change.snap)
    BY NoneWritten DEF Commits, SavedInv, TypeOK, Idle, NoRow
  <1>3. turn' = turn
    BY DEF Commits
  <1>. QED
    BY <1>1, <1>2, <1>3, WrittenStays DEF SavedInv, Written, KeepsSaved, Keeps

LEMMA RequestSaved ==
    ASSUME TypeOK, SavedInv, NEW c \in Clients, Request(c)
    PROVE  SavedInv' /\ KeepsSaved
  <1>1. \A op, change : /\ Will(op, change).snap = None
                        /\ Will(op, change).change = change
    BY DEF Will, Idle
  <1>2. \A status : Unpaused(status).snap = task.snap
    BY DEF Unpaused, TypeOK, TaskRows
  <1>3. CASE Start(c) \/ Retry(c)
    <2> DEFINE change == [Unpaused("queued") EXCEPT !.intent = None]
               d == Will("queue", change)
    <2>1. change.snap = task.snap
      BY <1>2 DEF Unpaused, TypeOK, TaskRows
    <2>2. Decides(c, d)
      BY <1>3 DEF Start, Retry
    <2> HIDE DEF change
    <2>3. d.snap = None /\ d.change = change
      BY <1>1
    <2> HIDE DEF d
    <2>. QED
      BY <2>1, <2>2, <2>3, DecidesSaved, NoneWritten DEF SavedInv
  <1>4. CASE Revise(c) \/ Approve(c)
    <2>1. PICK op, status : Decides(c, Will(op, [Unpaused(status) EXCEPT !.snap = None]))
      BY <1>4 DEF Revise, Approve
    <2> DEFINE change == [Unpaused(status) EXCEPT !.snap = None]
               d == Will(op, change)
    <2>2. change.snap = None
      BY DEF Unpaused, TypeOK, TaskRows
    <2> HIDE DEF change
    <2>3. d.snap = None /\ d.change = change
      BY <1>1
    <2>4. Decides(c, d)
      BY <2>1 DEF change
    <2> HIDE DEF d
    <2>. QED
      BY <2>2, <2>3, <2>4, DecidesSaved, NoneWritten
  <1>5. CASE Resume(c)
    <2>1. PICK a : Decides(c, [Will("resume", [Unpaused("paused") EXCEPT !.intent = "resume",
                                                                        !.att = a])
                                 EXCEPT !.snap = task.snap, !.att = a])
      BY <1>5 DEF Resume
    <2> DEFINE change == [Unpaused("paused") EXCEPT !.intent = "resume", !.att = a]
               d == [Will("resume", change) EXCEPT !.snap = task.snap, !.att = a]
    <2>2. change.snap = task.snap
      BY DEF Unpaused, TypeOK, TaskRows
    <2> HIDE DEF change
    <2>3. d.snap = task.snap /\ d.change = change
      BY DEF Will, Idle
    <2>4. Decides(c, d)
      BY <2>1 DEF change
    <2> HIDE DEF d
    <2>. QED
      BY <2>2, <2>3, <2>4, DecidesSaved DEF SavedInv
  <1>6. CASE Pause(c)
    <2>1. \A e \in Clients : Written(client'[e].snap) /\ Written(client'[e].change.snap)
      BY <1>1, <1>6, NoneWritten DEF Pause, SavedInv, TypeOK
    <2>2. \A i \in Items : item'[i].snap = item[i].snap
      BY <1>6 DEF Pause, Cancels, TypeOK, ItemRows
    <2>. QED
      BY <1>6, <2>1, <2>2 DEF Pause, SavedInv, Written, KeepsSaved, Keeps
  <1>7. CASE PreparePause(c)
    <2>1. CASE LockHeld /\ client' = [client EXCEPT ![c].op = "paused", ![c].snap = Lost]
               /\ UNCHANGED <<task, snap>>
      <3>1. \A e \in Clients : Written(client'[e].snap) /\ Written(client'[e].change.snap)
        BY <2>1, NoneWritten DEF SavedInv, TypeOK, Handlers
      <3>. QED
        BY <1>7, <2>1, <3>1 DEF PreparePause, SavedInv, Written, KeepsSaved, Keeps
    <2>2. ASSUME NEW n \in Snaps, NEW status \in Prepared, Fresh(snap, n),
                 snap' = [Superseded(snap) EXCEPT
                            ![n] = [status |-> status, kind |-> "active-paused"]],
                 task' = [task EXCEPT !.snap = n],
                 client' = [client EXCEPT ![c].op = "paused", ![c].snap = n]
          PROVE  SavedInv' /\ KeepsSaved
      <3>1. KeepsSaved
        BY <2>2, FreshKeeps
      <3>2. Written(n)'
        BY <2>2, PreparedWritten
      <3>3. task'.snap = n
        BY <2>2 DEF TypeOK, TaskRows
      <3>4. \A e \in Clients : /\ client'[e].snap \in {client[e].snap, n}
                               /\ client'[e].change = client[e].change
        BY <2>2 DEF TypeOK, Handlers
      <3>5. item' = item /\ turn' = turn
        BY <1>7 DEF PreparePause
      <3>. QED
        BY <3>1, <3>2, <3>3, <3>4, <3>5 DEF SavedInv, Written, KeepsSaved, Keeps
    <2>. QED
      BY <1>7, <2>1, <2>2 DEF PreparePause
  <1>8. CASE Reread(c)
    <2> DEFINE d == Will("write", [task EXCEPT !.pause = TRUE, !.intent = "pause"])
               e == Will("write", [Unpaused("paused") EXCEPT !.snap = client[c].snap,
                                                            !.intent = None])
    <2>1. [task EXCEPT !.pause = TRUE, !.intent = "pause"].snap = task.snap
      BY DEF TypeOK, TaskRows
    <2>2. [Unpaused("paused") EXCEPT !.snap = client[c].snap, !.intent = None].snap
            = client[c].snap
      BY DEF Unpaused, TypeOK, TaskRows
    <2>3. d.snap = None /\ d.change.snap = task.snap
      BY <2>1 DEF Will, Idle
    <2>4. e.snap = None /\ e.change.snap = client[c].snap
      BY <2>2 DEF Will, Idle
    <2>5. Decides(c, d) \/ Decides(c, e)
      BY <1>8 DEF Reread
    <2> HIDE DEF d, e
    <2>. QED
      BY <2>3, <2>4, <2>5, DecidesSaved, NoneWritten DEF SavedInv
  <1>9. CASE Cancel(c)
    <2> DEFINE change == [Unpaused("cancelled") EXCEPT !.snap = None, !.att = None,
                                                       !.intent = None]
               op == IF task.snap \in Snaps THEN "cancel" ELSE "audit"
    <2>1. PICK a : Decides(c, [Will(op, change)
                                 EXCEPT !.att = a,
                                        !.items = {i \in Items : item[i].status = "queued"}])
      BY <1>9 DEF Cancel
    <2>2. change.snap = None
      BY DEF Unpaused, TypeOK, TaskRows
    <2> HIDE DEF change, op
    <2> DEFINE d == [Will(op, change)
                       EXCEPT !.att = a, !.items = {i \in Items : item[i].status = "queued"}]
    <2>3. d.snap = None /\ d.change = change
      BY DEF Will, Idle
    <2>4. Decides(c, d)
      BY <2>1
    <2> HIDE DEF d
    <2>. QED
      BY <2>2, <2>3, <2>4, DecidesSaved, NoneWritten
  <1>10. CASE PrepareAudit(c)
    <2>1. CASE LockHeld /\ client' = [client EXCEPT ![c] = Idle] /\ UNCHANGED snap
      <3>1. \A e \in Clients : Written(client'[e].snap) /\ Written(client'[e].change.snap)
        BY <2>1, NoneWritten DEF SavedInv, TypeOK, Idle, NoRow
      <3>. QED
        BY <1>10, <2>1, <3>1 DEF PrepareAudit, SavedInv, Written, KeepsSaved, Keeps
    <2>2. ASSUME NEW n \in Snaps, NEW status \in Prepared, Fresh(snap, n),
                 snap' = [Superseded(snap) EXCEPT
                            ![n] = [status |-> status, kind |-> "cancel-audit"]],
                 client' = [client EXCEPT ![c].op = "cancel", ![c].snap = n]
          PROVE  SavedInv' /\ KeepsSaved
      <3>1. KeepsSaved
        BY <2>2, FreshKeeps
      <3>2. Written(n)'
        BY <2>2, PreparedWritten
      <3>3. \A e \in Clients : /\ client'[e].snap \in {client[e].snap, n}
                               /\ client'[e].change = client[e].change
        BY <2>2 DEF TypeOK, Handlers
      <3>4. item' = item /\ turn' = turn /\ task' = task
        BY <1>10 DEF PrepareAudit
      <3>. QED
        BY <3>1, <3>2, <3>3, <3>4 DEF SavedInv, Written, KeepsSaved, Keeps
    <2>. QED
      BY <1>10, <2>1, <2>2 DEF PrepareAudit
  <1>11. CASE Save(c)
    <2>1. KeepsSaved
      BY <1>11, FreshKeeps DEF Save
    <2>. QED
      BY <1>11, <2>1 DEF Save, SavedInv, Written, KeepsSaved, Keeps
  <1>12. Written(client[c].change.snap) /\ Written(client[c].snap)
    BY DEF SavedInv
  <1>13. \A a, s : Queued(a, s).snap = s
    BY DEF Queued
  <1>14. snap' = snap => KeepsSaved
    BY DEF KeepsSaved, Keeps
  <1>15. CASE CommitWrite(c) \/ CommitResumeAgain(c)
    BY <1>12, <1>14, <1>15, CommitsSaved DEF CommitWrite, CommitResumeAgain, SavedInv
  <1>16. CASE CommitQueue(c)
    <2>1. \A i \in Items : Written(item'[i].snap)
      BY <1>13, <1>16, NoneWritten DEF CommitQueue, SavedInv, TypeOK
    <2>. QED
      BY <1>12, <1>14, <1>16, <2>1, CommitsSaved DEF CommitQueue
  <1>17. CASE CommitResume(c)
    <2>1. PICK a \in Attempts, i \in Items :
            /\ Commits(c, "resume", [client[c].change EXCEPT !.att = a])
            /\ item' = [item EXCEPT ![i] = Queued(a, client[c].snap)]
      BY <1>17 DEF CommitResume
    <2>2. [client[c].change EXCEPT !.att = a].snap = client[c].change.snap
      BY DEF TypeOK, Handlers, TaskRows
    <2>3. \A j \in Items : Written(item'[j].snap)
      BY <1>12, <1>13, <2>1 DEF SavedInv, TypeOK
    <2>4. snap' = snap
      BY <1>17 DEF CommitResume
    <2>. QED
      BY <1>12, <1>14, <2>1, <2>2, <2>3, <2>4, CommitsSaved
  <1>18. CASE CommitCancel(c)
    <2>1. KeepsSaved
      BY <1>12, <1>18, StatusKeeps, FreshKeeps DEF CommitCancel
    <2>2. \A i \in Items : item'[i].snap = item[i].snap
      BY <1>18 DEF CommitCancel, Cancels, TypeOK, ItemRows
    <2>. QED
      BY <1>12, <1>18, <2>1, <2>2, CommitsSaved DEF CommitCancel, SavedInv
  <1>. QED
    BY <1>3, <1>4, <1>5, <1>6, <1>7, <1>8, <1>9, <1>10, <1>11, <1>15, <1>16, <1>17,
       <1>18 DEF Request

\* The same of the snapshots as they will be.
KeepsRows(rows) ==
    \A s \in Snaps :
        snap[s].status # "absent" =>
            /\ rows[s].status # "absent" /\ rows[s].kind = snap[s].kind
            /\ snap[s].kind = "user-saved" => rows[s] = snap[s]

LEMMA SourceRowKeeps ==
    ASSUME TypeOK, SavedInv, turn.item \in Items, NEW rows \in [Snaps -> SnapRows],
           KeepsRows(rows), NEW status \in SnapStatuses \ {"absent"}, Resuming
    PROVE  KeepsRows([rows EXCEPT ![Source].status = status])
  <1>1. Source \in Snaps /\ Written(Source)
    BY SourceType DEF SavedInv, Source
  <1>. QED
    BY <1>1 DEF KeepsRows, Written, SnapRows

LEMMA SupersededKeeps ==
    ASSUME NEW rows \in [Snaps -> SnapRows], KeepsRows(rows)
    PROVE  KeepsRows(Superseded(rows))
  BY DEF KeepsRows, Superseded, SnapRows

\* The rows a turn may leave behind.
LEMMA TurnRowsKeep ==
    ASSUME TypeOK, SavedInv, turn.item \in Items
    PROVE  /\ KeepsRows(SnapsInTurn) /\ KeepsRows(Consumed(SnapsInTurn))
           /\ \A n \in Snaps, status \in Prepared \cup {"restorable"} :
                Fresh(snap, n) =>
                    LET rows == WithSnapshot(SnapsInTurn, n, status) IN
                    /\ KeepsRows(rows) /\ KeepsRows(Consumed(rows))
                    /\ rows[n].status # "absent" /\ rows[n].kind # "user-saved"
                    /\ Consumed(rows)[n].status # "absent"
                    /\ Consumed(rows)[n].kind # "user-saved"
  <1>1. snap \in [Snaps -> SnapRows] /\ KeepsRows(snap)
    BY DEF TypeOK, KeepsRows
  <1>2. KeepsRows(SnapsInTurn)
    BY <1>1, SourceRowKeeps DEF SnapsInTurn, SnapStatuses
  <1>3. SnapsInTurn \in [Snaps -> SnapRows]
    BY SnapsInTurnType
  <1>4. ASSUME NEW rows \in [Snaps -> SnapRows], KeepsRows(rows) PROVE KeepsRows(Consumed(rows))
    BY <1>4, SourceRowKeeps DEF Consumed, SnapStatuses
  <1>5. ASSUME NEW n \in Snaps, NEW status \in Prepared \cup {"restorable"}, Fresh(snap, n)
        PROVE  LET rows == WithSnapshot(SnapsInTurn, n, status) IN
                 /\ KeepsRows(rows) /\ KeepsRows(Consumed(rows))
                 /\ rows[n].status # "absent" /\ rows[n].kind # "user-saved"
                 /\ Consumed(rows)[n].status # "absent"
                 /\ Consumed(rows)[n].kind # "user-saved"
    <2> DEFINE rows == WithSnapshot(SnapsInTurn, n, status)
    <2>1. status \in SnapStatuses /\ status # "absent"
      BY TaskControlAssumption DEF SnapStatuses
    <2>2. rows \in [Snaps -> SnapRows]
      BY <1>3, <2>1, WithSnapshotType
    <2>3. Superseded(SnapsInTurn) \in [Snaps -> SnapRows]
      BY <1>3, SupersededType
    <2>4. KeepsRows(Superseded(SnapsInTurn))
      BY <1>2, <1>3, SupersededKeeps
    <2>5. snap[n].status = "absent"
      BY <1>5 DEF Fresh
    <2>6. /\ \A s \in Snaps : s # n => rows[s] = Superseded(SnapsInTurn)[s]
          /\ rows[n] = [status |-> status, kind |-> "active-paused"]
      BY <2>3 DEF WithSnapshot
    <2> HIDE DEF rows
    <2>7. KeepsRows(rows)
      BY <2>4, <2>5, <2>6 DEF KeepsRows
    <2>8. rows[n].status # "absent" /\ rows[n].kind # "user-saved"
      BY <2>1, <2>6
    <2>9. Consumed(rows)[n].status # "absent" /\ Consumed(rows)[n].kind # "user-saved"
      BY <2>2, <2>8, SourceType DEF Consumed, SnapRows
    <2>10. KeepsRows(Consumed(rows))
      BY <1>4, <2>2, <2>7
    <2>. QED
      BY <2>7, <2>8, <2>9, <2>10 DEF rows
  <1>. QED
    BY <1>2, <1>3, <1>4, <1>5

\* A step of the turn that keeps what was saved and writes a reference that
\* may be written.
LEMMA TurnSaved ==
    ASSUME TypeOK, SavedInv, KeepsRows(snap'), Written(task.snap)',
           \A i \in Items : item'[i].snap \in {item[i].snap, None},
           client' = client, Written(turn.base.snap)', Written(turn.row.snap)'
    PROVE  SavedInv' /\ KeepsSaved
  <1>1. KeepsSaved
    BY DEF KeepsRows, KeepsSaved, Keeps
  <1>2. ASSUME NEW s, Written(s) \/ s = None PROVE Written(s)'
    BY <1>1, <1>2, WrittenStays, NoneWritten
  <1>3. ASSUME NEW i \in Items PROVE Written(item[i].snap)'
    BY <1>1, NoneWritten DEF SavedInv, Written, KeepsSaved, Keeps
  <1>4. ASSUME NEW c \in Clients
        PROVE  Written(client[c].snap)' /\ Written(client[c].change.snap)'
    BY <1>1 DEF SavedInv, Written, KeepsSaved, Keeps
  <1>. QED
    BY <1>1, <1>3, <1>4 DEF SavedInv

\* It is enough that the references are old ones.
LEMMA TurnSavedOld ==
    ASSUME TypeOK, SavedInv, KeepsRows(snap'),
           \A i \in Items : item'[i].snap \in {item[i].snap, None},
           client' = client,
           task'.snap \in {task.snap, turn.base.snap, turn.row.snap, None},
           turn'.base.snap \in {task.snap, turn.base.snap, None},
           turn'.row.snap \in {task.snap, turn.base.snap, turn.row.snap, None}
    PROVE  SavedInv' /\ KeepsSaved
  <1>1. KeepsSaved
    BY DEF KeepsRows, KeepsSaved, Keeps
  <1>2. /\ Written(task.snap) /\ Written(turn.base.snap) /\ Written(turn.row.snap)
        /\ Written(None)
    BY NoneWritten DEF SavedInv
  <1>3. /\ Written(task.snap)' /\ Written(turn.base.snap)' /\ Written(turn.row.snap)'
    BY <1>1, <1>2 DEF Written, KeepsSaved, Keeps
  <1>. QED
    BY <1>3, TurnSaved

LEMMA TurnStepSaved ==
    ASSUME TypeOK, SavedInv, Turn
    PROVE  SavedInv' /\ KeepsSaved
  <1>1. /\ NoTurn.base.snap = None /\ NoTurn.row.snap = None
        /\ \A again : Reporting(again).base.snap = None /\ Reporting(again).row.snap = None
    BY DEF NoTurn, NoRow, Reporting
  <1>2. KeepsRows(snap)
    BY DEF KeepsRows
  <1>3. \A i \in Items :
          item' = [item EXCEPT ![i] = Queued(None, None)]
            => \A j \in Items : item'[j].snap \in {item[j].snap, None}
    BY DEF Queued, TypeOK
  <1>4. \A i \in Items : \A status :
          item' = [item EXCEPT ![i].status = status]
            => \A j \in Items : item'[j].snap = item[j].snap
    BY DEF TypeOK, ItemRows
  <1>5. CASE Claim
    <2>1. PICK i \in Items : /\ item' = [item EXCEPT ![i].status = "leased"]
                             /\ turn' = [NoTurn EXCEPT !.phase = "claimed", !.item = i]
      BY <1>5 DEF Claim
    <2>2. turn'.base.snap = None /\ turn'.row.snap = None
      BY <1>1, <2>1 DEF NoTurn
    <2>. QED
      BY <1>2, <1>4, <1>5, <2>1, <2>2, TurnSavedOld DEF Claim
  <1>6. CASE Load
    <2>1. turn'.base = task /\ turn'.row = turn.row
      BY <1>6 DEF Load, TypeOK, Turns
    <2>. QED
      BY <1>2, <1>6, <2>1, TurnSavedOld DEF Load
  <1>7. CASE Block
    <2>1. turn.item \in Items
      BY <1>7 DEF Block, TypeOK
    <2>2. KeepsRows(snap')
      BY <1>2, <1>7, <2>1, SourceRowKeeps DEF Block, TypeOK, SnapStatuses
    <2> DEFINE change == [turn.base EXCEPT !.status = "resume-blocked",
                                           !.pause = FALSE, !.intent = None]
    <2>3. change.snap = turn.base.snap
      BY DEF TypeOK, Turns, TaskRows
    <2>4. task' = Put(task, turn.base, change)
      BY <1>7 DEF Block
    <2> HIDE DEF change
    <2>5. task'.snap \in {task.snap, turn.base.snap}
      BY <2>3, <2>4, PutSnap
    <2>. QED
      BY <1>1, <1>7, <2>2, <2>5, TurnSavedOld DEF Block
  <1>8. CASE Execute
    <2> DEFINE running == [turn.base EXCEPT !.status = "running",
                                            !.intent = IF Resuming THEN "resume" ELSE @]
    <2>1. running.snap = turn.base.snap
      BY DEF TypeOK, Turns, TaskRows
    <2>2. turn'.base = running /\ turn'.row = Put(task, turn.base, running)
      BY <1>8 DEF Execute, TypeOK, Turns
    <2> HIDE DEF running
    <2>3. turn'.row.snap \in {task.snap, turn.base.snap}
      BY <2>1, <2>2, PutSnap
    <2>. QED
      BY <1>2, <1>8, <2>1, <2>2, <2>3, TurnSavedOld DEF Execute
  <1>9. CASE DeliverPaused
    <2>1. PICK n \in Snaps, status \in Prepared :
            /\ Fresh(snap, n)
            /\ snap' = Consumed(WithSnapshot(SnapsInTurn, n, status))
            /\ task' = Released([turn.row EXCEPT !.status = "paused", !.pause = FALSE,
                                                 !.snap = n])
      BY <1>9 DEF DeliverPaused
    <2>2. turn.item \in Items
      BY <1>9 DEF DeliverPaused, TypeOK
    <2>3. KeepsRows(snap') /\ snap'[n].status # "absent" /\ snap'[n].kind # "user-saved"
      BY <2>1, <2>2, TurnRowsKeep
    <2>4. task'.snap \in {n, None}
      BY <2>1 DEF Released, TypeOK, Turns, TaskRows
    <2>5. Written(task.snap)'
      BY <2>3, <2>4, TaskControlAssumption DEF Written
    <2>6. Written(turn.base.snap)' /\ Written(turn.row.snap)'
      BY <1>1, <1>9, TaskControlAssumption DEF DeliverPaused, Written
    <2>. QED
      BY <1>9, <2>3, <2>5, <2>6, TurnSaved DEF DeliverPaused
  <1>10. \A status : Delivered(status).snap = None
    BY DEF Delivered, Released, TypeOK, Turns, TaskRows
  <1>11. CASE Deliver \/ DeliverAndContinue
    <2>1. turn.item \in Items
      BY <1>11 DEF Deliver, DeliverAndContinue, TypeOK
    <2>2. KeepsRows(snap')
      BY <1>11, <2>1, TurnRowsKeep DEF Deliver, DeliverAndContinue
    <2>. QED
      BY <1>1, <1>3, <1>10, <1>11, <2>2, TurnSavedOld, ZenonT(60) DEF Deliver, DeliverAndContinue
  <1>12. ASSUME NEW change, StopsEarly(change), change.snap = turn.base.snap,
                KeepsRows(snap'), \A j \in Items : item'[j].snap \in {item[j].snap, None}
         PROVE  SavedInv' /\ KeepsSaved
    <2>1. task'.snap \in {turn.row.snap, turn.base.snap}
      BY <1>12, PutSnap DEF StopsEarly
    <2>. QED
      BY <1>1, <1>12, <2>1, TurnSavedOld DEF StopsEarly
  <1>13. ASSUME NEW n \in Snaps, NEW status \in Prepared \cup {"restorable"},
                NEW change \in TaskRows, StopsPaused(n, status, change)
         PROVE  SavedInv' /\ KeepsSaved
    <2> DEFINE after == [change EXCEPT !.status = "paused", !.snap = n]
    <2>1. turn.item \in Items /\ after.snap = n
      BY <1>13 DEF StopsPaused, StopsEarly, TypeOK, TaskRows
    <2>2. KeepsRows(snap') /\ snap'[n].status # "absent" /\ snap'[n].kind # "user-saved"
      BY <1>13, <2>1, TurnRowsKeep DEF StopsPaused
    <2>3. StopsEarly(after)
      BY <1>13 DEF StopsPaused
    <2> HIDE DEF after
    <2>4. task'.snap \in {turn.row.snap, n}
      BY <2>1, <2>3, PutSnap DEF StopsEarly
    <2>5. Written(task.snap)'
      BY <2>2, <2>4 DEF Written, SavedInv, KeepsRows
    <2>6. Written(turn.base.snap)' /\ Written(turn.row.snap)'
      BY <1>1, <2>3, TaskControlAssumption DEF StopsEarly, Written
    <2>. QED
      BY <1>13, <2>2, <2>3, <2>5, <2>6, TurnSaved DEF StopsPaused, StopsEarly
  <1>14. turn.base \in TaskRows /\ [turn.base EXCEPT !.pause = FALSE] \in TaskRows
    BY DEF TypeOK, Turns, TaskRows
  <1>15. turn.phase = "executing" => KeepsRows(SnapsInTurn)
    BY TurnRowsKeep DEF TypeOK
  <1>16. CASE StopForBudget
    BY <1>13, <1>14, <1>16 DEF StopForBudget
  <1>17. CASE StopForShutdown
    BY <1>12, <1>13, <1>14, <1>15, <1>17 DEF StopForShutdown, StopsEarly
  <1>18. \A status : [turn.base EXCEPT !.status = status].snap = turn.base.snap
    BY <1>14 DEF TaskRows
  <1>19. CASE Fail
    BY <1>12, <1>15, <1>18, <1>19 DEF Fail, StopsEarly
  <1>20. CASE FailAndContinue
    BY <1>3, <1>12, <1>15, <1>18, <1>20 DEF FailAndContinue, StopsEarly
  <1>21. CASE Abort
    <2>1. turn'.base.snap = None /\ turn'.row.snap = None
      BY <1>1, <1>21 DEF Abort, NoTurn
    <2>. QED
      BY <1>2, <1>21, <2>1, TurnSavedOld DEF Abort
  <1>22. CASE Raise
    <2>1. turn.item \in Items /\ snap \in [Snaps -> SnapRows]
      BY <1>22 DEF Raise, TypeOK
    <2>2. KeepsRows(snap')
      <3>1. snap' = [snap EXCEPT ![Source].status = "restorable"] /\ Resuming
        BY <1>22 DEF Raise
      <3>2. "restorable" \in SnapStatuses \ {"absent"}
        BY DEF SnapStatuses
      <3>. QED
        BY <1>2, <2>1, <3>1, <3>2, SourceRowKeeps
    <2>3. task'.snap = task.snap
      <3>1. \A status : [Unpaused(status) EXCEPT !.intent = "resume"].snap = task.snap
        BY DEF Unpaused, TypeOK, TaskRows
      <3>. QED
        BY <1>22, <3>1 DEF Raise
    <2>4. turn'.base.snap = None /\ turn'.row.snap = None /\ client' = client
      BY <1>1, <1>22 DEF Raise
    <2>5. item' = item
      BY <1>22 DEF Raise
    <2>. QED
      BY <2>2, <2>3, <2>4, <2>5, TurnSavedOld
  <1>23. CASE RaiseUnread
    <2>1. /\ snap' = snap /\ item' = item /\ client' = client
          /\ turn'.base.snap = None /\ turn'.row.snap = None
      BY <1>1, <1>23 DEF RaiseUnread
    <2>2. task'.snap = task.snap
      BY <1>23 DEF RaiseUnread, TypeOK, TaskRows
    <2>. QED
      BY <1>2, <2>1, <2>2, TurnSavedOld
  <1>26. CASE Report
    BY <1>1, <1>2, <1>4, <1>26, TurnSavedOld DEF Report, TypeOK, ItemRows
  <1>24. CASE Crash
    <2>1. turn'.base.snap = None /\ turn'.row.snap = None
      BY <1>1, <1>24 DEF Crash, NoTurn
    <2>. QED
      BY <1>2, <1>24, <2>1, TurnSavedOld DEF Crash
  <1>25. CASE Recover
    BY <1>1, <1>2, <1>4, <1>25, TurnSavedOld DEF Recover, TypeOK
  <1>. QED
    BY <1>5, <1>6, <1>7, <1>8, <1>9, <1>11, <1>16, <1>17, <1>19, <1>20, <1>21, <1>22,
       <1>23, <1>24, <1>25, <1>26 DEF Turn

LEMMA SavedStep == TypeOK /\ SavedInv /\ [Next]_vars => SavedInv' /\ KeepsSaved
  <1> SUFFICES ASSUME TypeOK, SavedInv, [Next]_vars PROVE SavedInv' /\ KeepsSaved
    OBVIOUS
  <1>1. ASSUME NEW c \in Clients, HandlerDies(c) PROVE SavedInv' /\ KeepsSaved
    <2>1. \A e \in Clients : Written(client'[e].snap) /\ Written(client'[e].change.snap)
      BY <1>1, NoneWritten DEF HandlerDies, SavedInv, TypeOK, Idle, NoRow
    <2>. QED
      BY <1>1, <2>1 DEF HandlerDies, SavedInv, Written, KeepsSaved, Keeps
  <1>2. CASE UNCHANGED vars
    BY <1>2 DEF vars, SavedInv, Written, KeepsSaved, Keeps
  <1>. QED
    BY <1>1, <1>2, RequestSaved, TurnStepSaved DEF Next

LEMMA SavedInit == Init => SavedInv
  BY NoneWritten DEF Init, SavedInv, Written, NoTurn, NoRow, Idle

\* Whatever the task goes through, a snapshot a user saved stays as it was
\* saved.
THEOREM SavedSnapshotsKept == Spec => SavedKept
  <1>1. KeepsSaved =>
          [\A s \in Snaps : snap[s].status # "absent" /\ snap[s].kind = "user-saved"
                               => snap'[s] = snap[s]]_vars
    BY DEF KeepsSaved, Keeps
  <1>. QED
    BY <1>1, SavedInit, SavedStep, TypeCorrect, PTL DEF Spec, SavedKept

-----------------------------------------------------------------------------
(***************************************************************************)
(* What was used up stays used up, but for the exception handler.          *)
(***************************************************************************)
Shut == {"consumed", "blocked", "superseded", "archived"}
InWork == turn.phase = "executing"

\* The item of a turn exists, and what it executes from is fit to the end.
TurnIsFit ==
    /\ turn.phase # "idle" => item[turn.item].status # "absent"
    /\ InWork /\ Resuming => Fit(Source)

\* A cancel archives nothing but what was made for it.
AuditsOwn ==
    \A c \in Clients : client[c].op = "cancel" /\ client[c].snap \in Snaps =>
        snap[client[c].snap].status # "absent" /\ snap[client[c].snap].kind = "cancel-audit"

\* As long as it is not used up, a snapshot was made fit again after every end.
Spare(s) == ended[s] <= revived[s] + (IF snap[s].status \in Shut THEN 1 ELSE 0)
EndsCounted == \A s \in Snaps : Spare(s)

UseInv == TurnIsFit /\ AuditsOwn /\ EndsCounted

\* A snapshot that is out of use stays so.
Settled(s) == snap[s].status \in Shut => snap'[s].status \in Shut
Settles == \A s \in Snaps : Settled(s)

\* Items that exist go on existing, about the same.
ItemsKept ==
    \A i \in Items : item[i].status # "absent" =>
        item'[i].status # "absent" /\ item'[i].snap = item[i].snap

\* Where a step counts no end, a snapshot that settles is spared.
LEMMA SettledSpare ==
    ASSUME TypeOK, UseInv, Settles, UNCHANGED history
    PROVE  EndsCounted'
  <1>1. \A s \in Snaps : snap[s].status \in Shut => snap'[s].status \in Shut
    BY DEF Settles, Settled
  <1>2. /\ ended' = ended /\ revived' = revived
        /\ \A s \in Snaps : ended[s] \in Nat /\ revived[s] \in Nat
    BY DEF history, TypeOK, HistoryType
  <1>. QED
    BY <1>1, <1>2 DEF UseInv, EndsCounted, Spare

\* Rows of which those out of use are as they were.
KeepsShut(rows) == \A s \in Snaps : snap[s].status \in Shut => rows[s] = snap[s]

LEMMA ShutSettles == ASSUME KeepsShut(snap') PROVE Settles
  BY DEF KeepsShut, Settles, Settled

LEMMA FreshKeepsShut ==
    ASSUME TypeOK, NEW n \in Snaps, Fresh(snap, n), NEW row,
           snap' = [snap EXCEPT ![n] = row] \/ snap' = [Superseded(snap) EXCEPT ![n] = row]
    PROVE  KeepsShut(snap')
  <1>1. \A s \in Snaps : snap[s].status \in Shut => s # n
    BY DEF Fresh, Shut
  <1>2. \A s \in Snaps : s # n => snap'[s] \in {snap[s], Superseded(snap)[s]}
    BY DEF TypeOK, Superseded
  <1>3. \A s \in Snaps : snap[s].status \in Shut => Superseded(snap)[s] = snap[s]
    BY DEF Superseded, Shut
  <1>. QED
    BY <1>1, <1>2, <1>3 DEF KeepsShut

\* What a request does to the snapshots.  While a turn is at work it leaves
\* alone whatever a turn may resume from.
LEMMA RequestSnaps ==
    ASSUME TypeOK, UseInv, NEW c \in Clients, Request(c)
    PROVE  /\ Settles
           /\ InWork => \A s \in Snaps : Fit(s) => snap'[s] = snap[s]
  <1>1. CASE snap' = snap
    BY <1>1 DEF Settles, Settled
  <1>2. ASSUME NEW n \in Snaps, Fresh(snap, n), NEW row, snap' = [snap EXCEPT ![n] = row]
        PROVE  Settles /\ \A s \in Snaps : Fit(s) => snap'[s] = snap[s]
    <2>1. Settles
      BY <1>2, FreshKeepsShut, ShutSettles
    <2>. QED
      BY <1>2, <2>1 DEF Fit, Fresh, TypeOK
  <1>3. ASSUME NEW n \in Snaps, Fresh(snap, n), NEW row, LockFree,
               snap' = [Superseded(snap) EXCEPT ![n] = row]
        PROVE  Settles /\ ~InWork
    <2>1. Settles
      BY <1>3, FreshKeepsShut, ShutSettles
    <2>. QED
      BY <1>3, <2>1 DEF LockFree, InWork
  <1>4. CASE PreparePause(c) \/ PrepareAudit(c)
    BY <1>1, <1>3, <1>4 DEF PreparePause, PrepareAudit
  <1>5. CASE Save(c)
    BY <1>2, <1>5 DEF Save
  <1>6. CASE CommitCancel(c)
    <2>1. CASE client[c].snap \in Snaps
      <3> DEFINE n == client[c].snap
      <3>1. snap' = [snap EXCEPT ![n].status = "archived"]
        BY <1>6, <2>1 DEF CommitCancel
      <3>2. snap[n].kind = "cancel-audit"
        BY <1>6, <2>1 DEF CommitCancel, Commits, UseInv, AuditsOwn
      <3>3. snap'[n].status = "archived" /\ \A s \in Snaps : s # n => snap'[s] = snap[s]
        BY <2>1, <3>1 DEF TypeOK, SnapRows
      <3>. QED
        BY <3>2, <3>3 DEF Settles, Settled, Fit, Shut
    <2>2. CASE client[c].snap \notin Snaps
      BY <1>2, <1>6, <2>2 DEF CommitCancel
    <2>. QED
      BY <2>1, <2>2
  <1>. QED
    BY <1>1, <1>4, <1>5, <1>6 DEF Request, Start, Retry, Revise, Approve, Resume, Pause, Reread,
       Cancel, Decides, CommitWrite, CommitQueue, CommitResume, CommitResumeAgain

LEMMA CancelsKeep ==
    ASSUME TypeOK, NEW which
    PROVE  \A i \in Items :
              /\ Cancels(which)[i].snap = item[i].snap
              /\ Cancels(which)[i].status = "absent" <=> item[i].status = "absent"
  BY DEF Cancels, TypeOK, ItemRows

LEMMA NewItemKeeps ==
    ASSUME TypeOK, NEW i \in Items, Fresh(item, i), NEW new,
           item' = [item EXCEPT ![i] = new]
    PROVE  ItemsKept
  <1>1. \A j \in Items : j # i => item'[j] = item[j]
    BY DEF TypeOK
  <1>. QED
    BY <1>1 DEF ItemsKept, Fresh

\* What a request does to the items.
LEMMA RequestItems ==
    ASSUME TypeOK, NEW c \in Clients, Request(c)
    PROVE  ItemsKept
  <1>1. item' = item => ItemsKept
    BY DEF ItemsKept
  <1>2. ASSUME NEW which, item' = Cancels(which) PROVE ItemsKept
    BY <1>2, CancelsKeep DEF ItemsKept
  <1>3. CASE Pause(c) \/ CommitCancel(c)
    BY <1>1, <1>2, <1>3 DEF Pause, CommitCancel
  <1>4. CASE CommitQueue(c) \/ CommitResume(c)
    <2>1. PICK i, new : /\ i \in Items /\ Fresh(item, i)
                        /\ item' = [item EXCEPT ![i] = new]
      BY <1>4 DEF CommitQueue, CommitResume
    <2>. QED
      BY <2>1, NewItemKeeps
  <1>5. CASE \/ Start(c) \/ Retry(c) \/ Revise(c) \/ Approve(c) \/ Resume(c) \/ PreparePause(c)
             \/ Reread(c) \/ Cancel(c) \/ PrepareAudit(c) \/ Save(c) \/ CommitWrite(c)
             \/ CommitResumeAgain(c)
    BY <1>1, <1>5 DEF Start, Retry, Revise, Approve, Resume, PreparePause, Reread, Cancel,
       Decides, PrepareAudit, Save, CommitWrite, CommitResumeAgain
  <1>. QED
    BY <1>3, <1>4, <1>5 DEF Request

\* What a handler will archive it had made for that.
LEMMA RequestAudits ==
    ASSUME TypeOK, TypeOK', UseInv, KeepsSaved, NEW c \in Clients, Request(c)
    PROVE  AuditsOwn'
  <1>1. ASSUME NEW d \in Clients, client'[d].op = "cancel", client'[d].snap \in Snaps,
               client[d].op = "cancel" /\ client[d].snap = client'[d].snap
        PROVE  snap'[client'[d].snap].status # "absent"
               /\ snap'[client'[d].snap].kind = "cancel-audit"
    BY <1>1 DEF UseInv, AuditsOwn, KeepsSaved, Keeps
  <1>2. ASSUME \A d \in Clients : d # c => client'[d] = client[d],
               \/ client'[c].op # "cancel"
               \/ client'[c].snap = None
               \/ client'[c].op = client[c].op /\ client'[c].snap = client[c].snap
        PROVE  AuditsOwn'
    <2>1. None \notin Snaps
      BY TaskControlAssumption
    <2>. QED
      BY <1>1, <1>2, <2>1 DEF AuditsOwn
  <1>3. CASE PrepareAudit(c)
    <2>1. CASE client' = [client EXCEPT ![c] = Idle]
      BY <1>2, <2>1, IdleType DEF TypeOK, Idle
    <2>2. ASSUME NEW n \in Snaps, NEW status \in Prepared,
                 snap' = [Superseded(snap) EXCEPT
                            ![n] = [status |-> status, kind |-> "cancel-audit"]],
                 client' = [client EXCEPT ![c].op = "cancel", ![c].snap = n]
          PROVE  AuditsOwn'
      <3>1. snap'[n].kind = "cancel-audit" /\ snap'[n].status # "absent"
        BY <2>2, TaskControlAssumption DEF Superseded
      <3>2. client'[c].snap = n /\ \A d \in Clients : d # c => client'[d] = client[d]
        BY <2>2 DEF TypeOK, Handlers
      <3>. QED
        BY <1>1, <3>1, <3>2 DEF AuditsOwn
    <2>. QED
      BY <1>3, <2>1, <2>2 DEF PrepareAudit
  <1>4. CASE Start(c) \/ Retry(c) \/ Revise(c) \/ Approve(c) \/ Reread(c)
    <2>1. PICK op, change : Decides(c, Will(op, change)) /\ op # "cancel"
      BY <1>4 DEF Start, Retry, Revise, Approve, Reread
    <2>2. Will(op, change).op = op
      BY DEF Will, Idle
    <2>. QED
      BY <1>2, <2>1, <2>2 DEF Decides, TypeOK
  <1>5. CASE Resume(c)
    <2>1. client'[c].op = "resume" /\ \A d \in Clients : d # c => client'[d] = client[d]
      BY <1>5 DEF Resume, Decides, Will, Idle, TypeOK
    <2>. QED
      BY <1>2, <2>1
  <1>6. CASE Cancel(c)
    <2>1. client'[c].snap = None /\ \A d \in Clients : d # c => client'[d] = client[d]
      BY <1>6 DEF Cancel, Decides, Will, Idle, TypeOK
    <2>. QED
      BY <1>2, <2>1
  <1>7. CASE Pause(c)
    <2>1. PICK op \in {"prepare", "flag"} : client' = [client EXCEPT ![c] = Will(op, task)]
      BY <1>7 DEF Pause
    <2>2. Will(op, task).op = op
      BY DEF Will, Idle
    <2>. QED
      BY <1>2, <2>1, <2>2 DEF TypeOK
  <1>8. CASE PreparePause(c)
    <2>1. PICK s : client' = [client EXCEPT ![c].op = "paused", ![c].snap = s]
      BY <1>8 DEF PreparePause
    <2>2. client'[c].op = "paused" /\ \A d \in Clients : d # c => client'[d] = client[d]
      BY <2>1 DEF TypeOK, Handlers
    <2>. QED
      BY <1>2, <2>2
  <1>9. CASE Save(c)
    BY <1>2, <1>9 DEF Save
  <1>10. CASE CommitWrite(c) \/ CommitQueue(c) \/ CommitResume(c) \/ CommitResumeAgain(c)
              \/ CommitCancel(c)
    <2>1. client' = [client EXCEPT ![c] = Idle]
      BY <1>10 DEF CommitWrite, CommitQueue, CommitResume, CommitResumeAgain, CommitCancel, Commits
    <2>. QED
      BY <1>2, <2>1 DEF TypeOK, Idle
  <1>. QED
    BY <1>3, <1>4, <1>5, <1>6, <1>7, <1>8, <1>9, <1>10 DEF Request

\* The same of a step of a handler, with what it leaves of the turn.
LEMMA RequestUse ==
    ASSUME TypeOK, TypeOK', UseInv, KeepsSaved, NEW c \in Clients, Request(c)
    PROVE  UseInv' /\ Settles
  <1>1. /\ Settles
        /\ InWork => \A s \in Snaps : Fit(s) => snap'[s] = snap[s]
    BY RequestSnaps
  <1>2. ItemsKept
    BY RequestItems
  <1>3. turn' = turn /\ UNCHANGED history
    BY DEF Request, Start, Retry, Revise, Approve, Resume, Pause, PreparePause, Reread, Cancel,
       PrepareAudit, Save, Decides, CommitWrite, CommitQueue, CommitResume, CommitResumeAgain,
       CommitCancel, Commits
  <1>4. TurnIsFit'
    <2>1. ASSUME turn.phase # "idle"
          PROVE  item'[turn.item].status # "absent" /\ item'[turn.item].snap = item[turn.item].snap
      BY <1>2, <2>1 DEF ItemsKept, UseInv, TurnIsFit, TypeOK
    <2>2. ASSUME InWork, Source # None PROVE Fit(Source)'
      <3>1. turn.phase # "idle" /\ turn.item \in Items
        BY <2>2 DEF InWork, TypeOK
      <3>2. Source' = Source
        BY <1>3, <2>1, <3>1 DEF Source
      <3>3. Source \in Snaps /\ Fit(Source)
        BY <2>2, <3>1 DEF Source, TypeOK, ItemRows, UseInv, TurnIsFit, Resuming
      <3>4. snap'[Source] = snap[Source]
        BY <1>1, <2>2, <3>3
      <3>. QED
        BY <3>2, <3>3, <3>4 DEF Fit
    <2>3. turn.phase # "idle" => Source' = Source
      BY <1>3, <2>1 DEF Source
    <2>4. InWork' <=> InWork
      BY <1>3 DEF InWork
    <2>5. InWork => turn.phase # "idle"
      BY DEF InWork
    <2>. QED
      BY <1>3, <2>1, <2>2, <2>3, <2>4, <2>5 DEF TurnIsFit, Resuming
  <1>5. AuditsOwn'
    BY RequestAudits
  <1>6. EndsCounted'
    BY <1>1, <1>3, SettledSpare
  <1>. QED
    BY <1>1, <1>4, <1>5, <1>6 DEF UseInv

-----------------------------------------------------------------------------
\* The snapshots as a turn that ends may leave them.
LEMMA TurnRowsShut ==
    ASSUME TypeOK, UseInv, turn.phase = "executing"
    PROVE  /\ KeepsShut(SnapsInTurn) /\ KeepsShut(Consumed(SnapsInTurn))
           /\ Resuming => Source \in Snaps /\ Fit(Source) /\ Consumed(SnapsInTurn)[Source].status = "consumed"
           /\ \A n \in Snaps, status \in SnapStatuses :
                Fresh(snap, n) =>
                    LET rows == WithSnapshot(SnapsInTurn, n, status) IN
                    /\ KeepsShut(rows) /\ KeepsShut(Consumed(rows))
                    /\ Resuming => Consumed(rows)[Source].status = "consumed"
  <1>1. snap \in [Snaps -> SnapRows] /\ turn.item \in Items
    BY DEF TypeOK
  <1>2. Resuming => Source \in Snaps /\ Fit(Source)
    BY <1>1 DEF Resuming, Source, TypeOK, ItemRows, UseInv, TurnIsFit, InWork
  <1>3. ASSUME NEW rows \in [Snaps -> SnapRows], KeepsShut(rows)
        PROVE  /\ KeepsShut(Consumed(rows))
               /\ Resuming => Consumed(rows)[Source].status = "consumed"
    <2>1. CASE ~Resuming
      BY <1>3, <2>1 DEF Consumed
    <2>2. CASE Resuming
      <3>1. Consumed(rows) = [rows EXCEPT ![Source].status = "consumed"]
        BY <2>2 DEF Consumed
      <3>2. Source \in Snaps /\ snap[Source].status \notin Shut
        BY <1>2, <2>2 DEF Fit, Shut
      <3>3. Consumed(rows)[Source].status = "consumed"
        BY <3>1, <3>2 DEF SnapRows
      <3>4. \A s \in Snaps : s # Source => Consumed(rows)[s] = rows[s]
        BY <3>1
      <3>. QED
        BY <1>3, <3>2, <3>3, <3>4 DEF KeepsShut
    <2>. QED
      BY <2>1, <2>2
  <1>4. SnapsInTurn \in [Snaps -> SnapRows] /\ KeepsShut(SnapsInTurn)
    <2>1. CASE ~Resuming
      BY <1>1, <2>1 DEF SnapsInTurn, KeepsShut
    <2>2. CASE Resuming
      <3>1. SnapsInTurn = [snap EXCEPT ![Source].status = "leased"]
        BY <2>2 DEF SnapsInTurn
      <3>2. Source \in Snaps /\ snap[Source].status \notin Shut
        BY <1>2, <2>2 DEF Fit, Shut
      <3>. QED
        BY <1>1, <3>1, <3>2 DEF KeepsShut, SnapRows, SnapStatuses
    <2>. QED
      BY <2>1, <2>2
  <1>5. ASSUME NEW n \in Snaps, NEW status \in SnapStatuses, Fresh(snap, n)
        PROVE  LET rows == WithSnapshot(SnapsInTurn, n, status) IN
                 rows \in [Snaps -> SnapRows] /\ KeepsShut(rows)
    <2> DEFINE rows == WithSnapshot(SnapsInTurn, n, status)
    <2>1. rows \in [Snaps -> SnapRows]
      BY <1>4, WithSnapshotType
    <2>2. \A s \in Snaps : s # n => rows[s] = Superseded(SnapsInTurn)[s]
      BY <1>4, SupersededType DEF WithSnapshot
    <2>3. \A s \in Snaps : snap[s].status \in Shut => s # n
      BY <1>5 DEF Fresh, Shut
    <2>4. \A s \in Snaps : snap[s].status \in Shut => Superseded(SnapsInTurn)[s] = snap[s]
      BY <1>4 DEF KeepsShut, Superseded, Shut
    <2> HIDE DEF rows
    <2>5. KeepsShut(rows)
      BY <2>2, <2>3, <2>4 DEF KeepsShut
    <2>. QED
      BY <2>1, <2>5 DEF rows
  <1>. QED
    BY <1>2, <1>3, <1>4, <1>5

\* A step of the turn after which it is not at work.
LEMMA TurnUse ==
    ASSUME TypeOK, TypeOK', UseInv, KeepsSaved, ItemsKept, EndsCounted', client' = client,
           \/ turn'.phase = "idle"
           \/ turn.phase # "idle" /\ turn'.item = turn.item /\ turn'.phase # "executing"
    PROVE  UseInv'
  <1>1. AuditsOwn'
    BY DEF UseInv, AuditsOwn, KeepsSaved, Keeps
  <1>2. turn.phase # "idle" => item'[turn.item].status # "absent"
    BY DEF ItemsKept, UseInv, TurnIsFit, TypeOK
  <1>3. TurnIsFit'
    BY <1>2 DEF TurnIsFit, InWork
  <1>. QED
    BY <1>1, <1>3 DEF UseInv

\* An end of the turn that completes nothing.
LEMMA StopUse ==
    ASSUME TypeOK, TypeOK', UseInv, KeepsSaved, KeepsShut(snap'), ItemsKept,
           NEW change, StopsEarly(change)
    PROVE  UseInv' /\ Settles
  <1>1. Settles
    BY ShutSettles
  <1>2. /\ turn.phase = "executing" /\ client' = client /\ UNCHANGED history
        /\ turn'.item = turn.item /\ turn'.phase = "reporting"
    BY DEF StopsEarly, Reporting, NoTurn
  <1>3. EndsCounted'
    BY <1>1, <1>2, SettledSpare
  <1>. QED
    BY <1>1, <1>2, <1>3, TurnUse

\* An end that consumes the snapshot it was resumed from.
LEMMA EndUse ==
    ASSUME TypeOK, TypeOK', UseInv, KeepsSaved, turn.phase = "executing", KeepsShut(snap'),
           Resuming => snap'[Source].status = "consumed",
           ItemsKept, client' = client, turn' = Reporting(FALSE),
           ended' = EndedOnceMore, revived' = revived
    PROVE  UseInv' /\ Settles
  <1>1. Settles
    BY ShutSettles
  <1>2. turn'.item = turn.item /\ turn'.phase = "reporting"
    BY DEF Reporting, NoTurn
  <1>3. EndsCounted'
    <2>1. CASE ~Resuming
      <3>1. UNCHANGED history
        BY <2>1 DEF EndedOnceMore, history
      <3>. QED
        BY <1>1, <3>1, SettledSpare
    <2>2. CASE Resuming
      <3>1. Source \in Snaps /\ snap[Source].status \notin Shut
        BY <2>2, TurnRowsShut DEF Fit, Shut
      <3>2. /\ ended' = [ended EXCEPT ![Source] = @ + 1]
            /\ ended \in [Snaps -> Nat] /\ revived \in [Snaps -> Nat]
        BY <2>2 DEF EndedOnceMore, TypeOK, HistoryType
      <3>3. snap'[Source].status \in Shut
        BY <2>2 DEF Shut
      <3>4. ASSUME NEW s \in Snaps, s = Source PROVE Spare(s)'
        <4>1. ended[s] <= revived[s]
          BY <3>1, <3>2, <3>4 DEF UseInv, EndsCounted, Spare
        <4>. QED
          BY <3>2, <3>3, <3>4, <4>1 DEF Spare
      <3>5. ASSUME NEW s \in Snaps, s # Source PROVE Spare(s)'
        <4>1. ended'[s] = ended[s] /\ revived'[s] = revived[s]
          BY <3>2, <3>5
        <4>. QED
          BY <1>1, <3>2, <4>1 DEF UseInv, EndsCounted, Spare, Settles, Settled
      <3>. QED
        BY <3>4, <3>5 DEF EndsCounted
    <2>. QED
      BY <2>1, <2>2
  <1>. QED
    BY <1>1, <1>2, <1>3, TurnUse

\* The exception handler makes the snapshot of its turn restorable, and every
\* time that it was not fit is counted.
LEMMA RaiseUse ==
    ASSUME TypeOK, TypeOK', UseInv, KeepsSaved, Raise
    PROVE  /\ UseInv'
           /\ \A s \in Snaps : Settled(s) \/ (turn.phase = "raised" /\ s = Source)
  <1>1. /\ turn.phase = "raised" /\ Resuming /\ item' = item /\ client' = client
        /\ ended' = ended /\ snap' = [snap EXCEPT ![Source].status = "restorable"]
        /\ revived' = IF Fit(Source) THEN revived ELSE [revived EXCEPT ![Source] = @ + 1]
    BY DEF Raise
  <1>2. Source \in Snaps
    BY <1>1, SourceType DEF TypeOK
  <1>3. ended \in [Snaps -> Nat] /\ revived \in [Snaps -> Nat]
    BY DEF TypeOK, HistoryType
  <1>4. /\ snap'[Source].status = "restorable"
        /\ \A s \in Snaps : s # Source => snap'[s] = snap[s]
    BY <1>1, <1>2 DEF TypeOK, SnapRows
  <1>5. ASSUME NEW s \in Snaps, s # Source PROVE Spare(s)' /\ Settled(s)
    <2>1. ended'[s] = ended[s] /\ revived'[s] = revived[s] /\ snap'[s] = snap[s]
      BY <1>1, <1>3, <1>4, <1>5
    <2>. QED
      BY <2>1 DEF UseInv, EndsCounted, Spare, Settled
  <1>6. ASSUME NEW s \in Snaps, s = Source PROVE Spare(s)'
    <2>1. ended[s] <= revived[s] + (IF snap[s].status \in Shut THEN 1 ELSE 0)
      BY DEF UseInv, EndsCounted, Spare
    <2>2. ended'[s] = ended[s] /\ snap'[s].status \notin Shut
      BY <1>1, <1>4, <1>6 DEF Shut
    <2>3. CASE Fit(s)
      <3>1. snap[s].status \notin Shut /\ revived'[s] = revived[s]
        BY <1>1, <1>6, <2>3 DEF Fit, Shut
      <3>. QED
        BY <2>1, <2>2, <3>1 DEF Spare
    <2>4. CASE ~Fit(s)
      <3>1. revived'[s] = revived[s] + 1
        BY <1>1, <1>3, <1>6, <2>4
      <3>2. ended[s] \in Nat /\ revived[s] \in Nat
        BY <1>3
      <3>. QED
        BY <2>1, <2>2, <3>1, <3>2 DEF Spare
    <2>. QED
      BY <2>3, <2>4
  <1>7. EndsCounted'
    BY <1>5, <1>6 DEF EndsCounted
  <1>8. turn'.item = turn.item /\ turn'.phase = "reporting"
    BY DEF Raise, Reporting, NoTurn
  <1>9. ItemsKept
    BY <1>1 DEF ItemsKept
  <1>10. UseInv'
    BY <1>1, <1>7, <1>8, <1>9, TurnUse
  <1>. QED
    BY <1>1, <1>5, <1>10 DEF Settled

LEMMA TurnStepUse ==
    ASSUME TypeOK, TypeOK', UseInv, KeepsSaved, Turn
    PROVE  /\ UseInv'
           /\ \A s \in Snaps : Settled(s) \/ (turn.phase = "raised" /\ s = Source)
  <1>0. Settles => \A s \in Snaps : Settled(s) \/ (turn.phase = "raised" /\ s = Source)
    BY DEF Settles, Settled
  <1>1. item' = item => ItemsKept
    BY DEF ItemsKept
  <1>2. ASSUME NEW i \in Items, item[i].status # "absent", NEW status, status # "absent",
               item' = [item EXCEPT ![i].status = status]
        PROVE  ItemsKept
    BY <1>2 DEF TypeOK, ItemRows, ItemsKept
  <1>3. ASSUME NEW i \in Items, Fresh(item, i), item' = [item EXCEPT ![i] = Queued(None, None)]
        PROVE  ItemsKept
    BY <1>3, NewItemKeeps
  <1>4. ASSUME snap' = snap, UNCHANGED history PROVE Settles /\ EndsCounted'
    <2>1. Settles
      BY <1>4 DEF Settles, Settled
    <2>. QED
      BY <1>4, <2>1, SettledSpare
  <1>5. turn.phase # "idle" => turn.item \in Items /\ item[turn.item].status # "absent"
    BY DEF TypeOK, UseInv, TurnIsFit
  <1>6. Reporting(FALSE).item = turn.item /\ Reporting(FALSE).phase = "reporting"
    BY DEF Reporting, NoTurn
  <1>7. CASE Claim
    <2>1. PICK i \in Items :
            /\ item[i].status = "queued"
            /\ item' = [item EXCEPT ![i].status = "leased"]
            /\ turn' = [NoTurn EXCEPT !.phase = "claimed", !.item = i]
      BY <1>7 DEF Claim
    <2>2. ItemsKept
      BY <1>2, <2>1
    <2>3. snap' = snap /\ client' = client /\ UNCHANGED history
      BY <1>7 DEF Claim
    <2>4. turn'.phase = "claimed" /\ turn'.item = i
      BY <2>1 DEF NoTurn
    <2>5. TurnIsFit'
      BY <2>1, <2>2, <2>4 DEF TurnIsFit, InWork, ItemsKept
    <2>6. AuditsOwn'
      BY <2>3 DEF UseInv, AuditsOwn
    <2>. QED
      BY <1>0, <1>4, <2>3, <2>5, <2>6 DEF UseInv
  <1>8. CASE Load \/ Abort \/ RaiseUnread \/ Crash
    <2>1. /\ item' = item /\ snap' = snap /\ client' = client /\ UNCHANGED history
          /\ turn.phase # "idle" /\ turn'.item = turn.item /\ turn'.phase # "executing"
      BY <1>8 DEF Load, Abort, RaiseUnread, Crash, Reporting, NoTurn, TypeOK, Turns
    <2>. QED
      BY <1>0, <1>1, <1>4, <2>1, TurnUse
  <1>9. CASE Block
    <2>1. /\ item' = item /\ client' = client /\ turn' = Reporting(FALSE) /\ turn.phase # "idle"
          /\ snap' = [snap EXCEPT ![Source].status = "blocked"] /\ UNCHANGED history
      BY <1>9 DEF Block
    <2>2. Settles
      BY <2>1 DEF Settles, Settled, Shut, TypeOK, SnapRows
    <2>3. EndsCounted'
      BY <2>1, <2>2, SettledSpare
    <2>. QED
      BY <1>0, <1>1, <1>6, <2>1, <2>2, <2>3, TurnUse
  <1>10. CASE Execute
    <2>1. /\ item' = item /\ snap' = snap /\ client' = client /\ UNCHANGED history
          /\ turn.phase = "loaded" /\ turn'.item = turn.item /\ (Resuming => Fit(Source))
      BY <1>10 DEF Execute, TypeOK, Turns
    <2>2. Source' = Source
      BY <2>1 DEF Source
    <2>3. TurnIsFit'
      BY <1>5, <2>1, <2>2 DEF TurnIsFit, Resuming, Fit
    <2>4. AuditsOwn'
      BY <2>1 DEF UseInv, AuditsOwn
    <2>. QED
      BY <1>0, <1>4, <2>1, <2>3, <2>4 DEF UseInv
  <1>11. CASE DeliverPaused
    <2>1. PICK n \in Snaps, status \in Prepared :
            Fresh(snap, n) /\ snap' = Consumed(WithSnapshot(SnapsInTurn, n, status))
      BY <1>11 DEF DeliverPaused
    <2>2. /\ turn.phase = "executing" /\ item' = item /\ client' = client
          /\ turn' = Reporting(FALSE) /\ ended' = EndedOnceMore /\ revived' = revived
      BY <1>11 DEF DeliverPaused
    <2>3. KeepsShut(snap') /\ (Resuming => snap'[Source].status = "consumed")
      BY <2>1, <2>2, PreparedType, TurnRowsShut
    <2>. QED
      BY <1>0, <1>1, <2>2, <2>3, EndUse
  <1>12. CASE Deliver \/ DeliverAndContinue
    <2>1. /\ turn.phase = "executing" /\ client' = client /\ snap' = Consumed(SnapsInTurn)
          /\ turn' = Reporting(FALSE) /\ ended' = EndedOnceMore /\ revived' = revived
      BY <1>12 DEF Deliver, DeliverAndContinue
    <2>2. ItemsKept
      BY <1>1, <1>3, <1>12 DEF Deliver, DeliverAndContinue
    <2>3. KeepsShut(snap') /\ (Resuming => snap'[Source].status = "consumed")
      BY <2>1, TurnRowsShut
    <2>. QED
      BY <1>0, <2>1, <2>2, <2>3, EndUse
  <1>13. ASSUME NEW n \in Snaps, NEW status \in SnapStatuses, NEW change,
                StopsPaused(n, status, change)
         PROVE  UseInv' /\ Settles
    <2>1. PICK new : new = [change EXCEPT !.status = "paused", !.snap = n]
      OBVIOUS
    <2>2. /\ StopsEarly(new) /\ Fresh(snap, n)
          /\ snap' = WithSnapshot(SnapsInTurn, n, status) /\ item' = item
      BY <1>13, <2>1 DEF StopsPaused
    <2>3. KeepsShut(snap')
      BY <2>2, TurnRowsShut DEF StopsEarly
    <2>. QED
      BY <1>1, <2>2, <2>3, StopUse
  <1>14. CASE StopForBudget
    <2>1. PICK n \in Snaps, status \in Prepared :
            StopsPaused(n, status, [turn.base EXCEPT !.pause = FALSE])
      BY <1>14 DEF StopForBudget
    <2>2. PICK change : change = [turn.base EXCEPT !.pause = FALSE]
      OBVIOUS
    <2>. QED
      BY <1>0, <1>13, <2>1, <2>2, PreparedType
  <1>15. CASE StopForShutdown \/ Fail \/ FailAndContinue
    <2>1. CASE \E n \in Snaps : StopsPaused(n, "restorable", turn.base)
      BY <1>0, <1>13, <2>1 DEF SnapStatuses
    <2>2. CASE ~\E n \in Snaps : StopsPaused(n, "restorable", turn.base)
      <3>1. PICK change : StopsEarly(change)
        BY <1>15, <2>2 DEF StopForShutdown, Fail, FailAndContinue
      <3>2. snap' = SnapsInTurn
        BY <1>15, <2>2 DEF StopForShutdown, Fail, FailAndContinue
      <3>3. ItemsKept
        BY <1>1, <1>3, <1>15, <2>2 DEF StopForShutdown, Fail, FailAndContinue
      <3>4. KeepsShut(snap')
        BY <3>1, <3>2, TurnRowsShut DEF StopsEarly
      <3>. QED
        BY <1>0, <3>1, <3>3, <3>4, StopUse
    <2>. QED
      BY <2>1, <2>2
  <1>16. CASE Report \/ Recover
    <2>1. PICK status \in {"queued", "closed"} :
            item' = [item EXCEPT ![turn.item].status = status]
      BY <1>16 DEF Report, Recover
    <2>2. /\ turn.phase # "idle" /\ turn'.phase = "idle"
          /\ snap' = snap /\ client' = client /\ UNCHANGED history
      BY <1>16 DEF Report, Recover, NoTurn
    <2>3. PICK i \in Items : i = turn.item
      BY <1>5, <2>2
    <2>4. ItemsKept
      BY <1>2, <1>5, <2>1, <2>2, <2>3
    <2>. QED
      BY <1>0, <1>4, <2>2, <2>4, TurnUse
  <1>. QED
    BY <1>7, <1>8, <1>9, <1>10, <1>11, <1>12, <1>14, <1>15, <1>16, RaiseUse DEF Turn

LEMMA UseStep ==
    TypeOK /\ TypeOK' /\ UseInv /\ KeepsSaved /\ [Next]_vars
      => UseInv' /\ \A s \in Snaps : Settled(s) \/ (turn.phase = "raised" /\ s = Source)
  <1> SUFFICES ASSUME TypeOK, TypeOK', UseInv, KeepsSaved, [Next]_vars
               PROVE  /\ UseInv'
                      /\ \A s \in Snaps : Settled(s) \/ (turn.phase = "raised" /\ s = Source)
    OBVIOUS
  <1>1. CASE UNCHANGED vars
    <2>1. UseInv'
      BY <1>1 DEF vars, UseInv, TurnIsFit, InWork, Source, Resuming, Fit, AuditsOwn, EndsCounted,
         Spare
    <2>2. snap' = snap
      BY <1>1 DEF vars
    <2>. QED
      BY <2>1, <2>2 DEF Settled
  <1>2. ASSUME NEW c \in Clients, HandlerDies(c) PROVE UseInv' /\ Settles
    <2>1. /\ client' = [client EXCEPT ![c] = Idle]
          /\ UNCHANGED <<task, snap, att, item, turn, history>>
      BY <1>2 DEF HandlerDies
    <2>2. AuditsOwn'
      BY <2>1, IdleType DEF UseInv, AuditsOwn, TypeOK, Idle
    <2>3. Settles
      BY <2>1 DEF Settles, Settled
    <2>4. EndsCounted'
      BY <2>1, <2>3, SettledSpare
    <2>. QED
      BY <2>1, <2>2, <2>3, <2>4 DEF UseInv, TurnIsFit, InWork, Source, Resuming, Fit
  <1>3. ASSUME NEW c \in Clients, Request(c) \/ HandlerDies(c) PROVE UseInv' /\ Settles
    BY <1>2, <1>3, RequestUse
  <1>. QED
    BY <1>1, <1>3, TurnStepUse DEF Next, Settles, Settled

LEMMA UseInit == Init => UseInv
  <1> SUFFICES ASSUME Init PROVE UseInv
    OBVIOUS
  <1>1. EndsCounted
    BY DEF Init, EndsCounted, Spare
  <1>. QED
    BY <1>1, IdleType DEF Init, UseInv, TurnIsFit, InWork, AuditsOwn, NoTurn, Idle

\* However often the user asks, whatever is retried and whoever dies, a
\* snapshot is resumed from to the end once, and once more for each time that
\* an exception handler made it restorable when it was not fit.
THEOREM SnapshotsResumedOnce == Spec => []ResumedOnce
  <1>1. TypeOK /\ TypeOK' /\ SavedInv /\ UseInv /\ [Next]_vars => SavedInv' /\ UseInv'
    BY SavedStep, UseStep
  <1>2. TypeOK /\ UseInv => ResumedOnce
    <2> SUFFICES ASSUME TypeOK, UseInv, NEW s \in Snaps PROVE ended[s] <= 1 + revived[s]
      BY DEF ResumedOnce
    <2>1. ended[s] \in Nat /\ revived[s] \in Nat
      BY DEF TypeOK, HistoryType
    <2>. QED
      BY <2>1 DEF UseInv, EndsCounted, Spare
  <1>. QED
    BY <1>1, <1>2, SavedInit, UseInit, TypeCorrect, PTL DEF Spec

\* A snapshot that was consumed, superseded or archived is made fit again by
\* the exception handler of its own turn and by nobody else.
THEOREM UsedStaysUsed == Spec => NoResurrection
  <1>1. TypeOK /\ TypeOK' /\ SavedInv /\ UseInv /\ [Next]_vars
          => /\ SavedInv' /\ UseInv'
             /\ \A s \in Snaps : Settled(s) \/ (turn.phase = "raised" /\ s = Source)
    BY SavedStep, UseStep
  <1>2. (\A s \in Snaps : Settled(s) \/ (turn.phase = "raised" /\ s = Source)) =>
          [\A s \in Snaps :
              /\ snap[s].status \in {"consumed", "superseded", "archived"}
              /\ snap'[s].status \in {"created", "restorable", "leased"}
              => turn.phase = "raised" /\ s = Source]_vars
    BY DEF Settled, Shut
  <1>. QED
    BY <1>1, <1>2, SavedInit, UseInit, TypeCorrect, PTL DEF Spec, NoResurrection
=============================================================================
