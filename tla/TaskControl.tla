----------------------------- MODULE TaskControl -----------------------------
(***************************************************************************)
(* The life of one task between its control plane and its worker: start,   *)
(* retry, pause, resume, cancel, approve, revise and save-current          *)
(* (runtime_kernel/execution_control.py), the worker's turn                *)
(* (execution_loop/worker.py, execute_main_agent_work_item) and its end    *)
(* (execution_loop/transitions.py).                                        *)
(*                                                                         *)
(* A whole turn is one database transaction.  From its first write of the  *)
(* task row, just before the model is invoked, to its commit it holds the  *)
(* row lock: what it wrote is invisible, and a handler that updates the    *)
(* task waits.  A handler reads the row first and writes later, and an     *)
(* UPDATE carries only the columns that differ from what was read (Put).   *)
(* Only prepare_pause_snapshot takes the task lock in Redis, which a turn  *)
(* holds from before its first read.                                       *)
(*                                                                         *)
(* Which item is claimed when, and the lock and lease by themselves, are   *)
(* WorkQueue's; here one worker serves one task and an item waiting after  *)
(* a lease or a retry is queued.  Fork runs and agent run rows, which      *)
(* decide nothing here, are left out.                                      *)
(***************************************************************************)
EXTENDS Integers, FiniteSets, Sequences

CONSTANTS
    Clients,        \* request handlers of the control plane
    Snaps,          \* snapshots, attempts and items, numbered as created
    Attempts,
    Items,
    MaxOps,         \* bound: control plane requests
    MaxTurns,       \* bound: turns of the worker
    MaxCrash,       \* bound: deaths of the worker and of handlers
    Overlap,        \* requests may run while a turn or another request does
    LateCrash,      \* the worker may die between a turn's commit and its report
    HandlersDie,    \* a handler may die between two of its transactions
    Prepared,       \* statuses _build_pause_snapshot_state may give
    Lost,           \* the id of a snapshot that was never stored
    None

ASSUME TaskControlAssumption ==
    /\ Snaps \subseteq Nat /\ Attempts \subseteq Nat /\ Items \subseteq Nat
    /\ MaxOps \in Nat /\ MaxTurns \in Nat /\ MaxCrash \in Nat
    /\ Overlap \in BOOLEAN /\ LateCrash \in BOOLEAN /\ HandlersDie \in BOOLEAN
    /\ Prepared \subseteq {"restorable", "created"}
    /\ None \notin Snaps \cup Attempts \cup Items
    /\ Lost \notin Snaps \cup {None}

VARIABLES
    task,           \* the row of tasks
    snap,           \* the rows of task_snapshots
    att,            \* the rows of task_resume_attempts
    item,           \* the rows of runtime_work_items
    client,         \* what each handler has read and is about to write
    turn,           \* the turn of the worker and the row as its session has it
    ended,          \* how often each snapshot was resumed from to the end
    revived,        \* how often an exception made it restorable when unfit
    ops, turns, crashes

vars == <<task, snap, att, item, client, turn, ended, revived, ops, turns, crashes>>
history == <<ended, revived>>
bounds == <<ops, turns, crashes>>

-----------------------------------------------------------------------------
TaskStatuses == {"draft", "queued", "running", "paused", "resume-blocked",
                 "awaiting-approval", "completed", "failed", "cancelled"}
SnapStatuses == {"absent", "created", "restorable", "leased", "consumed",
                 "superseded", "blocked", "archived"}
Kinds == {"active-paused", "user-saved", "cancel-audit"}
ActiveStatuses == {"queued", "running", "blocked"}
AttemptStatuses == {"absent", "completed", "cancelled"} \cup ActiveStatuses
ItemStatuses == {"absent", "queued", "leased", "closed", "cancelled"}
Intents == {None, "pause", "resume"}
Operations == {"none", "prepare", "flag", "paused", "audit",
               "write", "queue", "resume", "cancel"}
Phases == {"idle", "claimed", "loaded", "executing", "raised", "unread", "reporting",
           "dead"}

TaskRows == [status : TaskStatuses, pause : BOOLEAN, snap : Snaps \cup {Lost, None},
             att : Attempts \cup {None}, intent : Intents]
SnapRows == [status : SnapStatuses, kind : Kinds]
AttemptRows == [status : AttemptStatuses, snap : Snaps \cup {None}]
ItemRows == [status : ItemStatuses, att : Attempts \cup {None},
             snap : Snaps \cup {None}]
Handlers == [op : Operations, row : TaskRows, change : TaskRows,
             snap : Snaps \cup {Lost, None}, att : Attempts \cup {None},
             items : SUBSET Items]
Turns == [phase : Phases, item : Items \cup {None}, base : TaskRows,
          row : TaskRows, again : BOOLEAN]

NoRow == [status |-> "draft", pause |-> FALSE, snap |-> None, att |-> None,
          intent |-> None]
Idle == [op |-> "none", row |-> NoRow, change |-> NoRow, snap |-> None,
         att |-> None, items |-> {}]
NoTurn == [phase |-> "idle", item |-> None, base |-> NoRow, row |-> NoRow,
           again |-> FALSE]

HistoryType == ended \in [Snaps -> Nat] /\ revived \in [Snaps -> Nat]

TypeOK ==
    /\ task \in TaskRows
    /\ snap \in [Snaps -> SnapRows]
    /\ att \in [Attempts -> AttemptRows]
    /\ item \in [Items -> ItemRows]
    /\ client \in [Clients -> Handlers]
    /\ turn \in Turns
    /\ turn.phase # "idle" => turn.item \in Items
    /\ \A c \in Clients : client[c].op = "resume" => client[c].snap \in Snaps
    /\ HistoryType
    /\ ops \in 0 .. MaxOps /\ turns \in 0 .. MaxTurns /\ crashes \in 0 .. MaxCrash

Init ==
    /\ task = NoRow
    /\ snap = [s \in Snaps |-> [status |-> "absent", kind |-> "active-paused"]]
    /\ att = [a \in Attempts |-> [status |-> "absent", snap |-> None]]
    /\ item = [i \in Items |-> [status |-> "absent", att |-> None, snap |-> None]]
    /\ client = [c \in Clients |-> Idle]
    /\ turn = NoTurn
    /\ ended = [s \in Snaps |-> 0] /\ revived = [s \in Snaps |-> 0]
    /\ ops = 0 /\ turns = 0 /\ crashes = 0

-----------------------------------------------------------------------------
(***************************************************************************)
(* Helpers.                                                                *)
(***************************************************************************)
Column(now, seen, new) == IF new # seen THEN new ELSE now

\* Mutant: every column is written, changed or not.
PutAll(now, seen, new) == new

\* An UPDATE of the row now by a session that read seen and wants new.
Put(now, seen, new) ==
    [status |-> Column(now.status, seen.status, new.status),
     pause |-> Column(now.pause, seen.pause, new.pause),
     snap |-> Column(now.snap, seen.snap, new.snap),
     att |-> Column(now.att, seen.att, new.att),
     intent |-> Column(now.intent, seen.intent, new.intent)]

\* The next number of a table; numbers are given out in order.
Fresh(table, n) ==
    /\ table[n].status = "absent"
    /\ \A m \in DOMAIN table : m < n => table[m].status # "absent"

Queued(a, s) == [status |-> "queued", att |-> a, snap |-> s]
Open(i) == item[i].status \in {"queued", "leased"}

ActiveAttempts == {a \in Attempts : att[a].status \in ActiveStatuses}

\* Mutant: the active attempt is not looked for.
NoAttempt == {None}

\* get_active_resume_attempt.
LatestAttempt ==
    IF ActiveAttempts = {} THEN {None}
    ELSE {a \in ActiveAttempts : \A b \in ActiveAttempts : b <= a}

\* Mutant: saved snapshots are superseded too.
SupersededSaved(rows) ==
    [s \in Snaps |-> IF rows[s].status \in {"created", "restorable"}
                     THEN [rows[s] EXCEPT !.status = "superseded"] ELSE rows[s]]

\* supersede_snapshots.
Superseded(rows) ==
    [s \in Snaps |-> IF /\ rows[s].status \in {"created", "restorable"}
                        /\ rows[s].kind # "user-saved"
                     THEN [rows[s] EXCEPT !.status = "superseded"] ELSE rows[s]]

\* Mutant: a consumed snapshot counts as fit.
FitWhenConsumed(s) == snap[s].status \in {"restorable", "leased", "consumed"}

\* The snapshot may be resumed from.
Fit(s) ==
    /\ snap[s].status \in {"restorable", "leased"}
    /\ snap[s].kind # "cancel-audit"

RowFree == turn.phase # "executing"
\* The task lock in Redis; that of a dead worker may have expired or not.
LockHeld == turn.phase \in {"loaded", "executing", "raised", "unread", "dead"}
LockFree == turn.phase \notin {"loaded", "executing", "raised", "unread"}

-----------------------------------------------------------------------------
(***************************************************************************)
(* The control plane.  A request reads the task and decides; what it       *)
(* decided is written when the row is free.                                *)
(***************************************************************************)
Undisturbed == turn.phase = "idle" /\ \A c \in Clients : client[c].op = "none"

Asks(c) ==
    /\ client[c].op = "none"
    /\ Overlap \/ Undisturbed
    /\ ops < MaxOps
    /\ ops' = ops + 1

Will(op, change) == [Idle EXCEPT !.op = op, !.row = task, !.change = change]

\* It has only read so far.
Decides(c, decision) ==
    /\ client' = [client EXCEPT ![c] = decision]
    /\ UNCHANGED <<task, snap, att, item, turn, history, turns, crashes>>

Unpaused(status) == [task EXCEPT !.status = status, !.pause = FALSE]

\* queue_main_agent_execution, command "start".
Start(c) ==
    /\ Asks(c)
    /\ task.status \notin {"paused", "resume-blocked", "completed", "failed", "cancelled"}
    /\ Decides(c, Will("queue", [Unpaused("queued") EXCEPT !.intent = None]))

\* Command "retry".
Retry(c) ==
    /\ Asks(c)
    /\ task.status = "failed"
    /\ Decides(c, Will("queue", [Unpaused("queued") EXCEPT !.intent = None]))

\* request_task_revision, of a completed task when its work tree is unfinished.
Revise(c) ==
    /\ Asks(c)
    /\ task.status \in {"awaiting-approval", "completed"}
    /\ Decides(c, Will("queue", [Unpaused("queued") EXCEPT !.snap = None]))

\* approve_task_completion.
Approve(c) ==
    /\ Asks(c)
    /\ task.status = "awaiting-approval"
    /\ Decides(c, Will("write", [Unpaused("completed") EXCEPT !.snap = None]))

\* What command "resume" asks of the task and its active snapshot.
Resumable ==
    /\ task.status \in {"paused", "resume-blocked"}
    /\ task.snap \in Snaps
    /\ Fit(task.snap)

\* create_resume_attempt returns the active attempt if there is one, and
\* raises when it finds two.
Resume(c) ==
    /\ Asks(c)
    /\ Resumable
    /\ Cardinality(ActiveAttempts) <= 1
    /\ \E a \in LatestAttempt :
          Decides(c, [Will("resume", [Unpaused("paused") EXCEPT !.intent = "resume",
                                                               !.att = a])
                         EXCEPT !.snap = task.snap, !.att = a])

\* Mutant: only the oldest waiting item is cancelled.
CancelsOldest(which) ==
    [i \in Items |-> IF /\ i \in which /\ item[i].status = "queued"
                        /\ \A j \in which : item[j].status = "queued" => i <= j
                     THEN [item[i] EXCEPT !.status = "cancelled"] ELSE item[i]]

\* cancel_queued_work_items.
Cancels(which) ==
    [i \in Items |-> IF i \in which /\ item[i].status = "queued"
                     THEN [item[i] EXCEPT !.status = "cancelled"] ELSE item[i]]

\* pause_task_execution, its first transaction.
Pause(c) ==
    /\ Asks(c)
    /\ task.status \notin {"completed", "failed", "cancelled"}
    /\ IF task.status = "queued"
       THEN /\ item' = Cancels(Items)
            /\ client' = [client EXCEPT ![c] = Will("prepare", task)]
       ELSE /\ client' = [client EXCEPT ![c] = Will("flag", task)]
            /\ UNCHANGED item
    /\ UNCHANGED <<task, snap, att, turn, history, turns, crashes>>

\* prepare_pause_snapshot of a pause: without the task lock nothing is stored
\* and the id is returned all the same.
PreparePause(c) ==
    /\ client[c].op = "prepare"
    /\ \/ /\ LockHeld
          /\ client' = [client EXCEPT ![c].op = "paused", ![c].snap = Lost]
          /\ UNCHANGED <<task, snap>>
       \/ /\ LockFree
          /\ \E n \in Snaps, status \in Prepared :
                /\ Fresh(snap, n)
                /\ snap' = [Superseded(snap) EXCEPT
                              ![n] = [status |-> status, kind |-> "active-paused"]]
                /\ task' = [task EXCEPT !.snap = n]
                /\ client' = [client EXCEPT ![c].op = "paused", ![c].snap = n]
    /\ UNCHANGED <<att, item, turn, history, bounds>>

\* The last transaction of a pause reads the task again.
Reread(c) ==
    LET p == client[c] IN
    /\ p.op \in {"flag", "paused"}
    /\ Decides(c, IF p.op = "flag"
                  THEN Will("write", [task EXCEPT !.pause = TRUE, !.intent = "pause"])
                  ELSE Will("write", [Unpaused("paused") EXCEPT !.snap = p.snap,
                                                               !.intent = None]))
    /\ UNCHANGED ops

\* cancel_task_execution: it clones the active snapshot for the audit, or has
\* one prepared.
Cancel(c) ==
    /\ Asks(c)
    /\ task.status \notin {"completed", "cancelled"}
    /\ \E a \in LatestAttempt :
          Decides(c, [Will(IF task.snap \in Snaps THEN "cancel" ELSE "audit",
                           [Unpaused("cancelled") EXCEPT !.snap = None, !.att = None,
                                                         !.intent = None])
                         EXCEPT !.att = a,
                                !.items = {i \in Items : item[i].status = "queued"}])

\* prepare_pause_snapshot of a cancel; when it stored nothing, archiving the
\* snapshot raises and the cancel is rolled back.
PrepareAudit(c) ==
    /\ client[c].op = "audit"
    /\ \/ /\ LockHeld
          /\ client' = [client EXCEPT ![c] = Idle]
          /\ UNCHANGED snap
       \/ /\ LockFree
          /\ \E n \in Snaps, status \in Prepared :
                /\ Fresh(snap, n)
                /\ snap' = [Superseded(snap) EXCEPT
                              ![n] = [status |-> status, kind |-> "cancel-audit"]]
                /\ client' = [client EXCEPT ![c].op = "cancel", ![c].snap = n]
    /\ UNCHANGED <<task, att, item, turn, history, bounds>>

\* save_current_task_snapshot clones the active snapshot.
Save(c) ==
    /\ Asks(c)
    /\ task.snap \in Snaps
    /\ \E n \in Snaps :
          /\ Fresh(snap, n)
          /\ snap' = [snap EXCEPT ![n] = [status |-> "restorable", kind |-> "user-saved"]]
    /\ UNCHANGED <<task, att, item, client, turn, history, turns, crashes>>

-----------------------------------------------------------------------------
(***************************************************************************)
(* The writes of the control plane.                                        *)
(***************************************************************************)
\* The transaction of c commits with this change of the task.
Commits(c, op, change) ==
    /\ client[c].op = op
    /\ RowFree
    /\ task' = Put(task, client[c].row, change)
    /\ client' = [client EXCEPT ![c] = Idle]
    /\ UNCHANGED <<turn, history, bounds>>

CommitWrite(c) ==
    /\ Commits(c, "write", client[c].change)
    /\ UNCHANGED <<snap, att, item>>

CommitQueue(c) ==
    /\ Commits(c, "queue", client[c].change)
    /\ \E i \in Items : Fresh(item, i) /\ item' = [item EXCEPT ![i] = Queued(None, None)]
    /\ UNCHANGED <<snap, att>>

\* The request found an active attempt and queues nothing.
CommitResumeAgain(c) ==
    /\ client[c].att # None
    /\ Commits(c, "resume", client[c].change)
    /\ UNCHANGED <<snap, att, item>>

CommitResume(c) ==
    /\ client[c].att = None
    /\ \E a \in Attempts, i \in Items :
          /\ Fresh(att, a) /\ Fresh(item, i)
          /\ Commits(c, "resume", [client[c].change EXCEPT !.att = a])
          /\ att' = [att EXCEPT ![a] = [status |-> "queued", snap |-> client[c].snap]]
          /\ item' = [item EXCEPT ![i] = Queued(a, client[c].snap)]
    /\ UNCHANGED snap

CommitCancel(c) ==
    /\ Commits(c, "cancel", client[c].change)
    /\ item' = Cancels(client[c].items)
    /\ att' = [a \in Attempts |-> IF a = client[c].att
                                  THEN [att[a] EXCEPT !.status = "cancelled"] ELSE att[a]]
    /\ IF client[c].snap \in Snaps
       THEN snap' = [snap EXCEPT ![client[c].snap].status = "archived"]
       ELSE \E n \in Snaps :
               /\ Fresh(snap, n)
               /\ snap' = [snap EXCEPT ![n] = [status |-> "archived",
                                              kind |-> "cancel-audit"]]

\* The process of a handler dies between two transactions; an open one is
\* rolled back.
HandlerDies(c) ==
    /\ HandlersDie
    /\ client[c].op # "none"
    /\ crashes < MaxCrash
    /\ crashes' = crashes + 1
    /\ client' = [client EXCEPT ![c] = Idle]
    /\ UNCHANGED <<task, snap, att, item, turn, history, ops, turns>>

Request(c) ==
    \/ Start(c) \/ Retry(c) \/ Revise(c) \/ Approve(c) \/ Resume(c)
    \/ Pause(c) \/ PreparePause(c) \/ Reread(c)
    \/ Cancel(c) \/ PrepareAudit(c) \/ Save(c)
    \/ CommitWrite(c) \/ CommitQueue(c) \/ CommitResume(c) \/ CommitResumeAgain(c)
    \/ CommitCancel(c)

-----------------------------------------------------------------------------
(***************************************************************************)
(* The turn of the worker.                                                 *)
(***************************************************************************)
Source == item[turn.item].snap
Resuming == Source # None

\* claim_work_item, the oldest first.
Claim ==
    /\ turn.phase = "idle"
    /\ Overlap \/ Undisturbed
    /\ turns < MaxTurns
    /\ turns' = turns + 1
    /\ \E i \in Items :
          /\ item[i].status = "queued"
          /\ \A j \in Items : item[j].status = "queued" => i <= j
          /\ item' = [item EXCEPT ![i].status = "leased"]
          /\ turn' = [NoTurn EXCEPT !.phase = "claimed", !.item = i]
    /\ UNCHANGED <<task, snap, att, client, history, ops, crashes>>

\* The task lock is taken and the task read.
Load ==
    /\ turn.phase = "claimed"
    /\ turn' = [turn EXCEPT !.phase = "loaded", !.base = task]
    /\ UNCHANGED <<task, snap, att, item, client, history, bounds>>

\* Every outcome ends the transaction and leaves the report to be made.
Reporting(again) == [NoTurn EXCEPT !.phase = "reporting", !.item = turn.item,
                                   !.again = again]

AttemptBecomes(status) ==
    IF Resuming /\ item[turn.item].att # None
    THEN [att EXCEPT ![item[turn.item].att].status = status] ELSE att

\* _block_resume_attempt: the snapshot cannot be used, its manifest does not
\* verify or a module cannot restore from it.
Block ==
    /\ turn.phase = "loaded"
    /\ Resuming
    /\ snap' = [snap EXCEPT ![Source].status = "blocked"]
    /\ att' = AttemptBecomes("blocked")
    /\ task' = Put(task, turn.base, [turn.base EXCEPT !.status = "resume-blocked",
                                                      !.pause = FALSE, !.intent = None])
    /\ turn' = Reporting(FALSE)
    /\ UNCHANGED <<item, client, history, bounds>>

\* The snapshot is leased, the run created and the task marked running: from
\* here the transaction holds the row.
Execute ==
    LET running == [turn.base EXCEPT !.status = "running",
                                     !.intent = IF Resuming THEN "resume" ELSE @] IN
    /\ turn.phase = "loaded"
    /\ Resuming => Fit(Source)
    /\ turn' = [turn EXCEPT !.phase = "executing", !.base = running,
                            !.row = Put(task, turn.base, running)]
    /\ UNCHANGED <<task, snap, att, item, client, history, bounds>>

\* The snapshots as the open transaction has them.
SnapsInTurn ==
    IF Resuming THEN [snap EXCEPT ![Source].status = "leased"] ELSE snap

Consumed(rows) ==
    IF Resuming THEN [rows EXCEPT ![Source].status = "consumed"] ELSE rows

\* History.
EndedOnceMore == IF Resuming THEN [ended EXCEPT ![Source] = @ + 1] ELSE ended

\* The last writes of a resumed execution.
Released(row) ==
    IF Resuming THEN [row EXCEPT !.snap = None, !.att = None, !.intent = None] ELSE row

WithSnapshot(rows, n, status) ==
    [Superseded(rows) EXCEPT ![n] = [status |-> status, kind |-> "active-paused"]]

\* The end of a delivery that finds a pause requested.
DeliverPaused ==
    /\ turn.phase = "executing"
    /\ turn.row.pause
    /\ \E n \in Snaps, status \in Prepared :
          /\ Fresh(snap, n)
          /\ snap' = Consumed(WithSnapshot(SnapsInTurn, n, status))
          /\ task' = Released([turn.row EXCEPT !.status = "paused", !.pause = FALSE,
                                               !.snap = n])
    /\ att' = AttemptBecomes("completed")
    /\ ended' = EndedOnceMore
    /\ turn' = Reporting(FALSE)
    /\ UNCHANGED <<item, client, revived, bounds>>

Delivered(status) ==
    Released([turn.row EXCEPT !.status = status, !.pause = FALSE, !.snap = None])

\* The end of a delivery: the task is done, or waits for somebody.
Deliver ==
    /\ turn.phase = "executing"
    /\ ~turn.row.pause
    /\ \E status \in {"completed", "awaiting-approval", "resume-blocked", "failed"} :
          task' = Delivered(status)
    /\ snap' = Consumed(SnapsInTurn)
    /\ att' = AttemptBecomes("completed")
    /\ ended' = EndedOnceMore
    /\ turn' = Reporting(FALSE)
    /\ UNCHANGED <<item, client, revived, bounds>>

\* The end of a delivery: the work tree goes on with another item.
DeliverAndContinue ==
    /\ turn.phase = "executing"
    /\ ~turn.row.pause
    /\ task' = Delivered("queued")
    /\ \E i \in Items : Fresh(item, i) /\ item' = [item EXCEPT ![i] = Queued(None, None)]
    /\ snap' = Consumed(SnapsInTurn)
    /\ att' = AttemptBecomes("completed")
    /\ ended' = EndedOnceMore
    /\ turn' = Reporting(FALSE)
    /\ UNCHANGED <<client, revived, bounds>>

\* The ends that are no delivery write what their session changed and leave
\* the attempt running and the snapshot leased.
StopsEarly(change) ==
    /\ turn.phase = "executing"
    /\ task' = Put(turn.row, turn.base, change)
    /\ att' = AttemptBecomes("running")
    /\ turn' = Reporting(FALSE)
    /\ UNCHANGED <<client, history, bounds>>

\* Mutant: the task keeps pointing to its last snapshot.
StopsPausedUnpointed(n, status, change) ==
    /\ StopsEarly([change EXCEPT !.status = "paused"])
    /\ Fresh(snap, n)
    /\ snap' = WithSnapshot(SnapsInTurn, n, status)
    /\ UNCHANGED item

StopsPaused(n, status, change) ==
    /\ StopsEarly([change EXCEPT !.status = "paused", !.snap = n])
    /\ Fresh(snap, n)
    /\ snap' = WithSnapshot(SnapsInTurn, n, status)
    /\ UNCHANGED item

\* The model's answer overran the budget.
StopForBudget ==
    \E n \in Snaps, status \in Prepared :
        StopsPaused(n, status, [turn.base EXCEPT !.pause = FALSE])

\* save_pending_tool_calls_snapshot; with incomplete tool calls nothing is
\* saved and the task stays as it was marked.
StopForShutdown ==
    \/ \E n \in Snaps : StopsPaused(n, "restorable", turn.base)
    \/ StopsEarly(turn.base) /\ snap' = SnapsInTurn /\ UNCHANGED item

\* The invocation failed or the window overflowed and nothing can go on.
Fail ==
    /\ StopsEarly([turn.base EXCEPT !.status = "failed"])
    /\ snap' = SnapsInTurn
    /\ UNCHANGED item

\* _queue_takeover_failure_continuation: the parent node goes on.
FailAndContinue ==
    /\ StopsEarly([turn.base EXCEPT !.status = "queued"])
    /\ snap' = SnapsInTurn
    /\ \E i \in Items : Fresh(item, i) /\ item' = [item EXCEPT ![i] = Queued(None, None)]

\* An exception, wherever the turn is: the transaction is rolled back.  Its
\* handler knows of a resume once the snapshot has been read.
Abort ==
    /\ turn.phase \in {"loaded", "executing"}
    /\ \E phase \in {"raised", "unread"} :
          /\ phase = "raised" => Resuming
          /\ phase = "unread" => ~Resuming \/ turn.phase = "loaded"
          /\ turn' = [NoTurn EXCEPT !.phase = phase, !.item = turn.item]
    /\ UNCHANGED <<task, snap, att, item, client, history, bounds>>

\* The handler keeps a resume for another try: its snapshot becomes restorable,
\* whatever it was.
Raise ==
    /\ turn.phase = "raised"
    /\ Resuming
    /\ snap' = [snap EXCEPT ![Source].status = "restorable"]
    /\ revived' = IF Fit(Source) THEN revived ELSE [revived EXCEPT ![Source] = @ + 1]
    /\ att' = AttemptBecomes("queued")
    /\ task' = [Unpaused("paused") EXCEPT !.intent = "resume"]
    /\ \E again \in BOOLEAN : turn' = Reporting(again)
    /\ UNCHANGED <<item, client, ended, bounds>>

\* Any other turn, and a resume that read no snapshot, has failed.
RaiseUnread ==
    /\ turn.phase = "unread"
    /\ task' = [task EXCEPT !.status = "failed"]
    /\ turn' = Reporting(FALSE)
    /\ UNCHANGED <<snap, att, item, client, history, bounds>>

\* run_worker_once gives the item back or closes it.
Report ==
    /\ turn.phase = "reporting"
    /\ item' = [item EXCEPT ![turn.item].status =
                    IF turn.again THEN "queued" ELSE "closed"]
    /\ turn' = NoTurn
    /\ UNCHANGED <<task, snap, att, client, history, bounds>>

\* The worker dies; an open transaction is rolled back.
Crash ==
    /\ turn.phase \notin {"idle", "dead"}
    /\ turn.phase = "reporting" => LateCrash
    /\ crashes < MaxCrash
    /\ crashes' = crashes + 1
    /\ turn' = [NoTurn EXCEPT !.phase = "dead", !.item = turn.item]
    /\ UNCHANGED <<task, snap, att, item, client, history, ops, turns>>

\* The leases of a dead worker expire.
Recover ==
    /\ turn.phase = "dead"
    /\ item' = [item EXCEPT ![turn.item].status = "queued"]
    /\ turn' = NoTurn
    /\ UNCHANGED <<task, snap, att, client, history, bounds>>

Turn ==
    \/ Claim \/ Load \/ Block \/ Execute
    \/ DeliverPaused \/ Deliver \/ DeliverAndContinue
    \/ StopForBudget \/ StopForShutdown \/ Fail \/ FailAndContinue
    \/ Abort \/ Raise \/ RaiseUnread \/ Report
    \/ Crash \/ Recover

Next == Turn \/ \E c \in Clients : Request(c) \/ HandlerDies(c)

Spec == Init /\ [][Next]_vars

-----------------------------------------------------------------------------
(***************************************************************************)
(* Properties.                                                             *)
(***************************************************************************)
\* The handler of a pause has cancelled the queued items and will yet write
\* "paused" (execution_control.py:361-406).
IsPausing(h) ==
    \/ h.op \in {"prepare", "paused"}
    \/ h.op = "write" /\ h.change.status = "paused" /\ h.row.status # "paused"

Pausing == \E c \in Clients : IsPausing(client[c])

\* A task that says it is queued has an item that is waiting or in work, or
\* is being paused: no stale write, rollback or crash of the worker leaves a
\* queued task that nobody will ever take up.
QueuedHasWork == task.status = "queued" => Pausing \/ \E i \in Items : Open(i)

\* What a user saved by hand is never superseded, leased, consumed, blocked
\* or archived by whatever happens to the task (task.py:521-522, and
\* save_current_task_snapshot).
SavedKept ==
    [][\A s \in Snaps : snap[s].status # "absent" /\ snap[s].kind = "user-saved"
                           => snap'[s] = snap[s]]_vars

\* A snapshot that was consumed, superseded or archived is brought back only by
\* the exception handler of the turn that was given it, which does not look at
\* it (worker.py:2008): no request, no lease of a later turn, no clean-up of
\* one that ends and no delivery for the second time does.
NoResurrection ==
    [][\A s \in Snaps :
          /\ snap[s].status \in {"consumed", "superseded", "archived"}
          /\ snap'[s].status \in {"created", "restorable", "leased"}
          => turn.phase = "raised" /\ s = Source]_vars

\* A snapshot is resumed from to the end once, and once more for every time
\* such a handler made it restorable when it was no longer fit, however often
\* the user clicks, the worker dies and items are delivered again
\* (task.py:533-564, worker.py:1977-1990).
ResumedOnce == \A s \in Snaps : ended[s] <= 1 + revived[s]

\* When requests do not overlap, a task has one active resume attempt at a
\* time, although attempts outlive their items and handlers die between their
\* transactions (task.py:536-543).
OneActiveAttempt == \A a, b \in ActiveAttempts : a = b

\* When requests and turns do not overlap, the active snapshot of a task is
\* never one that was used up or replaced (every writer of
\* activeSnapshotId).
ActiveSnapshotUsable ==
    task.snap \in Snaps =>
        snap[task.snap].status \notin {"absent", "consumed", "superseded", "archived"}

\* When requests and turns do not overlap, a cancelled task leaves no item
\* and no attempt behind (execution_control.py:464-510).
CancelledIsOver ==
    task.status = "cancelled" =>
        ActiveAttempts = {} /\ ~\E i \in Items : Open(i)

\* Nobody is in the middle of anything, and no work is waiting.
Quiet == Undisturbed /\ ~\E i \in Items : Open(i)

\* A paused task that nobody works on can be resumed.
PausedIsResumable == Quiet /\ task.status = "paused" => Resumable
=============================================================================
