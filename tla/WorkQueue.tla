------------------------------ MODULE WorkQueue ------------------------------
(***************************************************************************)
(* The durable work queue: rows of runtime_work_items with a lease, the    *)
(* worker's cycle of claim, task lock, execution, unlock and report        *)
(* (yggdrasil_worker/registry.py, run_worker_once), and the task lock that *)
(* keeps two executions of a task apart (persistence/coordination.py).     *)
(*                                                                         *)
(* A claim is a SELECT followed by an UPDATE by primary key, with neither  *)
(* a row lock nor a compare: other claims, cancels and reports may commit  *)
(* between the two.  The UPDATE carries the columns that differ from what  *)
(* was read, so a claim writes what it read, not what is there; a cancel   *)
(* is a SELECT and an UPDATE as well.  No column is compared when a result *)
(* is written; lease_owner in particular is recorded and never read, so it *)
(* is left out.                                                            *)
(*                                                                         *)
(* Redis wake-ups are not state here: pop_work_item claims again whether   *)
(* or not a wake-up came, and reads nothing from it.                       *)
(***************************************************************************)
EXTENDS Integers, FiniteSets

CONSTANTS
    Workers,            \* worker processes
    Items,              \* work items, numbered in the order of created_at
    Tasks,
    TaskOf,             \* the task of each item
    Unsupported,        \* items whose activity dispatch_work_item ignores
    MaxRetry,           \* YGGDRASIL_WORKER_RETRY_MAX
    MaxDisturb,         \* bound: crashes, races for a row, early expiries, API
                        \* locks, failures of Redis
    WorkOutlivesLease,  \* an execution may take longer than lease and lock
    RedisFails,         \* a call of the task lock may fall back to the process
    Controller,         \* an API handler that takes the task lock
    None

ASSUME WorkQueueAssumption ==
    /\ Items \subseteq Nat
    /\ TaskOf \in [Items -> Tasks]
    /\ Unsupported \subseteq Items
    /\ MaxRetry \in Nat
    /\ MaxDisturb \in Nat
    /\ WorkOutlivesLease \in BOOLEAN
    /\ RedisFails \in BOOLEAN
    /\ None \notin Workers \cup Items \cup {Controller}
    /\ Controller \notin Workers

VARIABLES
    item,               \* the rows: status, lease, attempt
    lock,               \* task -> holder of lock task:{id}, None when absent
    pc,                 \* where a worker is in run_worker_once
    job,                \* the item it selected or claimed
    seen,               \* the row as its SELECT read it
    attempt,            \* payload["attempt"] of the claimed item
    outcome,            \* what the dispatch returned
    cancelling,         \* task -> the items a cancel under way has read
    executed,           \* history: items of which an execution committed
    lapsed,             \* history: tasks of which an execution under way lost its
                        \* lock to time, or never had it in Redis
    disturbed           \* how often the environment interfered

vars == <<item, lock, pc, job, seen, attempt, outcome, cancelling, executed,
          lapsed, disturbed>>
workerVars == <<pc, job, seen, attempt, outcome>>
histories == <<executed, lapsed>>

-----------------------------------------------------------------------------
Terminal == {"completed", "failed", "cancelled"}
Statuses == {"absent", "queued", "leased", "reclaimable"} \cup Terminal
Leases == {"none", "live", "expired"}
\* Only attempt <= MaxRetry is ever asked, so attempts are counted up to here.
Attempts == 1 .. MaxRetry + 1
Rows == [status : Statuses, lease : Leases, attempt : Attempts]
Phases == {"idle", "selected", "claimed", "running", "releasing", "deleting",
           "reporting"}
Outcomes == {"none", "locked", "ok", "failed", "retryable", "ignored"}

NoRow == [status |-> "absent", lease |-> "none", attempt |-> 1]

TypeOK ==
    /\ item \in [Items -> Rows]
    /\ lock \in [Tasks -> Workers \cup {Controller, None}]
    /\ pc \in [Workers -> Phases]
    /\ job \in [Workers -> Items \cup {None}]
    /\ seen \in [Workers -> Rows]
    /\ attempt \in [Workers -> Attempts]
    /\ outcome \in [Workers -> Outcomes]
    /\ cancelling \in [Tasks -> SUBSET Items]
    /\ executed \subseteq Items
    /\ lapsed \subseteq Tasks
    /\ disturbed \in 0 .. MaxDisturb
    /\ \A w \in Workers : job[w] = None <=> pc[w] = "idle"
    \* only an item nobody ever claimed is queued
    /\ \A i \in Items : item[i].status \in {"absent", "queued"}
                            => item[i].lease = "none" /\ item[i].attempt = 1

Init ==
    /\ item = [i \in Items |-> NoRow]
    /\ lock = [t \in Tasks |-> None]
    /\ pc = [w \in Workers |-> "idle"]
    /\ job = [w \in Workers |-> None]
    /\ seen = [w \in Workers |-> NoRow]
    /\ attempt = [w \in Workers |-> 1]
    /\ outcome = [w \in Workers |-> "none"]
    /\ cancelling = [t \in Tasks |-> {}]
    /\ executed = {}
    /\ lapsed = {}
    /\ disturbed = 0

-----------------------------------------------------------------------------
(***************************************************************************)
(* Helpers.                                                                *)
(***************************************************************************)
Next1(n) == IF n <= MaxRetry THEN n + 1 ELSE n

\* The WHERE clause of claim_work_item.
Claimable(i) ==
    /\ item[i].status \in {"queued", "reclaimable", "leased"}
    /\ item[i].lease # "live"

\* ORDER BY created_at LIMIT 1.
Oldest(i) == Claimable(i) /\ \A j \in Items : Claimable(j) => i <= j

\* Somebody is between the SELECT and the UPDATE of a claim of i.
BeingClaimed(i) == \E w \in Workers : pc[w] = "selected" /\ job[w] = i

\* A live process works on i under the lease it took.
Worked(i) == \E w \in Workers : job[w] = i /\ pc[w] \notin {"idle", "selected"}

\* w is between taking and giving back the lock of t.
Executing(w, t) ==
    pc[w] \in {"running", "releasing", "deleting"} /\ TaskOf[job[w]] = t

\* The lock of t is that of a process that still relies on it.
Guarded(t) == \E w \in Workers : lock[t] = w /\ Executing(w, t)

\* The worker is back in its loop, with nothing of the last turn.
TurnOver(w) ==
    /\ pc' = [pc EXCEPT ![w] = "idle"]
    /\ job' = [job EXCEPT ![w] = None]
    /\ seen' = [seen EXCEPT ![w] = NoRow]
    /\ attempt' = [attempt EXCEPT ![w] = 1]
    /\ outcome' = [outcome EXCEPT ![w] = "none"]

Disturb == disturbed < MaxDisturb /\ disturbed' = disturbed + 1

\* A write or a read of rows that somebody is claiming is a race.
Races(is) == IF \E i \in is : BeingClaimed(i) THEN Disturb ELSE UNCHANGED disturbed

\* w is done with its task; a lapse of the lock is over with the last of those
\* who ran under it.
LeavesTask(w) ==
    LET t == TaskOf[job[w]] IN
    lapsed' = IF \E u \in Workers \ {w} : Executing(u, t) THEN lapsed
              ELSE lapsed \ {t}

-----------------------------------------------------------------------------
(***************************************************************************)
(* The services that create and cancel work.                               *)
(***************************************************************************)
\* create_work_item, committed by enqueue_work_item.  created_at grows.
Create(i) ==
    /\ item[i].status = "absent"
    /\ \A j \in Items : j < i => item[j].status # "absent"
    /\ item' = [item EXCEPT ![i].status = "queued"]
    /\ UNCHANGED <<lock, workerVars, cancelling, histories, disturbed>>

\* Mutant: the status of an item is not looked at.
CancellableAny(t) == {i \in Items : TaskOf[i] = t /\ item[i].status # "absent"}

Cancellable(t) ==
    {i \in Items : TaskOf[i] = t /\ item[i].status \in {"queued", "reclaimable"}}

Cancelled(is) ==
    [i \in Items |-> IF i \in is THEN [item[i] EXCEPT !.status = "cancelled"]
                     ELSE item[i]]

\* cancel_queued_work_items, with nothing between its SELECT and its UPDATE.
Cancel(t) ==
    /\ Cancellable(t) # {}
    /\ item' = Cancelled(Cancellable(t))
    /\ Races(Cancellable(t))
    /\ UNCHANGED <<lock, workerVars, cancelling, histories>>

\* The same with others in between.
CancelReads(t) ==
    /\ cancelling[t] = {} /\ Cancellable(t) # {}
    /\ cancelling' = [cancelling EXCEPT ![t] = Cancellable(t)]
    /\ Disturb
    /\ UNCHANGED <<item, lock, workerVars, histories>>

CancelWrites(t) ==
    /\ cancelling[t] # {}
    /\ item' = Cancelled(cancelling[t])
    /\ cancelling' = [cancelling EXCEPT ![t] = {}]
    /\ Races(cancelling[t])
    /\ UNCHANGED <<lock, workerVars, histories>>

\* prepare_pause_snapshot holds the task lock around its transaction.
ControllerLocks(t) ==
    /\ lock[t] = None
    /\ lock' = [lock EXCEPT ![t] = Controller]
    /\ Disturb
    /\ UNCHANGED <<item, workerVars, cancelling, histories>>

ControllerUnlocks(t) ==
    /\ lock[t] = Controller
    /\ lock' = [lock EXCEPT ![t] = None]
    /\ UNCHANGED <<item, workerVars, cancelling, histories, disturbed>>

-----------------------------------------------------------------------------
(***************************************************************************)
(* One turn of the worker.                                                 *)
(***************************************************************************)
\* The SELECT of claim_work_item.
Select(w) ==
    /\ pc[w] = "idle"
    /\ \E i \in Items :
          /\ Oldest(i)
          /\ job' = [job EXCEPT ![w] = i]
          /\ seen' = [seen EXCEPT ![w] = item[i]]
          /\ Races({i})
    /\ pc' = [pc EXCEPT ![w] = "selected"]
    /\ UNCHANGED <<item, lock, attempt, outcome, cancelling, histories>>

\* Its UPDATE: the attempt counts from the row that was read, and the status
\* is written only when it was not already "leased".
Claim(w) ==
    LET i == job[w]
        again == seen[w].status \in {"leased", "reclaimable"} \/ seen[w].lease # "none"
        n == IF again THEN Next1(seen[w].attempt) ELSE seen[w].attempt IN
    /\ pc[w] = "selected"
    /\ item' = [item EXCEPT
          ![i].status = IF seen[w].status = "leased" THEN @ ELSE "leased",
          ![i].lease = "live",
          ![i].attempt = IF again THEN n ELSE @]
    /\ attempt' = [attempt EXCEPT ![w] = n]
    /\ seen' = [seen EXCEPT ![w] = NoRow]
    /\ pc' = [pc EXCEPT ![w] = "claimed"]
    /\ UNCHANGED <<lock, job, outcome, cancelling, histories, disturbed>>

\* Mutant: SET without NX.
LockAnyway(w) ==
    /\ pc[w] = "claimed"
    /\ job[w] \notin Unsupported
    /\ lock' = [lock EXCEPT ![TaskOf[job[w]]] = w]
    /\ pc' = [pc EXCEPT ![w] = "running"]
    /\ UNCHANGED <<item, job, seen, attempt, outcome, cancelling, histories, disturbed>>

\* dispatch_work_item knows the activity and the task lock is free.
Lock(w) ==
    LET t == TaskOf[job[w]] IN
    /\ pc[w] = "claimed"
    /\ job[w] \notin Unsupported
    /\ lock[t] = None
    /\ lock' = [lock EXCEPT ![t] = w]
    /\ pc' = [pc EXCEPT ![w] = "running"]
    /\ UNCHANGED <<item, job, seen, attempt, outcome, cancelling, histories, disturbed>>

\* Redis cannot be reached: the lock is taken in the table of the process,
\* which knows nothing of the locks of other processes.
LockInMemory(w) ==
    /\ RedisFails /\ Disturb
    /\ pc[w] = "claimed"
    /\ job[w] \notin Unsupported
    /\ pc' = [pc EXCEPT ![w] = "running"]
    /\ lapsed' = lapsed \cup {TaskOf[job[w]]}
    /\ UNCHANGED <<item, lock, job, seen, attempt, outcome, cancelling, executed>>

\* The task lock is held: the dispatch returns "locked" and did nothing.  In
\* the table of the process it is an entry whose release went to Redis.
LockMiss(w) ==
    /\ pc[w] = "claimed"
    /\ job[w] \notin Unsupported
    /\ \/ lock[TaskOf[job[w]]] # None /\ UNCHANGED disturbed
       \/ RedisFails /\ Disturb
    /\ outcome' = [outcome EXCEPT ![w] = "locked"]
    /\ pc' = [pc EXCEPT ![w] = "reporting"]
    /\ UNCHANGED <<item, lock, job, seen, attempt, cancelling, histories>>

\* An activity dispatch_work_item does not know is ignored.
Ignore(w) ==
    /\ pc[w] = "claimed"
    /\ job[w] \in Unsupported
    /\ outcome' = [outcome EXCEPT ![w] = "ignored"]
    /\ pc' = [pc EXCEPT ![w] = "reporting"]
    /\ UNCHANGED <<item, lock, job, seen, attempt, cancelling, histories, disturbed>>

\* The execution commits and returns; a retryable failure committed nothing
\* that counts as the item's work.
Finish(w) ==
    /\ pc[w] = "running"
    /\ \E o \in {"ok", "failed", "retryable"} :
          /\ outcome' = [outcome EXCEPT ![w] = o]
          /\ executed' = IF o = "ok" THEN executed \cup {job[w]} ELSE executed
    /\ pc' = [pc EXCEPT ![w] = "releasing"]
    /\ UNCHANGED <<item, lock, job, seen, attempt, cancelling, lapsed, disturbed>>

\* release_lock: the GET, and in another step the DELETE.
CheckLock(w) ==
    /\ pc[w] = "releasing"
    /\ \/ lock[TaskOf[job[w]]] = w
          /\ pc' = [pc EXCEPT ![w] = "deleting"]
          /\ UNCHANGED lapsed
       \/ lock[TaskOf[job[w]]] # w
          /\ pc' = [pc EXCEPT ![w] = "reporting"]
          /\ LeavesTask(w)
    /\ UNCHANGED <<item, lock, job, seen, attempt, outcome, cancelling, executed, disturbed>>

DeleteLock(w) ==
    /\ pc[w] = "deleting"
    /\ lock' = [lock EXCEPT ![TaskOf[job[w]]] = None]
    /\ pc' = [pc EXCEPT ![w] = "reporting"]
    /\ LeavesTask(w)
    /\ UNCHANGED <<item, job, seen, attempt, outcome, cancelling, executed, disturbed>>

\* Redis cannot be reached for the GET or the DELETE: what it holds stays there
\* until it expires.
ReleaseInMemory(w) ==
    /\ RedisFails /\ Disturb
    /\ pc[w] \in {"releasing", "deleting"}
    /\ pc' = [pc EXCEPT ![w] = "reporting"]
    /\ LeavesTask(w)
    /\ UNCHANGED <<item, lock, job, seen, attempt, outcome, cancelling, executed>>

\* release_work_item_for_reclaim.
Reclaimed(row) ==
    [row EXCEPT !.status = "reclaimable", !.lease = "none"]

\* Mutants: a missed lock is taken for a processed item; a failure is retried
\* without end.
GivesBackFailuresOnly(w) == outcome[w] = "retryable" /\ attempt[w] <= MaxRetry
GivesBackAlways(w) == outcome[w] \in {"locked", "retryable"}

GivesBack(w) ==
    \/ outcome[w] = "locked"
    \/ outcome[w] = "retryable" /\ attempt[w] <= MaxRetry

\* The end of run_worker_once: give the item back, or update_work_item.
Report(w) ==
    LET i == job[w] IN
    /\ pc[w] = "reporting"
    /\ item' = [item EXCEPT ![i] =
          IF GivesBack(w) THEN Reclaimed(@)
          ELSE [@ EXCEPT !.status = IF outcome[w] \in {"failed", "retryable"}
                                    THEN "failed" ELSE "completed"]]
    /\ Races({i})
    /\ TurnOver(w)
    /\ UNCHANGED <<lock, cancelling, histories>>

WorkerStep(w) ==
    \/ Select(w) \/ Claim(w)
    \/ Lock(w) \/ LockInMemory(w) \/ LockMiss(w) \/ Ignore(w)
    \/ Finish(w) \/ CheckLock(w) \/ DeleteLock(w) \/ ReleaseInMemory(w)
    \/ Report(w)

-----------------------------------------------------------------------------
(***************************************************************************)
(* Crashes and time.  A process that dies leaves its lease and its lock to *)
(* expire; its open transaction is rolled back.  A lease or a lock that a  *)
(* live process still relies on expires only when work may outlive it.     *)
(***************************************************************************)
Crash(w) ==
    /\ pc[w] # "idle"
    /\ TurnOver(w)
    /\ LeavesTask(w)
    /\ Disturb
    /\ UNCHANGED <<item, lock, cancelling, executed>>

ExpireLease(i) ==
    /\ item[i].lease = "live"
    /\ \/ ~Worked(i) /\ UNCHANGED disturbed
       \/ Worked(i) /\ WorkOutlivesLease /\ Disturb
    /\ item' = [item EXCEPT ![i].lease = "expired"]
    /\ UNCHANGED <<lock, workerVars, cancelling, histories>>

\* The lock lives 120 s and nothing renews it.
ExpireLock(t) ==
    /\ lock[t] \in Workers
    /\ \/ ~Guarded(t) /\ UNCHANGED <<lapsed, disturbed>>
       \/ Guarded(t) /\ WorkOutlivesLease /\ Disturb /\ lapsed' = lapsed \cup {t}
    /\ lock' = [lock EXCEPT ![t] = None]
    /\ UNCHANGED <<item, workerVars, cancelling, executed>>

Next ==
    \/ \E i \in Items : Create(i) \/ ExpireLease(i)
    \/ \E t \in Tasks :
          \/ Cancel(t) \/ CancelReads(t) \/ CancelWrites(t)
          \/ ControllerLocks(t) \/ ControllerUnlocks(t) \/ ExpireLock(t)
    \/ \E w \in Workers : WorkerStep(w) \/ Crash(w)

(***************************************************************************)
(* The worker loop polls and its steps end; time passes, so what a dead    *)
(* process left behind expires; an API handler finishes.                   *)
(***************************************************************************)
Fairness ==
    /\ \A w \in Workers : WF_vars(WorkerStep(w))
    /\ \A i \in Items : WF_vars(ExpireLease(i))
    /\ \A t \in Tasks : WF_vars(ExpireLock(t)) /\ WF_vars(ControllerUnlocks(t))

Spec == Init /\ [][Next]_vars
FairSpec == Spec /\ Fairness

-----------------------------------------------------------------------------
(***************************************************************************)
(* Properties.                                                             *)
(***************************************************************************)

\* Two workers execute the same task at the same time only after a lock ended
\* under a live execution or Redis was not there, and only until those who ran
\* then are done: the task lock (coordination.py:163-190) covers every other
\* execution, across crashes, racing claims, the two steps of a release and
\* API handlers taking it.
TaskExclusive ==
    \A u, w \in Workers :
        /\ pc[u] = "running" /\ pc[w] = "running"
        /\ TaskOf[job[u]] = TaskOf[job[w]]
        => u = w \/ TaskOf[job[u]] \in lapsed

\* An item is marked completed only after an execution of it committed: a
\* missed lock, a crash, a lost lease or a second claimer never passes for
\* work that was done (registry.py:284-336).
CompletedMeansExecuted ==
    \A i \in Items \ Unsupported :
        item[i].status = "completed" => i \in executed

\* Once the races, crashes and failures stop, every accepted item comes to an
\* end and stays there, in spite of the copies of a row they left behind, of
\* expired leases, missed locks and retries.
EveryItemSettles ==
    \A i \in Items : item[i].status # "absent" ~> [](item[i].status \in Terminal)

\* The rows implement the at-least-once queue that enqueuers can rely on: a
\* claim, a report or a cancel may undo what another wrote, but only for a row
\* it read while open, a claim once and a report once, and what nobody has in
\* hand any more is over for good (task.py:629-709).
StateOf(i) ==
    CASE item[i].status = "absent" -> "absent"
      [] item[i].status \in Terminal -> item[i].status
      [] OTHER -> "open"
state == [i \in Items |-> StateOf(i)]
reads == [i \in Items |-> {w \in Workers : job[w] = i /\ pc[w] = "selected"}]
claims == [i \in Items |-> {w \in Workers : job[w] = i /\ pc[w] # "selected"}]
cancels == UNION {cancelling[t] : t \in Tasks}
Promise == INSTANCE AtLeastOnceQueue WITH Ignored <- Unsupported
ImplementsAtLeastOnce == Promise!Spec
=============================================================================
