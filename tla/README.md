# Verification of Project Yggdrasil's runtime

This directory holds TLA+ specifications of the parts of Project Yggdrasil that
decide *who runs what, when, and from which state*: the worker and its durable
queue, the control plane of a task, the work tree an agent closes step by step,
the loop of model and tools with its budget, the scheduler of forks, the versions
of the memory tree, the outbox of events and the keyed write queue.  TLC checks
them on small instances; TLAPS proves the properties that matter most for every
value of the constants.

Paths below are relative to the repository.  `rk/` stands for
`packages/python-sdk/src/yggdrasil_sdk/runtime_kernel/`, `persistence/`,
`llm_runtime/` and `collaboration_runtime/` for the directories of these names
beside it, `registry.py` for `services/worker/src/yggdrasil_worker/registry.py`.

Contents: 1 the system, 2 its hard parts, 3 the modules, 4 the checks, 5 the
proofs, 6 what the code does otherwise than its documents say, 7 what is left
out, 8 the plan, 9 how to run it.

---

## 1. The system

Yggdrasil runs agents on long tasks.  A user creates a task and drives it
through an API (`core-api`, `agent-runtime`): start, pause, resume, cancel,
retry, approve, ask for a revision.  The API never executes anything: it writes
rows and queues a work item.  A worker process polls the queue, takes a lock on
the task in Redis, runs one *turn* of the agent (a window of model and tool
calls) in a single database transaction and writes what follows: the task's new
status, a snapshot, the next work item, or a batch of forks.  Postgres holds
the truth, Redis holds locks and wake-ups, the file system holds the manifests
of snapshots.

| Component | Source | State | Operations | Correct when |
|---|---|---|---|---|
| Keyed write queue | `persistence/write_queue.py` | a lock and a count of users per key | `run_serialized_write` | writes of a key exclude each other; the registry neither leaks nor drops an entry in use; a waiter is not forgotten |
| Durable work queue and worker loop | `registry.py`, `main.py`, `persistence/repositories/task.py` | rows `runtime_work_items`: status, lease, attempt | create, claim, dispatch, report, reclaim, cancel | every accepted item ends; "completed" means executed; what ended and nobody holds stays so |
| Task lock, wake-ups | `persistence/coordination.py` | Redis keys with a time to live | acquire, release, enqueue and read wake-ups | one execution of a task at a time |
| Task control plane | `rk/execution_control.py` | rows `tasks`, `task_snapshots`, `task_resume_attempts` | start, retry, resume, pause, cancel, save, approve, revise | what is accepted is carried out; one resume at a time; a cancelled task is over |
| Worker turn and its end | `rk/execution_loop/worker.py`, `transitions.py` | the same rows, in one transaction | execute, deliver, pause, fail, continue, stop for budget or shutdown | a queued task has work; a snapshot is resumed to its end once, but for what the exception handler revives |
| Pause snapshots | `rk/snapshot.py` | snapshot rows and manifests | prepare, save pending tool calls, save, block | the active snapshot can be used; what a user saved is kept |
| Fork runtime and work tree | `rk/fork_runtime.py`, `rk/work_tree_graph.py` | rows `agent_runs`; a copy of the work tree in each fork's item | ready set, batch, merge, next batch | a limit on open forks; one fork per child; dependencies first; no child forgotten, no child done twice |
| Takeover protocol | `rk/takeover.py`, `rk/execution_loop/state_memory.py`, `transitions.py` | the work tree, copied into queued items and into a file per run | the directives of an answer, delivery, gates, approval, revision, report of a sub-agent | nothing is put up for approval while a node is open; gates cannot be walked around |
| Model invocation | `llm_runtime/invoke.py`, `core.py`, `rk/snapshot.py` | a conversation in memory; a checkpoint in a snapshot; the budget on the task row | ask, call tools, repeat, conclude, checkpoint, resume, charge | rounds and tokens are counted through pauses; the budget is overshot by one answer at most; a call is repeated only when its window was rolled back |
| Node versions and the memory tree | `persistence/repositories/memory.py` | nodes, versions, edges, counters | create, append version, append log entry, forget, link | versions numbered without gap; what is lost can be seen |
| Outbox events | `persistence/eventing.py`, `repositories/platform_core.py` | rows `outbox_events`; a JetStream stream | record, claim, publish, mark, consume, acknowledge | an event called published was sent; none is forgotten |
| Snapshot store | `rk/snapshot_store.py` | files written once under fresh ids | write, read, verify | what a row refers to exists |
| Coordination fallback | `persistence/coordination.py` | a lock table per process | as the Redis lock | as the Redis lock |
| Module platform | `persistence/module_platform.py`, `services/module-host` | module and binding rows | install, enable, bind, quarantine, hook | bindings refer to enabled modules |
| Collaboration | `collaboration_runtime/` | branches, pull requests, mailboxes | launch and report of a sub-agent, review, merge | a branch is merged once |
| Data governance, evaluation, prompts, assets | see PROJECT.json | rows of their own | mostly single inserts and updates | – |
| Tools, MCP, prompting, observability, web | see PROJECT.json | none, or none that is shared | – | – |

**How they interact.**

    API handler ── writes task row, creates item ──▶ Postgres ◀── claims item ── worker
        │                                              ▲                          │
        └── task lock (pause, cancel only) ──▶ Redis ◀─┼── task lock (each turn) ─┤
                                                       │                          ▼
                       item of a fork, next item ──────┴──── one transaction: the turn

* A handler reads the task row, decides, and writes later in the same session.
  SQLAlchemy writes the columns that differ from what was *read*.  The first
  write of a row takes its lock until the transaction ends.
* A turn updates the task row before it invokes the model, so it holds the row's
  lock for as long as the model takes.  Handlers read the old row meanwhile, and
  wait when they write.
* The item is reported in another transaction, after the turn's has committed.
* The item of a fork carries a *copy* of the work tree; the worker merges into
  this copy and plans the next batch from it and from the rows of all runs.
* Writes that allocate (versions, bootstrap of a workspace) go through the keyed
  queue of the process, some inside others.  The queue is left when the write is
  flushed; the transaction, and with it every row lock, goes on.
* A window works on the copy of the work tree in its item's payload and leaves it
  in the file of its run; approval, revision and the report of a sub-agent read and
  write the file of the latest run, before their transaction commits.
* A pause between two rounds puts the conversation into a snapshot; the window of
  the resume continues it.  Tokens are charged when a window ends.
* Every transaction may record an event.  Publishing and consuming are requests
  to the module host, which somebody has to make.

---

## 2. What is hard

The complete list, each at its line, is in `PROJECT.json` under `hazards`.

* **Stale decisions.**  Between a handler's read and its write a whole turn, or
  another request, may commit (`execution_control.py:321`, `:367`).
* **Two transactions per execution.**  The turn commits, then the item is
  reported; the worker may die in between (`registry.py:323`).
* **Handlers of several transactions.**  A pause is three (`:361`).
* **Leases and locks with a time to live**, given back without comparing the
  owner in one step (`coordination.py:180`), or not at all when a process dies.
* **Claims and cancels in two steps**, a SELECT and an UPDATE by primary key with
  neither a row lock nor a compare (`task.py:637-656`, `:677-693`), so that two
  workers may hold one item and an item that ended may be opened again.
* **Clean-up after an exception** that does not look at what the rows have
  become (`worker.py:2008`), or that marks the latest run instead of its own
  (`worker.py:2065`).
* **Copies**: each fork plans from a tree that knows nothing of its siblings'
  results (`fork_runtime.py:202`).
* **Reference counts** that decide when a lock object may be dropped
  (`write_queue.py:34`).
* **Reads before the lock**: a node is read, the queue is waited for, and what was
  read is written back (`memory.py:257`); numbers are taken by two processes and
  refused by a constraint (`memory.py:193`); the queue is held while a row lock
  is waited for (`memory.py:179`).
* **Long legal sequences**: a node created, reopened or failed under one that is
  closed later (`takeover.py:1264`), a gate met again and again
  (`transitions.py:476`), a pause in the middle of a conversation and another in
  the window that resumes it (`invoke.py:423`), a window that is rolled back after it
  executed the calls of its checkpoint (`worker.py:2006`).
* **Numbers in two places**: what this window used and what the task row says
  was used before (`core.py:185`).
* **Claims that outlive their claimer**: events committed as `publishing` before
  anything is sent (`eventing.py:262`), claimed twice and marked late
  (`platform_core.py:543`); and no claims at all while the bus is away
  (`eventing.py:254`).

---

## 3. The modules

Every action is a whole handler or a whole transaction of one: the points where
others may come between are the commits (`session_scope`,
`persistence/database.py:77-90`; there is no other), the Redis calls, and, inside
a claim, the gap between SELECT and UPDATE.  `PROJECT.json` gives the source
lines of every definition.

| Module | What it is |
|---|---|
| `KeyedOperationQueue` | `_KeyedOperationQueue` |
| `AtLeastOnceQueue` | abstract: items are read while open, claimed, executed, returned and cancelled; what others may undo, and what nobody may |
| `WorkQueue` | work item rows, the worker's cycle, the task lock; refines `AtLeastOnceQueue` |
| `TaskControl` | one task between its handlers and the turns of a worker |
| `ForkScheduler` | the forks of one task under one parent node |
| `Takeover` | the work tree of one task through windows, approvals, revisions and reports |
| `ModelInvocation` | the rounds of model and tools, the budget, the checkpoint of a pause |
| `NodeVersions` | the nodes of a branch, their versions and counts, written by sessions |
| `Outbox` | the rows of events, their publishers, the stream and its consumers |
| `MC…` | definitions of the small instances |
| `…Proofs` | the theorems of a module |

### KeyedOperationQueue

`locks` and `refCounts` are `_locks` and `_ref_counts`; `owner` is who holds a
`threading.Lock`; `handle[t][k]` is the local variable `lock` of `acquire`;
`pc[t][k]` is where the thread is in it.  `Register` and `Unregister` are the two
sections of the meta lock, `Acquire` and `Release` the key's lock.  Lock objects
come from a pool, and a *fresh* one is an object nobody refers to: the module
can tell the old lock of a key from the new one, and that is the whole point.
A thread may be in several keys, as `Nests` allows; the code's nesting is that
of `ensure_branch_workspace`.  `Nests` is assumed to be a strict order: with a
cycle two threads would wait for each other, and no caller has one.

### WorkQueue

`item` holds the columns status, lease and attempt of the rows; a lease is
`none`, `live` or `expired`, time itself is not modelled.  `lock` is the Redis
key `task:{id}`.  `pc`, `job`, `seen`, `attempt` and `outcome` are the locals of
`run_worker_once`.  A turn of the worker is
`Select` → `Claim` → (`Lock` → `Finish` → `CheckLock` → `DeleteLock` | `LockMiss` |
`Ignore`) → `Report`.  Nothing holds the row between `Select` and `Claim`, as nothing
does in the code, and `Claim` writes what the SELECT read: the attempt is that
of `seen` plus one, and the status is written only when `seen` was not already
`leased`.  A cancel is one step (`Cancel`) or, when others come between its SELECT and
its UPDATE, two (`CancelReads`, `CancelWrites`).  A step that comes between the two of a
claim, or a cancel in two steps, counts as a disturbance (`Races`), which bounds how
often it happens and not when.  `Crash` forgets the locals and leaves the lease and the lock behind;
`ExpireLease` and `ExpireLock` end them, early if `WorkOutlivesLease`.
`ControllerLocks` is `prepare_pause_snapshot` taking the task lock.  With `RedisFails`
a call of the lock that cannot reach Redis is answered by the table of the
process: `LockInMemory` runs beside whoever holds the lock in Redis,
`ReleaseInMemory` leaves it there, and `LockMiss` also stands for a leftover entry of
that table.  `lapsed` is history: the tasks of which an execution under way has lost its
lock to time, or never had it in Redis, until those who ran then are done.

`AtLeastOnceQueue` is what is left of a queue when nothing is compared.  A worker
may claim an item it read while it was open, although the item has ended since, and
so open it again; a return writes over whatever is there; a cancel ends what it read
while it was open.  But each read gives one claim and each claim one return, nothing is
returned as completed without an execution, and an item that ended is over for good once
nobody has it in hand.

* `lease_owner` is written and never read, so it is not there.
* Attempts saturate at `MaxRetry + 1`: the code asks `attempt <= MaxRetry` only.
* Wake-ups are not state: `pop_work_item` claims again whether one came or not.
* Giving back and `update_work_item` are one commit each and one action.

### TaskControl

`task`, `snap`, `att`, `item` are the rows; `client[c]` is a handler between its
read and its write (`row` what it read, `change` what it wants, `op` which
write comes next); `turn` is the worker's turn, with `row` the task row as the
open transaction has it and `base` as its session read it.

* `Put(now, seen, new)` is what an UPDATE of a session does: the columns that
  differ between `seen` and `new` are written into `now`, the rest is left.
  Every lost update of the model comes from it, none is put in by hand.
* `RowFree` is the row lock: from `Execute` to the end of its transaction no
  handler commits a change of the task.  Postgres' READ COMMITTED lets it read
  the old row meanwhile.
* A request is a first action that reads and decides (`Start`, `Retry`,
  `Revise`, `Approve`, `Resume`, `Pause`, `Cancel`, `Save`), further ones for
  further transactions (`PreparePause`, `Reread`, `PrepareAudit`), and a
  `Commit…` that writes.
* A turn is `Claim`, `Load`, `Execute` or `Block`, one of the ends, and `Report`.
  The ends are the exits of `execute_main_agent_work_item`: `Deliver`,
  `DeliverAndContinue`, `DeliverPaused` (through `_finalize_execution_transition`
  and, for a resume, the clean-up after it), `StopForBudget`, `StopForShutdown`,
  `Fail`, `FailAndContinue`, and `Abort` for an exception, which may come at any point,
  also while a snapshot that is no longer fit is being refused.  Its handler runs in
  a transaction of its own: `Raise` when it knows of a resumed snapshot, which it makes
  restorable whatever it was, and `RaiseUnread` otherwise, also for a resume that had
  not read its snapshot yet.
* `ended` and `revived` are history: how often each snapshot was resumed from to the
  end, and how often `Raise` made it restorable when it was not fit.
* `prepare_pause_snapshot` that misses the task lock stores nothing and still
  returns an id: `Lost`.

### ForkScheduler

`run[r]` is the row of a fork run with its work item and the copy of the work
tree in the item's payload.  `Ready`, `Slots`, `Batches` are
`compute_parent_ready_set` and `plan_fork_batch`; `Merged` is the merge, into the
copy of the item.  `ExecuteAndMerge` is an execution that completes: it merges,
counts the active runs and launches the next batch, all in one transaction.
`ExecuteUnmerged` are the ends without a merge; `Abort` is the exception, which
marks `Latest`, the latest run of the task, and leaves its own run
`initializing`; `Crash` is a worker that dies between commit and report.
`executed` and `smooth` are history variables for the properties.  A child is a
number, its priority.

### Takeover

`items[i]` is the payload of a queued continuation with the tree its window will
work on, `file` the tree that the latest run left, `child` a sub-agent and the run
it will report to.  A tree has the status and the parent of each node, the current
node, the status of tree and protocol, and whether hard gates stand unpassed.
A window is one step: it normalises the tree (`Normalize`), takes the verdict of the
verification hooks (`Finalize`), applies *one* of the directives the answer may
carry (`Enters`, `Skips`, `Completes`, `Fails`, `Updates`, `Creates`) or delivers
(`Delivers`), and ends as `_finalize_execution_transition` ends it (`Ends`, `Outcome`,
`Continuation`).  The answer and the verdict are choices.  Requests are `Start`,
`Approve`, `Revise`, `ReviseNode`, and `Launch` and `Report` of a sub-agent; `Commits`
lets the transaction of a request fail after its file was written.

### ModelInvocation

`turn` is what a window has in memory: the conversation, its usage, round and streak
of equal batches, the batches called and the pause flag as it read it.  `task` has
the status, the tokens charged (`used`), the budget (`total`) and the pending
actions of the active snapshot; `item` what is queued.  A batch of tool calls is a
number; `ran` counts its executions.  Actions are the points of the loop: the check
before a window (`RefuseForBudget`), `Begin`, the batch of a checkpoint
(`CallResumed`), the check before an answer (`AskRefused`), the answers and what each
leads to (`AnswerExceeds`, `AnswerText`, `AnswerRepeats`, `AnswerBeyondRounds`,
`AnswerBatch`, `Conclude`), the checkpoint (`Interrupt`, or `InterruptUnsaved`), the ends
(`EndExhausted`, `EndPaused`, `EndDone`), an invocation that raises
(`InvocationFails`), any other exception and a crash.
An exception the window does not handle rolls back what it wrote (`RollsBack`): a
resumed window leaves its checkpoint for another try, with the item given back while
retries last and the attempt active in any case; any other window has failed (`Raises`).
`RefuseForBudget`, where `_enforce_budget` raises, is such an exception.
Tokens and cost, which are checked alike, are one number.

* A checkpoint is only reached in the window that a resume starts: the flag a
  window reads is that of its beginning, and the request that starts one clears it.
* The flag of a shutdown is not there, since the function that should read it
  imports a name that does not exist and returns false (`core.py:19-25`).
* A window that was resumed with pending calls and pauses at its end keeps them in the
  new snapshot, executed and charged (`paid` marks them, `transitions.py:166`).  The clean-up
  of the resume then takes the active snapshot away (`Cleaned`), so no resume loads them;
  the end for the budget (`EndExhausted`) returns before that clean-up, and before the
  attempt is completed.
* `snap` and `attempt` of the task row say whether a resume finds a snapshot and whether it
  finds an active attempt, with which it is answered and queues nothing.
* `ran`, `undone` and `books` are history: how often each batch was executed, how many
  windows that had executed it were rolled back, and the tokens spent and lost.
* One exception handler runs after an exception and commits; a worker that dies after the
  commit of a window is `TaskControl`'s.

### NodeVersions

`row` and `versions` are the committed rows of `nodes` and `node_versions`, `queue` the
user of the write queue of each process (one branch, so one key; that it has one user
is `MutualExclusion` of `KeyedOperationQueue`), `sess` the sessions with what they read (`seen`), what
they have still to write and what they flushed (`mine`).  A write goes
`read` → `checked` → `waiting` → `inside` → `open`: the tool's own check, the lookup
before the queue, the queue, the UPDATEs one by one, the INSERT with the
constraint.  `Written` writes what the session computed from what it *saw*, into the
columns it changed.  A flushed row is locked until `Commit`, `Rollback`, `Refused` (the
unique constraint) or `Deadlocked` (Postgres aborts one session of a circle).  What a
version says is a set of entries, so that a lost one can be seen.

### Outbox

`record` is the row of an event, `pub` a request that publishes with the attempts
its SELECT gave it, `stream` and `unacked` what the bus would deliver or has
delivered, `con` a request that consumes.  `reachable` says whether
the bus and its stream answer; it changes at any time (`BusTurns`), and while it is
false a request claims nothing.  A claim is `Select` and `Claim`; each event is
then sent (`Publish`, whose acknowledgement may be lost, or `Unreachable`) and marked in a
transaction of its own.  `PublisherDies` leaves the rows as they were claimed: no code
looks for them.  The bus is modelled by what `nats-py` relies on: at least once,
again after a time-out or a `nak`.

### How they compose

`WorkQueue` is about many items and workers and knows nothing of what an
execution does; `TaskControl` is about one task's executions and takes from
`WorkQueue` that they exclude each other (`TaskExclusive`), that an item is
executed again after a crash, and that it ends.  `ForkScheduler` takes the same
from it.  `TaskControl` has one worker because of `TaskExclusive`; when
executions outlive the lock (section 6) this holds up to `lapsed` only, and what
`TaskControl` shows is about the executions outside of such lapses.  `Takeover` and `ModelInvocation` look into what `TaskControl` calls
a turn: one takes a window as one step and follows the tree, the other takes a
task as one row and follows the conversation; how requests overlap with a turn
stays `TaskControl`'s.  `NodeVersions` takes from `KeyedOperationQueue` that the queue of a key has one
user at a time and adds what the callers do around it.  They are not composed into
one state space: the product has no behaviour that matters and none of the parts
shows.

---

## 4. What TLC checks

| Run | Instance | States | Properties |
|---|---|---|---|
| `keyed_queue` | 3 threads, 2 nested keys, 3 lock objects | 3 thousand | `MutualExclusion`, `RegistryMatchesUsers`, `QueueMoves` |
| `work_queue_rows` | 2 workers, 2 items of one task and 1 of another, which is ignored, 1 retry, 2 disturbances out of crashes, races, early expiries, API locks and failures of Redis; workers symmetric | 1.8 million | `TaskExclusive`, `CompletedMeansExecuted`, `ImplementsAtLeastOnce` |
| `work_queue_settles` | the same over 2 items of one task, without symmetry | 456 thousand | `EveryItemSettles` |
| `task_control_overlap` | 2 handlers, 3 requests, 3 turns, 1 crash; 4 snapshots, 4 items, 2 attempts | 929 thousand | `QueuedHasWork`, `ResumedOnce`, `SavedKept`, `NoResurrection` |
| `task_control_serial` | 1 handler, 5 requests, 5 turns, 1 crash anywhere; handlers die | 760 thousand | `OneActiveAttempt`, `ActiveSnapshotUsable`, `CancelledIsOver` |
| `forks` | 3 children, one dependent, 3 slots of which 1 reserved, 1 crash, 12 runs | 105 thousand | `ForkLimit`, `OneForkPerChild`, `DependenciesExecuted`, `LaunchesEnd`, `AllChildrenExecuted` |
| `takeover` | 3 nodes, 5 windows and requests, 2 items queued at a time, 1 lost commit | 953 thousand | `AwaitingMeansDone`, `HardGatesHold`, `ClosingCoversSubtree`, `VerdictsKept`, `GatesGiveOneRetry`, `RevisionReachesWork` |
| `invocation` | 4 windows, 4 batches, 2 rounds and one beyond, answers of 1 or 2 of a budget of 7, 5 requests, 1 crash, exceptions anywhere | 7.4 million | `RoundsCounted`, `UsageIsOfConversation`, `SpentIsAccounted`, `OvershootBounded`, `ExecutedOnce` |
| `nodes` | 2 nodes, 2 requests of one process and a turn of another that writes twice | 197 thousand | `VersionsNumbered`, `LossIsRecorded`, `ContentMatchesHistory`, `SessionsEnd` |
| `outbox` | 2 events, 2 publishers, 1 consumer, limit 2, 1 death, a bus that goes away and comes back | 1.4 million | `PublishedWasSent`, `AttemptsBounded`, `NothingLostByAck`, `EventsSettle` |
| `task_control_repause`, `nodes_log` | as above | – | one documented property each that the code does not have (section 6) |

The type invariant of each module is proved (section 5).

### What the properties say

* **`MutualExclusion`, `RegistryMatchesUsers`.**  However the entry of a key is dropped
  and made again, two threads are never in its operations, and the count is exactly
  the number of registered threads.
* **`QueueMoves`.**  While somebody waits for a key, somebody enters it.  (Not
  everybody: `threading.Lock` is not fair and neither is the queue.)
* **`TaskExclusive`.**  Two workers are in a task at once only while it is `lapsed`:
  an execution outlived the 120 seconds of its lock, or Redis was not there.  Racing
  claims, crashes, API locks and the release in two steps never bring it about, and
  a lapse is over with the executions that ran under it.
* **`CompletedMeansExecuted`.**  Holds even when claims race, leases end early and
  Redis fails: lock misses, retries and lost claims never pass for work done.
* **`ImplementsAtLeastOnce`.**  The rows implement what enqueuers can rely on,
  racing claims and cancels included: what such a race may undo is bounded by who has
  the item in hand.  That an item which ended never opens again is *not* true of the
  code, and not claimed.
* **`EveryItemSettles`.**  Under fairness every accepted item ends and stays so, once the
  disturbances are over.  These include the races for a row, of which the instance
  has finitely many: were they to go on, two workers could claim one item in turn,
  each missing the lock the other has, for ever.
* **`QueuedHasWork`.**  A queued task has an open item or is being paused.  It
  spans the handlers' stale writes, the turns and the retries.
* **`ResumedOnce`, `NoResurrection`.**  Two attempts may exist for one snapshot
  (section 6).  Only one of them runs it to the end, but for one way, which is named: the
  exception handler of a turn sets the snapshot it was given restorable without looking
  (`worker.py:2008`).  When it does so to a snapshot that was consumed, superseded or
  archived, one more execution to the end is possible; no request, lease, delivery,
  clean-up or crash makes a used snapshot usable.
* **`SavedKept`.**  Nothing touches a snapshot a user saved.
* **`OneActiveAttempt`, `ActiveSnapshotUsable`, `CancelledIsOver`.**  Hold when
  requests and turns do not overlap, through handlers that die half-way and workers
  that die at any step, also between the commit of a turn and its report.
* **`ForkLimit`, `OneForkPerChild`, `DependenciesExecuted`.**  Hold through aborts
  that mark the wrong run and items that are merged twice, because active runs
  are read from the rows and not from the copies.
* **`LaunchesEnd`.**  Copies make completed children come back, but only a bounded
  number of times: each copy knows more than the one it came from.  Nine is the
  least bound for this instance.
* **`AllChildrenExecuted`.**  If every execution completes and is merged, all
  children are executed.  (After an abort nobody may be left to launch the rest;
  that is what the code does, and a user has to act.)
* **`AwaitingMeansDone`.**  In no copy is a tree put up for approval while a node
  of it is open, whatever was created, reopened or failed where, and whichever of
  the copies was approved, revised or reported to in between.
* **`ClosingCoversSubtree`, `VerdictsKept`.**  Closing a node closes or refuses what is
  below it, at any depth, and by no way turns a failure or a skip into a success.
* **`HardGatesHold`, `GatesGiveOneRetry`.**  A gate is in the answer's verdict, the count of
  retries in the payload of the next window: neither is lost between them.
* **`RevisionReachesWork`.**  A revision that names no node starts at open work or
  above some, although the current node of the file may have none.
* **`RoundsCounted`, `UsageIsOfConversation`.**  A conversation that was put away and
  restored knows its rounds and what it has cost, also when the window that restored it
  was rolled back and another restores it again.  (The code never restores a second
  checkpoint of one conversation: the attempt of a resumed window that ends in one stays
  active, section 6, and all checkpoints that are restored are of round 0.)
* **`SpentIsAccounted`, `OvershootBounded`.**  What the model cost is charged, waits to be, or
  went down with a window that failed or was rolled back (neither is charged), however
  often a checkpoint is refused and resumed; the budget is overshot by one answer at
  most, although nothing is checked after a forced answer.
* **`ExecutedOnce`.**  A batch is executed once, and once more for each window that
  executed it and was rolled back, by an exception or with its worker: the calls have
  happened, and the checkpoint they came from is resumed again (section 6).  Pauses,
  refusals, retries and continuations never repeat it.
* **`VersionsNumbered`, `LossIsRecorded`, `ContentMatchesHistory`.**  The code does lose
  entries (section 6).  What holds: numbers have neither gap nor double, though
  processes take them without a lock; a version that lost an entry is derived from
  one that did not have it, so the loss shows; and a node says what its newest
  version says.
* **`SessionsEnd`.**  Every write ends, by Postgres' help when row locks form a circle.
  It needs that of the sessions of one process only one writes more than once:
  otherwise one may hold the queue and wait for a row of another that waits for
  the queue, and nothing sees that circle.  The instance is chosen so; with two
  such sessions TLC finds it.
* **`PublishedWasSent`, `NothingLostByAck`.**  Hold through claims that overlap, lost
  acknowledgements and deaths on both sides.
* **`AttemptsBounded`.**  Two publishers that read the same row share one attempt
  beyond the limit: one returns to `pending` what the other would bury.  The bound is
  stated for two and is not claimed for more.
* **`EventsSettle`.**  If the bus stays from some time on, every event is published or a
  dead letter in the end and stays so, except those whose publisher died.  While it is
  away nothing is claimed and events wait as `pending`; a bus that stays away publishes
  and buries nothing.  Single requests may still be refused as often as they like.

### Bounds, and why they are enough

Every bound is a constant that a guard names.  Two workers and three items of
two tasks give every conflict between claims, locks and reports of one task and
the independence of another (that is ignored in this run); with one retry an item is tried twice, which is
when `attempt` matters; two disturbances give each pair of a race, a crash, an early
expiry and a failure of Redis, and the theorems hold for any number.
Two overlapping handlers are needed for a stale write and a third adds nothing:
writes are serialised and each compares with its own read only.  Three requests
are the least that pause, resume and interfere; the serial instance gets five
since the histories it is about are longer.  Four snapshots and items are enough
for these requests and turns: `Fresh` never runs out before the requests do in
the behaviours the properties are about, and a request that finds no free number
does not happen.  Three children give a batch, one that waits for a slot and one
that waits for another child; the tighter reserve makes the two limits differ.
Twelve runs are three more than the launches ever need.  Three nodes of a work tree
are the fewest with a grandchild and with siblings; two windows and a request reach
every pair of directive and end, the others make copies diverge.  Two rounds, a
threshold of two and a budget of seven make each of the three limits the first to
be reached in some behaviour; four windows and five requests give pause, resume, a
continuation, pause and resume, or a
resume that is rolled back and made again.  Two
nodes and two double writes give the circle of row locks, two processes the number
taken twice, a third writer the read between another's flush and commit.  Two
publishers and a limit of two give every overlap of a claim with a mark.

`CHECK_DEADLOCK FALSE` is set where bounds end behaviours, that is everywhere but
in `keyed_queue`, whose check includes the absence of deadlock between nested
keys.

### Fairness, and why the code justifies it

* Worker loop (`main.py:53-62`): a process polls for ever, and every step of its
  turn returns, so `WorkerStep(w)` is weakly fair, as is `Execute(r)` for forks.
* Time passes: what a dead process left expires (`ExpireLease`, `ExpireLock`), and an
  API handler releases its lock in a `finally` (`ControllerUnlocks`).
* Threads inside `acquire` run on; a free lock is given to *some* waiter.
* A session that writes goes on (`Step(s)`); beginning a write and rolling back
  are never owed.  That the database gives a freed row to a waiter and aborts one of a
  circle is part of `Step`.
* Publishing happens only when somebody asks the module host for it
  (`/events/publish`); `EventsSettle` says what happens if somebody always does
  (`PublisherStep(p)` is weakly fair) *and* the bus stays reachable from some time on: this
  is the premise `<>[]reachable`.  That a consumer comes is not assumed.
* That races for a row stop is a bound (`MaxDisturb`) in `work_queue_settles`, on which
  `EveryItemSettles` depends.
* `takeover` and `invocation` claim no liveness: their bounds end the behaviours.
* Nothing obliges a user to ask for anything, a worker to crash, or an item to be
  created.  No step is strongly fair.

### Mutants

Each module carries, next to the definitions they change, variants such as a
plausible bug would produce (`LockAnyway`: SET without NX; `PutAll`: every column
written; `FitWhenConsumed`; `UnregisterDropsEntry`; `SlotsUnreserved`; …).  Every
property of a passing run is violated by one of them; `PROJECT.json` says which.

---

## 5. What TLAPS proves

For every value of the constants that satisfies the module's assumption:

| Theorem | Statement | Under |
|---|---|---|
| `KeyedOperationQueueProofs!TypeCorrect` | `Spec => []TypeOK` | – |
| `…!WritesExclusive` | `Spec => []MutualExclusion` | – |
| `…!RegistryExact` | `Spec => []RegistryMatchesUsers` | – |
| `WorkQueueProofs!TypeCorrect` | `Spec => []TypeOK` | – |
| `…!CompletedWasExecuted` | `Spec => []CompletedMeansExecuted` | – |
| `…!OneExecutionPerTask` | `Spec => []TaskExclusive` | – |
| `…!QueueImplements` | `Spec => ImplementsAtLeastOnce` | – |
| `TaskControlProofs!TypeCorrect` | `Spec => []TypeOK` | – |
| `…!QueuedTaskHasWork` | `Spec => []QueuedHasWork` | `HandlersDie = FALSE` |
| `…!SavedSnapshotsKept` | `Spec => SavedKept` | – |
| `…!SnapshotsResumedOnce` | `Spec => []ResumedOnce` | – |
| `…!UsedStaysUsed` | `Spec => NoResurrection` | – |
| `ForkSchedulerProofs!TypeCorrect` | `Spec => []TypeOK` | – |
| `…!ForksWithinLimit` | `Spec => []ForkLimit` | – |
| `…!ForkPerChild` | `Spec => []OneForkPerChild` | – |
| `…!DependenciesFirst` | `Spec => []DependenciesExecuted` | – |
| `…!LaunchingEnds` | `Spec => []LaunchesEnd` | `RunBound >= Enough` |
| `ModelInvocationProofs!TypeCorrect` | `Spec => []TypeOK` | – |
| `…!RoundsCountedThrough` | `Spec => []RoundsCounted` | – |
| `…!SpentAccounted` | `Spec => []SpentIsAccounted` | – |
| `…!Overshoot` | `Spec => []OvershootBounded` | – |
| `…!CallsInBudget` | `Spec => []CallsWithinBudget` | – |
| `…!BatchesOnce` | `Spec => []ExecutedOnce` | – |
| `…!UsageCounted` | `Spec => []UsageIsOfConversation` | – |
| `NodeVersionsProofs!TypeCorrect` | `Spec => []TypeOK` | – |
| `…!NumberedThrough` | `Spec => []VersionsNumbered` | – |
| `…!LossRecorded` | `Spec => []LossIsRecorded` | – |
| `…!ContentMatches` | `Spec => []ContentMatchesHistory` | – |
| `…!CountsWithin` | `Spec => []CountsNeverExceed` | – |
| `TakeoverProofs!TypeCorrect` | `Spec => []TypeOK` | – |
| `…!ApprovalWaitsForAll` | `Spec => []AwaitingMeansDone` | – |
| `…!GatesHold` | `Spec => []HardGatesHold` | – |
| `…!ClosingCovers` | `Spec => ClosingCoversSubtree` | – |
| `…!VerdictsStand` | `Spec => VerdictsKept` | – |
| `…!GatesAreCounted` | `Spec => GatesGiveOneRetry` | – |
| `…!RevisionsReachWork` | `Spec => RevisionReachesWork` | – |
| `OutboxProofs!TypeCorrect` | `Spec => []TypeOK` | – |
| `…!PublishedReachedStream` | `Spec => []PublishedWasSent` | – |
| `…!AckLosesNothing` | `Spec => NothingLostByAck` | – |
| `…!AttemptsStayBounded` | `Spec => []AttemptsBounded` | – |

**The arguments.**

* *Write queue.*  `MutualExclusion` is not inductive: nothing in it says that two
  users of a key share a lock object.  `IInv` adds that a registered thread's
  lock is that of the entry, that entries of different keys differ, that the one
  inside owns it, and `RegistryMatchesUsers`, by which an entry lives as long as it has
  users.
* *Work queue.*  `EarnedInv`: an outcome `ok` in a worker's hands was earned by a
  committed execution, so a report of it is.  `LockInv`: who executes a task holds its
  lock until it has deleted it, unless the task has `lapsed`; so a lock is taken, and an
  earlier holder's deleted, beside a live execution in a lapse only, and the last of those
  who ran in one ends it.  The type invariant needs `SeenWasClaimed`: a claim that found
  `leased` is about a row that was claimed before, or its UPDATE, which then does not
  write the status, would leave a queued row with a lease.  The refinement maps the
  workers that selected an item to `reads` and those that claimed it to `claims`; locks,
  expiries and API locks are stutters.  It needs `EarnedInv`, for the returns, and that a
  cancel under way is about items of its own task (`CancelsOwn`), and no assumption
  about who comes between a SELECT and its UPDATE.
* *Queued tasks.*  `WorkInv` says, of a turn that is about to close its own item or
  to write back the status it read, that *another* item or a pause keeps the task
  alive; and `Intended` what the pending writes of the handlers can make of the
  status.  The case split is one lemma per request and per end of a turn.
* *Saved snapshots.*  `SavedInv`: no reference that anybody will write through (the
  task's, an item's, a handler's, the turn's) points to a saved snapshot.
* *Used snapshots.*  `UseInv`: from the start of its execution to its last write, what a
  turn resumes from is fit (`TurnIsFit`): nobody else may write it meanwhile, since
  superseding needs the task lock and a cancel archives only what was made for it
  (`AuditsOwn`).  `EndsCounted`: a snapshot has been resumed from to the end at most as
  often as an exception handler revived it, and once more if it is out of use now.  An
  end takes a fit snapshot out of use and adds one to both sides; a step that puts one
  back into use is `Raise`, which counts it; everything else lets what is out of use
  stay there (`Settled`), which is `NoResurrection`.
* *Forks.*  The first four rest on `Good`, which two lemmas keep: `LaunchGood` (a batch
  fits into the free slots, goes to children without an open fork and with
  completed dependencies; counting needs the numbers given out to be exactly as
  many as the batch has children) and `ChangeGood` (statuses change, no run
  becomes active).
* *Launching ends.*  A copy of the tree with k pending children plans a batch of at most
  `Fits(k)`, and a copy that merges one of these has one pending child less, so that
  `Launches[k] = Fits(k) * (1 + Launches[k - 1])` runs come of it.  `BoundInv`: the runs so far,
  what may come of every queued item and what each crash to come may repeat stay within
  `Enough`.  The sum over the items is not a fold but a witness, a sequence of partial
  sums that covers them (`Covers`): a merge takes an item's part out (`CoverFreed`) and its
  launch adds one per child (`CoverExtended`), a crash brings one item back (`CoverRaised`).
  `Enough` is 14 for the run's instance, where TLC finds nine to be the least bound.
* *Rounds, tokens, batches.*  Four invariants over one another's type.  `RoundInv`: a
  checkpoint's conversation has as many messages as its round says.  `BookInv`: besides
  the balance itself, a window that goes on is within the budget with all that its
  checkpoint brought (`Within`), and a checkpoint nobody has charged was taken within it;
  that is why one answer can overshoot and a second cannot.  A roll-back gives a resumed
  window's checkpoint back to what waits (`Parked`) and loses the rest.  `ExecInv`: a
  batch that is still to be executed, here or after a resume, was executed only by windows
  that were rolled back, and the window that has just executed it is not among them yet
  (`Undone`).  `UsageInv`: the usage is the cost
  of the conversation, and of the batch on top of it where one is asked for and not
  executed, in the window as in the checkpoint.  The cost is a fold of the community
  modules, which chooses a function that satisfies a recursion; that there is one, and
  that it adds the last message to the rest, is shown with least counterexamples
  (`FoldExists`, `FoldPrefix`), as the induction theorems of the library are out of reach.
* *Node versions.*  `IInv` follows a version from the read it is derived from to its
  commit.  Per session: what was flushed continues the committed numbers as long as
  the row is held (`FlushedFor`), what was seen is a state the node once had
  (`SeenFor`), the next number is at most one more than the newest (`NextFor`).  A number
  taken by two sessions is met by the later INSERT, which the constraint refuses;
  until then its row and its versions disagree, and `Between` says where.  The hard
  step is `Commit`, which makes one session's flush everybody's past.
* *Takeover.*  The invariant says of every copy of a tree that it is `Whole`: nodes are
  numbered as they were created (`Grown`), each but the root hangs on an older one, and
  all are finished if it is up for approval.  One lemma per operation shows that it
  keeps this, and what it closes: `Opens` (nothing) or `Steps` (only nodes with nothing
  unfinished below, and none that failed or was skipped).  That completing the root
  covers the tree needs that every node is below the root (`BelowRoot`): the least that
  is not would have its parent there.  A lemma per window then brings it to
  one form, `Brings`, from which all the properties follow; `Decided` says why a window
  that asks for no other cannot carry unpassed gates to an approval.
* *Outbox.*  `SentReached`: who had an acknowledgement for an event knows it in the stream,
  with a consumer, or handled; messages move between these three only.  `AttemptInv`: once
  an event is at the limit, at most one publisher still holds a copy of its row that
  would return it to `pending`, and after that nobody does; a publisher alone knows the
  row it writes.

`CallsWithinBudget` and `CountsNeverExceed` are proved and in no run.

**Assumptions** are the named `ASSUME`s of the modules (finite sets, numbered rows,
`None` distinct from everything, nested keys in order) and nothing else.

**Only model-checked.**  `OneActiveAttempt`, `ActiveSnapshotUsable` and `CancelledIsOver`: they
hold when requests and turns do not overlap, which the code does not ensure, so that a
theorem would be about a premise; the run shows which sequences they survive.  Liveness (`QueueMoves`, `EveryItemSettles`,
`AllChildrenExecuted`, `SessionsEnd`, `EventsSettle`), since the prover has neither fairness nor
ENABLED; and that nine is a bound of launches in the run's instance, below the one that is proved.

---

## 6. Where the code differs from its documents

Two runs are expected to fail; each has a finding in `PROJECT.json` with the text it
contradicts.

1. `task_control_repause` – pause, resume, and pause during the resumed turn: the
   clean-up of the resume clears `activeSnapshotId` right after the second pause set
   it (`worker.py:1984`).  The task is paused and cannot be resumed.
2. `nodes_log` – `append_memory_log_entry` looks the node up before the write queue and
   keeps the object, so that the second lookup, inside, returns the old content, and
   the queue is left before the transaction commits (`memory.py:257`): of two entries
   appended at once one remains.  A test says all are kept.

The models reach more of this kind, for which there is no run of its own:

* The result of an execution and the status of its item are committed apart
  (`registry.py:323`), so a crash in between repeats it.  The continuation contract asks
  for one transaction or an outbox
  (`docs/specs/task-pause-resume-continuation-contract-v0.1.md:443`).
* The task lock lives 120 seconds and is never renewed while a window makes several model
  calls (`worker.py:614`), and the lease of the item ends likewise: another worker may
  claim the item, or another of the task, and execute beside a live one.  These are the
  lapses that `TaskExclusive` allows and to which `TaskControl` does not extend.  A lock that
  is taken in the memory of a process while Redis is away has the same effect
  (`coordination.py:167`).
* A claim and a cancel write what they decided from an earlier read (`task.py:637-656`,
  `:677-693`): a claim opens an item again that was cancelled or reported in between, and a
  cancel overwrites the lease of one that was claimed.
* A worker dies between the commit of a resumed turn and its report; the item comes again
  with a consumed snapshot, and an exception while it is refused makes that restorable
  (`worker.py:2008`), so that the next resume runs it to the end once more.
  `docs/specs/runtime-domain-data-spec-v0.1.md:239` says a consumed snapshot is no entry of a
  resume again.  `ended[s] <= 1` fails so in the model; `ResumedOnce` counts the revivals.
* An attempt outlives its item; the next resume is answered with it and queues
  nothing (`execution_control.py:271`).  So after a resumed window that stopped for its budget
  or for a checkpoint (`worker.py:1416-1455`, `:1651-1706`), neither of which ends the attempt,
  the task is paused, has a restorable snapshot, and no resume continues it.
* An item of a start that was claimed or waiting when the task was paused runs the
  paused task without its snapshot (`worker.py:1130`), which line 234 of the contract
  forbids.
* Two children of a batch complete; the merge of the second works on a copy in which
  the first is pending and launches it again (`fork_runtime.py:202`).
* A verdict of the hooks that calls everything confirmed makes the task completed
  without approval (`takeover.py:1612`);
  `docs/development/MODULE_REPLAN_WORLDTREE_RUNTIME_V1_2026_06_01.md:19` forbids that.
* A task paused for its budget is resumed with a larger one: the resume branch does not
  write it to the row (`execution_control.py:245`), and the next window is refused
  (`worker.py:1072`).  The exception handler puts the task back to `paused` with its
  snapshot restorable and the attempt `queued`; nothing is lost.  But the refusal is retried
  with the same budget, and when the retries are used up the item is closed and the
  attempt stays active, so that further resumes queue nothing.  A start or a retry, which
  would write the budget, refuses a paused task.  Line 166 of the contract says the resume
  continues.
* Any exception after a resumed window has executed the pending calls of its checkpoint
  (`worker.py:1584-1976`) rolls the window back and makes the checkpoint restorable
  (`:2006-2024`): the next resume executes the calls once more (`undone`).
* A window that was resumed with pending tool calls and pauses at its end saves the
  same calls again (`transitions.py:166`).  Only because the clean-up of the resume clears
  the active snapshot (item 1 above) does no resume execute them once more.
* The tokens of a window that fails or is rolled back are charged to nobody
  (`worker.py:1458-1575`, `:2004-2070`), and a
  forced answer after repeated calls is checked by nobody (`invoke.py:640-690`).
* While the bus or its stream is away `publish_pending` claims nothing
  (`eventing.py:251-259`), so that attempts do not count and nothing becomes a dead letter.
* `_is_shutdown_requested` imports a name that does not exist, and answers false
  (`core.py:19-25`).
* A publisher that dies leaves its events `publishing`, and no code looks for them
  (`eventing.py:262`).
* Two overlapping resumes both find no attempt and both create one
  (`task.py:536`): `OneActiveAttempt` fails with the constants of `task_control_overlap`.
  The next resume then raises, since it finds two.
* A handler that dies after the first transaction of a pause leaves a queued task
  without an item (`execution_control.py:361`): `QueuedHasWork` fails there with
  `HandlersDie = TRUE`.
* A start decided before a cancel commits re-queues the cancelled task
  (`execution_control.py:315`).
* A gate that withholds a delivery sets `resume-blocked` with no active snapshot, which
  no resume accepts (`transitions.py:657-660`, `:708`).
* An activity that is registered and not dispatched is closed as completed
  (`registry.py:240`).
* An aborted fork keeps its slot and its child for ever, and the run marked failed
  may be that of a sibling (`worker.py:2065`).

---

## 7. What is not modelled, and why

* **In WorkQueue**: the in-process fallback of the wake-ups, which are hints; the
  activity catalogue and the worker's reporting commands, which only read.
* **In TaskControl**: agent run rows, branch creation, side-channel events, mailbox
  wake-ups, standby and `pauseAfterWrite`: they write rows that none of the modelled
  decisions reads.  More than one worker (see section 3).  A database that fails
  inside `prepare_pause_snapshot` or in the exception handler (`worker.py:2070`).
* **In ForkScheduler**: forks of forks, the policies `manual` and `disabled` (they launch
  nothing by themselves), the assessment of frontiers and delivery readiness, and who
  launches the first batch: no code under `src/` other than tests calls
  `queue_fork_batch` for it.  Fewer than a hundred runs are assumed, the limit
  of `list_agent_runs`.
* **In KeyedOperationQueue**: the setting that switches the queue off.
* **In Takeover**: titles, summaries, evidence, frontiers, assessments; the frames of the
  context stack, which are the path to the current node; more than one directive in an
  answer, of which the code takes the first.
* **In ModelInvocation**: which calls of a batch succeed (the conversation has an answer
  to each either way), an exception handler that fails itself (`worker.py:2070`), retries
  inside one tool, routing between models, the audit
  files.
* **In NodeVersions**: branches other than one, search and ranking, merge proposals, and
  SQLite with its retries: the product's compose file runs Postgres.
* **In Outbox**: the envelopes and their files; subscriptions other than one.
* **Module platform.**  Installing, enabling, quarantining and synchronising modules read
  a row, decide and write it later, with no lock and no version.  What one would
  state of them (a quarantined module stays so, `docs/protocols/module-lifecycle-v0.1.md:124`)
  two overlapping requests of an operator violate: a stale row of a synchronisation
  overwrites a quarantine, the end of a consumption marks a quarantined module
  degraded.  What would hold of a model restates single writes, so there is none.
* **Branches and pull requests** (`collaboration_runtime/subagents.py:23-416`).  A review
  checks the status neither of the pull request nor of the branch, so that two reviews
  merge twice; the Git merge happens inside the database transaction and survives its
  rollback; two launches at once may both take a parent's last sub-agent
  (`context.py:594`, `:662`).  As above: the code has no protocol that a model could confirm.
* **Snapshot store.**  Files are written once, under ids nobody else has, before the row
  that names them is committed; deletion has no caller.  Without a second writer there
  is nothing to interleave.
* **The other components with status `not_modelled`** in PROJECT.json have no protocol:
  records, prompts, observability, scripts, evaluation suites, the web application.
  Most lines of the repository are of this kind (evaluation suites, the analysis of
  traces and the composition of prompts alone are a sixth of the implementation), and
  so are most of those in the files that are modelled: conversion of records,
  wording, metrics.  This is why the definitions cover about one line in nine.

---

## 8. Plan

All modules of the plan are written and checked, and what is not proved is listed at the
end of section 5.

Further models would be forks of forks in `ForkScheduler`, and the runs dropped for
others (section 6) if the code should change there.

---

## 9. Running

    tlc -workers 2 -config WorkQueue_rows.cfg MCWorkQueue
    tlapm WorkQueueProofs.tla

Each run of TLC takes from a second to three minutes, each proof module less than
three minutes.  PROJECT.json lists every run with its module and configuration.
