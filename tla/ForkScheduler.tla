---------------------------- MODULE ForkScheduler ----------------------------
(***************************************************************************)
(* Forks of one task (runtime_kernel/fork_runtime.py, the ready set of     *)
(* work_tree_graph.py and the fork branch of transitions.py).  A batch of  *)
(* children of one parent node is launched: a run and a work item each.    *)
(* The item carries a frozen copy of the work tree; the worker that        *)
(* executes it merges the result into this copy, not into the tree of the  *)
(* task, and plans the next batch from it and from the runs of the task.   *)
(*                                                                         *)
(* An execution is one transaction: the task lock, and behind it the lock  *)
(* of the task's row that it holds from before the model is invoked, keep  *)
(* the executions of a task apart.  The statuses "mounting" and "running"  *)
(* of a run are therefore never seen by another execution.  The report of  *)
(* the item is a transaction of its own that changes nothing read here: an *)
(* item that is executed has been reported, or its worker may yet die.     *)
(*                                                                         *)
(* External: who launches the first batch; the code leaves that to callers *)
(* of queue_fork_batch.  Fewer runs than list_agent_runs returns are       *)
(* assumed (100), and that the main run is not the latest of the task.     *)
(***************************************************************************)
EXTENDS Integers, FiniteSets

CONSTANTS
    Children,           \* children of the parent node, numbered by priority
    DependsOn,          \* child -> the children it depends on
    MaxForks,           \* ForkLaunchPolicy.max_forks
    Reserve,            \* ForkLaunchPolicy.reserve_parent_merge_slots
    MaxRuns,            \* bound: fork runs of the task
    RunBound,           \* how many of them the launches are claimed to need
    MaxCrash            \* bound: workers that die before they report

ASSUME ForkAssumption ==
    /\ Children \subseteq Nat /\ Children # {} /\ IsFiniteSet(Children)
    /\ DependsOn \in [Children -> SUBSET Children]
    /\ MaxForks \in Nat /\ Reserve \in Nat
    /\ MaxRuns \in Nat /\ RunBound \in Nat /\ MaxCrash \in Nat

VARIABLES
    run,                \* the fork runs with their items, in order of creation
    count,              \* how many runs there are
    executed,           \* history: children of which an execution completed
    smooth,             \* history: every execution completed and was merged
    crashes

vars == <<run, count, executed, smooth, crashes>>

Runs == 1 .. MaxRuns
RunStatuses == {"absent", "initializing", "completed", "failed", "paused"}
ItemStatuses == {"none", "queued", "executed", "cancelled"}
Trees == [Children -> {"pending", "completed", "failed"}]
Rows == [status : RunStatuses, child : Children, tree : Trees, item : ItemStatuses]

NoChild == CHOOSE x \in Children : TRUE
Unstarted == [x \in Children |-> "pending"]
NoRun == [status |-> "absent", child |-> NoChild, tree |-> Unstarted, item |-> "none"]

TypeOK ==
    /\ run \in [Runs -> Rows]
    /\ count \in 0 .. MaxRuns
    /\ executed \subseteq Children
    /\ smooth \in BOOLEAN
    /\ crashes \in 0 .. MaxCrash
    /\ \A r \in Runs : run[r].status # "absent" <=> r <= count
    /\ \A r \in Runs : run[r].status = "absent" => run[r] = NoRun

Init ==
    /\ run = [r \in Runs |-> NoRun]
    /\ count = 0
    /\ executed = {}
    /\ smooth = TRUE
    /\ crashes = 0

-----------------------------------------------------------------------------
(***************************************************************************)
(* The ready set and the batch.                                            *)
(***************************************************************************)
\* Mutant: a run that completed still takes a slot.
ActiveForGood(rows) == {r \in Runs : rows[r].status \in {"initializing", "completed"}}

Active(rows) == {r \in Runs : rows[r].status = "initializing"}

\* Mutants: the slots kept for the parent are given away; active runs are not
\* counted.
SlotsUnreserved(rows) ==
    LET free == MaxForks - Cardinality(Active(rows)) IN IF free > 0 THEN free ELSE 0

\* _available_fork_slots.
Slots(rows) ==
    LET free == MaxForks - Cardinality(Active(rows)) - Reserve IN
    IF free > 0 THEN free ELSE 0

\* Mutants: active children are not excluded; any terminal dependency counts as
\* completed.
ReadyAlsoActive(rows, tree) ==
    {x \in Children : /\ tree[x] = "pending"
                      /\ \A d \in DependsOn[x] : tree[d] = "completed"}
ReadyAfterFailures(rows, tree) ==
    {x \in Children : /\ tree[x] = "pending"
                      /\ \A r \in Active(rows) : rows[r].child # x
                      /\ \A d \in DependsOn[x] : tree[d] # "pending"}

\* The children _blocked_child lets pass.
Ready(rows, tree) ==
    {x \in Children : /\ tree[x] = "pending"
                      /\ \A r \in Active(rows) : rows[r].child # x
                      /\ \A d \in DependsOn[x] : tree[d] = "completed"}

\* plan_fork_batch: the first of the ready children, as many as there are slots.
Batches(ready, slots) ==
    {L \in SUBSET ready :
        /\ Cardinality(L) <= slots
        /\ L # ready => Cardinality(L) = slots
        /\ \A x \in L, y \in ready \ L : x < y}

Launched(x, tree) ==
    [status |-> "initializing", child |-> x, tree |-> tree, item |-> "queued"]

\* queue_fork_batch: a run and an item for each, in order, after these rows.
Launch(rows, L, tree) ==
    \E new \in [L -> (count + 1) .. (count + Cardinality(L))] :
        /\ \A x, y \in L : x < y => new[x] < new[y]
        /\ count + Cardinality(L) <= MaxRuns
        /\ count' = count + Cardinality(L)
        /\ run' = [r \in Runs |-> IF \E x \in L : new[x] = r
                                  THEN Launched(CHOOSE x \in L : new[x] = r, tree)
                                  ELSE rows[r]]

-----------------------------------------------------------------------------
(***************************************************************************)
(* The operations.                                                         *)
(***************************************************************************)
\* The first batch.
LaunchFirst ==
    /\ count = 0
    /\ \E L \in Batches(Ready(run, Unstarted), Slots(run)) : Launch(run, L, Unstarted)
    /\ UNCHANGED <<executed, smooth, crashes>>

Waiting(r) == run[r].item = "queued"

\* Mutant: the result is not put into the tree the next batch is planned from.
MergedNowhere(r, status) == run[r].tree

\* _merge_fork_result_into_work_tree, on the item's own copy of the tree.
Merged(r, status) == [run[r].tree EXCEPT ![run[r].child] = status]

\* The execution completed: its result is merged and, unless the parent has to
\* plan again, the next batch is launched.
ExecuteAndMerge(r) ==
    /\ Waiting(r)
    /\ \E status \in {"completed", "failed"}, replan \in BOOLEAN :
          LET rows == [run EXCEPT ![r].status = "completed", ![r].item = "executed"]
              tree == Merged(r, status) IN
          /\ IF replan THEN run' = rows /\ UNCHANGED count
             ELSE \E L \in Batches(Ready(rows, tree), Slots(rows)) :
                     Launch(rows, L, tree)
          /\ executed' = IF status = "completed"
                         THEN executed \cup {run[r].child} ELSE executed
          /\ smooth' = (smooth /\ status = "completed" /\ ~replan)
    /\ UNCHANGED crashes

\* The execution ends without a merge: the invocation failed, a pause was
\* requested, or a gate withheld the result.
ExecuteUnmerged(r) ==
    /\ Waiting(r)
    /\ \E status \in {"completed", "failed", "paused"} :
          run' = [run EXCEPT ![r].status = status, ![r].item = "executed"]
    /\ smooth' = FALSE
    /\ UNCHANGED <<count, executed, crashes>>

\* The run get_latest_agent_run gives the exception handler.
Latest == {q \in Runs : /\ run[q].status \notin {"absent", "paused"}
                        /\ \A p \in Runs : q < p => run[p].status \in {"absent", "paused"}}

\* The execution raised: its transaction is rolled back, and the handler marks
\* the task's latest run, which need not be this one.
Abort(r) ==
    /\ Waiting(r)
    /\ run' = [q \in Runs |->
                 [run[q] EXCEPT !.status = IF q \in Latest THEN "failed" ELSE @,
                                !.item = IF q = r THEN "executed" ELSE @]]
    /\ smooth' = FALSE
    /\ UNCHANGED <<count, executed, crashes>>

Execute(r) == ExecuteAndMerge(r) \/ ExecuteUnmerged(r) \/ Abort(r)

\* The worker died before it reported the item: the lease expires and the item
\* is executed again.
Crash(r) ==
    /\ run[r].item = "executed"
    /\ crashes < MaxCrash
    /\ crashes' = crashes + 1
    /\ run' = [run EXCEPT ![r].item = "queued"]
    /\ smooth' = FALSE
    /\ UNCHANGED <<count, executed>>

\* A pause or a cancel of the task cancels its queued items, not their runs.
CancelItems ==
    /\ \E r \in Runs : Waiting(r)
    /\ run' = [r \in Runs |-> [run[r] EXCEPT !.item = IF @ = "queued" THEN "cancelled" ELSE @]]
    /\ smooth' = FALSE
    /\ UNCHANGED <<count, executed, crashes>>

Next ==
    \/ LaunchFirst \/ CancelItems
    \/ \E r \in Runs : Execute(r) \/ Crash(r)

\* Workers take up queued items.
Fairness == \A r \in Runs : WF_vars(Execute(r))

Spec == Init /\ [][Next]_vars
FairSpec == Spec /\ Fairness

-----------------------------------------------------------------------------
(***************************************************************************)
(* Properties.                                                             *)
(***************************************************************************)

\* The open forks never exceed the policy's limit less the slots kept for the
\* parent, whichever executions plan batches, abort, or are repeated
\* (work_tree_graph.py:478-479, fork_runtime.py:212-240).
ForkLimit ==
    Cardinality(Active(run)) <= IF MaxForks > Reserve THEN MaxForks - Reserve ELSE 0

\* No two open forks work on one child, although every item plans from a copy
\* of the tree of its own (work_tree_graph.py:509).
OneForkPerChild ==
    \A q, r \in Active(run) : run[q].child = run[r].child => q = r

\* A child is launched only after every child it depends on was executed to
\* completion, however old the copy of the tree (work_tree_graph.py:545-559).
DependenciesExecuted ==
    \A r \in Runs : run[r].status # "absent" => DependsOn[run[r].child] \subseteq executed

\* Launching comes to an end, after RunBound runs at most: the copies of the
\* tree make completed children come back, but every copy knows more than the
\* one it was planned from (fork_runtime.py:202-241).
LaunchesEnd == count <= RunBound

\* When every execution completes and is merged, no child is forgotten: all
\* are executed, in spite of copies that know of some completions only.
AllChildrenExecuted ==
    <>(count > 0) /\ []smooth => <>(executed = Children)
=============================================================================
