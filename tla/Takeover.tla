------------------------------- MODULE Takeover -------------------------------
(***************************************************************************)
(* The takeover protocol of one task: its work tree as the windows of the  *)
(* worker grow, walk and close it (runtime_kernel/takeover.py), the        *)
(* directives a model's answer carries (execution_loop/state_memory.py),   *)
(* the end of a window (execution_loop/transitions.py) and the requests    *)
(* that approve or reopen the result (execution_control.py).               *)
(*                                                                         *)
(* The tree is kept in copies: each queued item carries the one its window *)
(* will work on, and each run leaves one in a file, which approval,        *)
(* revision and the report of a sub-agent read and write.  A window is one *)
(* transaction and one step here (what its overlap with requests does to   *)
(* the task row is TaskControl's); a file is written at once, the row only *)
(* if the transaction commits.                                             *)
(*                                                                         *)
(* Titles, summaries, evidence and the frames of the context stack, which  *)
(* are the path to the current node, are left out.  The answer of the      *)
(* model and the verdict of the verification hooks are choices.            *)
(***************************************************************************)
EXTENDS Integers, Sequences

CONSTANTS
    Nodes,          \* work-tree nodes, numbered as created
    Root,
    Plans,          \* the last node of the plans the hooks may give
    MaxSteps,       \* bound: windows of the worker, and starts, revisions, reports
    MaxLost,        \* bound: commits lost after the file was written
    MaxItems,       \* bound: items queued at a time
    None

ASSUME TakeoverAssumption ==
    /\ Nodes \subseteq Nat \ {0} /\ Root \in Nodes
    /\ \A n \in Nodes : Root <= n
    /\ Plans \subseteq Nodes
    /\ MaxSteps \in Nat /\ MaxLost \in Nat /\ MaxItems \in Nat
    /\ None \notin Nodes

VARIABLES
    task,           \* the status of the task
    items,          \* the payloads queued, the oldest first
    file,           \* the tree the latest run left, and what later writes made of it
    child,          \* a sub-agent and the file of the run that launched it
    windows, requests, lost

vars == <<task, items, file, child, windows, requests, lost>>
bounds == <<windows, requests, lost>>

-----------------------------------------------------------------------------
NodeStatuses == {"absent", "pending", "in-progress", "summarizing", "blocked",
                 "completed", "failed", "skipped"}
Finished == {"completed", "failed", "skipped"}
TreeStatuses == {"planned", "active", "summarizing", "verified",
                 "awaiting-approval", "completed", "failed"}
ProtocolStatuses == {"prepared", "executing", "verified", "completed",
                     "needs-clarification"}
TaskStatuses == {"draft", "queued", "awaiting-approval", "resume-blocked",
                 "completed", "failed"}

\* st, up: status and parent of each node; gated: hard gates stand unpassed.
Trees == [st : [Nodes -> NodeStatuses], up : [Nodes -> Nodes \cup {None}],
          cur : Nodes, tree : TreeStatuses, prot : ProtocolStatuses,
          gated : BOOLEAN]

ASSUME NoneIsNoTree == None \notin Trees

Present(w) == {n \in Nodes : w.st[n] # "absent"}
Kids(w, n) == {k \in Present(w) : w.up[k] = n}

\* The nodes under n: the least set that has its children and theirs.
Below(w, n) ==
    {d \in Nodes : \A S \in SUBSET Nodes :
        Kids(w, n) \cup UNION {Kids(w, k) : k \in S} \subseteq S => d \in S}

\* Mutant: only the children themselves.
JustKids(w, n) == {k \in Kids(w, n) : w.st[k] \notin Finished}

\* _node_unfinished_descendant_ids
Unfinished(w, n) == {d \in Below(w, n) : w.st[d] \notin Finished}

\* One root, and every other node hangs on an older one.
Sound(w) ==
    /\ w \in Trees
    /\ {Root, w.cur} \subseteq Present(w)
    /\ w.up[Root] = None
    /\ \A n \in Present(w) \ {Root} : w.up[n] \in Present(w) /\ w.up[n] < n

Payloads == [tree : Trees, asks : BOOLEAN, retries : 0 .. 1]
Launches == {"none", "latest", "older"}

TypeOK ==
    /\ task \in TaskStatuses
    /\ items \in Seq(Payloads) /\ Len(items) <= MaxItems
    /\ file \in Trees \cup {None}
    /\ child \in [run : Launches, tree : Trees \cup {None}]
    /\ windows \in Nat /\ requests \in Nat /\ windows + requests <= MaxSteps
    /\ lost \in 0 .. MaxLost
    /\ task # "draft" => items # << >> \/ file # None
    /\ child.run = "latest" => file # None
    /\ child.run = "older" => child.tree # None
    /\ \A i \in 1 .. Len(items) : Sound(items[i].tree)
    /\ file # None => Sound(file)
    /\ child.tree # None => Sound(child.tree)

NoChild == [run |-> "none", tree |-> None]

Init ==
    /\ task = "draft"
    /\ items = << >>
    /\ file = None
    /\ child = NoChild
    /\ windows = 0 /\ requests = 0 /\ lost = 0

-----------------------------------------------------------------------------
(***************************************************************************)
(* What is done to a tree.                                                 *)
(***************************************************************************)
ProtocolStatus(tree, prot) ==
    CASE tree = "completed" -> "completed"
      [] tree = "awaiting-approval" -> "verified"
      [] tree = "failed" -> "needs-clarification"
      [] OTHER -> IF prot \in {"needs-clarification", "prepared"} THEN prot
                  ELSE "executing"

\* normalize_takeover_runtime_state, which every window and every change runs.
Normalize(w) ==
    LET tree == IF w.tree = "planned" THEN "active" ELSE w.tree IN
    [w EXCEPT !.st[w.cur] = IF /\ @ = "pending"
                               /\ w.tree \notin {"awaiting-approval", "completed", "failed"}
                            THEN "in-progress" ELSE @,
              !.tree = tree,
              !.prot = ProtocolStatus(tree, w.prot)]

\* A change other than the last puts the tree to work again.
Working(w) == Normalize([w EXCEPT !.tree = "active", !.prot = "executing"])

\* build_task_takeover_protocol: a root and the steps of the plan, the nodes up
\* to last; a plan of one step is the root itself.
Seed(last, asks) ==
    LET steps == {n \in Nodes : Root < n /\ n <= last}
        first == {n \in steps : \A m \in steps : n <= m} IN
    [st |-> [n \in Nodes |-> IF n \in first \cup {Root} THEN "in-progress"
                             ELSE IF n \in steps THEN "pending" ELSE "absent"],
     up |-> [n \in Nodes |-> IF n \in steps THEN Root ELSE None],
     cur |-> CHOOSE n \in Nodes : n \in (IF steps = {} THEN {Root} ELSE first),
     tree |-> "planned",
     prot |-> IF asks THEN "needs-clarification" ELSE "prepared",
     gated |-> FALSE]

\* switch_current_work_node
Switch(w, n) ==
    Working([w EXCEPT !.st[n] = IF @ \in {"pending", "blocked"} THEN "in-progress" ELSE @,
                      !.cur = n])

\* update_work_node, of any node, a finished one too.
Update(w, n, status) == Working([w EXCEPT !.st[n] = status])

\* create_child_work_node, under p: the parent is taken up again.
Create(w, p, n, activate) ==
    Working([w EXCEPT !.st = [@ EXCEPT ![p] = "in-progress",
                                       ![n] = IF activate THEN "in-progress" ELSE "pending"],
                      !.up[n] = p,
                      !.cur = IF activate THEN n ELSE @])

\* Mutant: a node is skipped whatever is unfinished below it.
SkippableAnyway(w, n, confirmed) ==
    confirmed \/ \A d \in Below(w, n) : w.st[d] \notin Finished

\* Nothing unfinished is cleared away, and finished nodes only if confirmed.
Skippable(w, n, confirmed) ==
    /\ Unfinished(w, n) = {}
    /\ Below(w, n) = {} \/ confirmed

\* skip_work_tree_nodes: all of the nodes, or none.
Skip(w, which, confirmed) ==
    IF \A n \in which : Skippable(w, n, confirmed)
    THEN Working([w EXCEPT !.st = [n \in Nodes |-> IF n \in which THEN "skipped" ELSE w.st[n]],
                           !.cur = IF @ \in which THEN w.up[@] ELSE @])
    ELSE Normalize(w)

\* Mutant: a confirmation overrules what was decided about a node.
ClosesAll(w) ==
    [n \in Nodes |-> IF n \in Below(w, w.cur) \cup {w.cur} THEN "completed" ELSE w.st[n]]

\* The current node and what is unfinished below it.
Closes(w) ==
    [n \in Nodes |-> IF n \in Unfinished(w, w.cur) \cup ({w.cur} \ {m \in Nodes : w.st[m] \in Finished})
                     THEN "completed" ELSE w.st[n]]

\* complete_current_work_node refuses to leave work behind unless told to.
Completable(w, confirmed) == confirmed \/ Unfinished(w, w.cur) = {}

Complete(w) ==
    LET closed == Working([w EXCEPT !.st = Closes(w)]) IN
    IF w.up[w.cur] # None THEN Switch(closed, w.up[w.cur])
    ELSE Normalize([closed EXCEPT !.tree = "awaiting-approval", !.prot = "verified",
                                  !.cur = Root])

\* fail_current_work_node: what is below the node stays as it is.
FailCurrent(w) ==
    LET failed == [w EXCEPT !.st[w.cur] = "failed"] IN
    IF w.up[w.cur] # None THEN Switch(Working(failed), w.up[w.cur])
    ELSE Normalize([failed EXCEPT !.tree = "failed", !.prot = "needs-clarification"])

\* approve_takeover_completion
Approved(w) ==
    IF w.tree \in {"awaiting-approval", "completed"}
    THEN [w EXCEPT !.tree = "completed", !.prot = "completed", !.cur = Root]
    ELSE w

\* reopen_takeover_work_node_for_revision
Reopen(w, n) == Working([w EXCEPT !.st[n] = "in-progress", !.cur = n])

\* merge_child_takeover_completion_into_parent: the run waits at node n for its
\* parent to sum up.
Merge(w, n) ==
    [w EXCEPT !.st[n] = IF @ \in Finished \cup {"blocked"} THEN @ ELSE "summarizing",
              !.cur = n,
              !.tree = IF @ \in {"completed", "failed", "awaiting-approval"} THEN @
                       ELSE "summarizing",
              !.prot = IF @ = "completed" THEN @ ELSE "executing"]

\* finalize_task_takeover_protocol: the hooks' verdict on the window's answer,
\* unless the plan still has to be confirmed.
Verdicts == {"complete", "partial", "gated"}

Finalize(w, asks, verdict) ==
    LET status == IF verdict = "complete" THEN "completed" ELSE "verified" IN
    IF asks THEN [w EXCEPT !.prot = "needs-clarification"]
    ELSE [w EXCEPT !.tree = status, !.prot = status, !.gated = verdict = "gated"]

-----------------------------------------------------------------------------
(***************************************************************************)
(* Where a revision starts when it names no node: at the current node if a *)
(* child of it is open, at its parent if something else is open there, or  *)
(* at the parent of any open node.                                         *)
(***************************************************************************)
\* A failed node can be taken up again.
Open(w) == {n \in Present(w) : w.st[n] \notin {"completed", "skipped"}}
OpenUnder(w, n) == Open(w) \cap (Below(w, n) \cup {n})

Oldest(which) == {n \in which : \A m \in which : n <= m}

\* Mutant: a revision reopens the current node.
CurrentOnly(w) == {w.cur}

RevisionTargets(w) ==
    LET c == w.cur
        p == w.up[c] IN
    CASE Open(w) \cap Kids(w, c) # {} -> {c}
      [] p # None /\ ( \/ \E s \in Kids(w, p) \ {c} : OpenUnder(w, s) # {}
                       \/ p \in Open(w) ) -> {p}
      [] OpenUnder(w, c) # {} -> {c}
      [] Open(w) = {} -> {c}
      [] Open(w) = {Root} -> {Root}
      [] OTHER -> {w.up[n] : n \in Oldest(Open(w) \ {Root})}

-----------------------------------------------------------------------------
(***************************************************************************)
(* Requests.                                                               *)
(***************************************************************************)
Payload(w, asks, retries) ==
    [tree |-> w, asks |-> asks, retries |-> retries]

Requested ==
    /\ windows + requests < MaxSteps
    /\ requests' = requests + 1

Enqueue(payload) ==
    /\ Len(items) < MaxItems
    /\ items' = Append(items, payload)

\* queue_main_agent_execution, start and retry.  The first window builds the
\* tree from the request; nothing looks at it before.
Start ==
    /\ task \in {"draft", "queued", "awaiting-approval", "failed"}
    /\ Requested
    /\ \E last \in Plans, asks \in BOOLEAN :
          Enqueue(Payload(Seed(last, asks), asks, 0))
    /\ task' = "queued"
    /\ UNCHANGED <<file, child, windows, lost>>

\* The transaction of a request commits, or is lost after the file was written.
Commits(write) ==
    \/ /\ write
       /\ lost' = lost
    \/ /\ lost < MaxLost
       /\ lost' = lost + 1
       /\ UNCHANGED <<task, items>>

\* approve_task_completion
Approve ==
    /\ task = "awaiting-approval"
    /\ file' = Approved(file)
    /\ Commits(task' = "completed" /\ items' = items)
    /\ UNCHANGED <<child, windows, requests>>

Reopenable ==
    \/ task = "awaiting-approval"
    \/ task = "completed" /\ Open(file) # {}

Reopens(n) ==
    /\ Requested
    /\ file' = Reopen(file, n)
    /\ Commits(task' = "queued" /\ Enqueue(Payload(Reopen(file, n), FALSE, 0)))
    /\ UNCHANGED <<child, windows>>

\* request_task_revision, of a node it names or of where something is open.
Revise == Reopenable /\ \E n \in RevisionTargets(file) : Reopens(n)
ReviseNode == Reopenable /\ \E n \in Present(file) : Reopens(n)

\* A sub-agent is launched and remembers the latest run.
Launch ==
    /\ file # None
    /\ child.run = "none"
    /\ child' = [run |-> "latest", tree |-> None]
    /\ UNCHANGED <<task, items, file, bounds>>

\* _publish_subagent_completion_to_parent: the report is merged into the file
\* of the run that launched it, and wakes a task that is waiting its turn
\* (post_task_mailbox_message) with the tree of that file.
Report ==
    /\ child.run # "none"
    /\ Requested
    /\ LET seen == IF child.run = "latest" THEN file ELSE child.tree IN
       \E n \in Present(seen) :
          /\ file' = IF child.run = "latest" THEN Merge(seen, n) ELSE file
          /\ IF task = "queued"
             THEN Enqueue(Payload(Merge(seen, n), FALSE, 0))
             ELSE items' = items
    /\ child' = NoChild
    /\ UNCHANGED <<task, windows, lost>>

-----------------------------------------------------------------------------
(***************************************************************************)
(* The windows of the worker.                                              *)
(***************************************************************************)
Job == Head(items)
Loaded == Normalize(Job.tree)
Answered(verdict) == Finalize(Loaded, Job.asks, verdict)

Window ==
    /\ items # << >>
    /\ windows + requests < MaxSteps
    /\ windows' = windows + 1
    /\ UNCHANGED <<requests, lost>>

\* A run of its own: what a sub-agent remembers is no longer the latest.
NewRun ==
    child' = IF child.run = "latest" THEN [run |-> "older", tree |-> file] ELSE child

Outcome(status, w, next) ==
    /\ task' = status
    /\ file' = w
    /\ items' = Tail(items) \o next
    /\ NewRun

\* Mutant: the count of a gate's retries is not handed on.
ContinuationUncounted(w, retried) == Payload(w, FALSE, 0)

\* build_takeover_continuation_request: that a confirmation was asked for, and
\* the count of retries, are not among what it copies.
Continuation(w, retried) == Payload(w, FALSE, IF retried THEN 1 ELSE 0)

\* Mutant: hard gates are looked at only where the answer is a plain delivery.
StoppedInDelivery(w, move) == move = "gate"

\* Hard gates are those of the root, unless the window was a plain delivery.
Stopped(w, move) == move = "gate" \/ (w.gated /\ move # "bubble" /\ w.cur = Root)

\* The end of a window: a task goes on, waits for somebody, or is done.
Ends(changed, move, again) ==
    LET w == Normalize(changed)
        stopped == Stopped(w, move)
        retried == stopped /\ Job.retries < 1
        left == IF w.gated THEN [w EXCEPT !.prot = "needs-clarification"] ELSE w IN
    CASE w.prot = "needs-clarification" -> Outcome("awaiting-approval", left, << >>)
      [] w.prot # "needs-clarification" /\ stopped /\ ~retried ->
            Outcome("resume-blocked", left, << >>)
      [] w.prot # "needs-clarification" /\ (retried \/ (~stopped /\ again)) ->
            Outcome("queued", left, <<Continuation(w, retried)>>)
      [] OTHER ->
            IF w.tree = "awaiting-approval" THEN Outcome("awaiting-approval", left, << >>)
            ELSE IF w.gated THEN Outcome("resume-blocked", left, << >>)
            ELSE Outcome("completed", [w EXCEPT !.tree = "completed", !.prot = "completed"],
                         << >>)

\* The next number of a node.
FreshNode(w) == Oldest(Nodes \ Present(w))

Enters ==
    /\ Window
    /\ \E verdict \in Verdicts : LET w == Answered(verdict) IN
          \E n \in Present(w) : Ends(Switch(w, n), "directive", TRUE)

Updates ==
    /\ Window
    /\ \E verdict \in Verdicts : LET w == Answered(verdict) IN
          \E n \in Present(w) :
             \E status \in {"pending", "in-progress", "blocked", w.st[n]} :
                Ends(Update(w, n, status), "directive", TRUE)

\* One node, or two: the first becomes the current one.
Creates ==
    /\ Window
    /\ \E verdict \in Verdicts : LET w == Answered(verdict) IN
          \E p \in Present(w), n \in FreshNode(w) :
             LET one == Create(w, p, n, TRUE) IN
             \/ Ends(one, "directive", TRUE)
             \/ \E q \in Present(w), m \in FreshNode(one) :
                   Ends(Create(one, q, m, FALSE), "directive", TRUE)

Skips ==
    /\ Window
    /\ \E verdict \in Verdicts : LET w == Answered(verdict) IN
          \E which \in SUBSET (Present(w) \ {Root}) \ {{}}, confirmed \in BOOLEAN :
             Ends(Skip(w, which, confirmed), "directive", TRUE)

Moved(w) == IF w.up[w.cur] # None THEN "bubble" ELSE "delivery"

Completes ==
    /\ Window
    /\ \E verdict \in Verdicts, confirmed \in BOOLEAN : LET w == Answered(verdict) IN
          /\ Completable(w, confirmed)
          /\ Ends(Complete(w), Moved(w), w.up[w.cur] # None)

Fails ==
    /\ Window
    /\ \E verdict \in Verdicts : LET w == Answered(verdict) IN
          Ends(FailCurrent(w), Moved(w), w.up[w.cur] # None)

\* A directive that is malformed or cannot be applied, or that the request wants
\* and the answer only speaks of.
IsAskedForDirective ==
    /\ Window
    /\ \E verdict \in Verdicts : Ends(Answered(verdict), "directive", TRUE)

\* advance_takeover_after_delivery: no directive took effect.
Delivers ==
    /\ Window
    /\ \E verdict \in Verdicts : LET w == Answered(verdict) IN
          CASE w.prot = "completed" \/ w.tree = "completed" -> Ends(w, "delivery", FALSE)
            [] w.tree # "completed" /\ \E k \in Kids(w, w.cur) : w.st[k] \notin Finished ->
                  Ends(w, "orchestrate", TRUE)
            [] OTHER ->
                  IF w.gated THEN Ends(w, "gate", TRUE)
                  ELSE /\ Completable(w, FALSE)
                       /\ Ends(Complete(w), Moved(w), w.up[w.cur] # None)

\* The invocation fails or the window overflows (_mark_takeover_execution_failed).
InvocationFails ==
    /\ Window
    /\ LET w == FailCurrent(Loaded) IN
       IF w.tree = "failed" THEN Outcome("failed", w, << >>)
       ELSE Outcome("queued", w, <<Continuation(w, FALSE)>>)

\* The window raises, as a delivery does that finds work left deeper down: its
\* transaction is undone, and the tree it had is written to the file of the run
\* before it, failed.
Breaks ==
    /\ Window
    /\ \E w \in {Loaded} \cup {Answered(verdict) : verdict \in Verdicts} :
          file' = FailCurrent(w)
    /\ task' = "failed"
    /\ items' = Tail(items)
    /\ UNCHANGED child

Next ==
    \/ Start \/ Approve \/ Revise \/ ReviseNode \/ Launch \/ Report
    \/ Enters \/ Updates \/ Creates \/ Skips \/ Completes \/ Fails
    \/ IsAskedForDirective \/ Delivers \/ InvocationFails \/ Breaks

Spec == Init /\ [][Next]_vars

-----------------------------------------------------------------------------
(***************************************************************************)
(* Properties.                                                             *)
(***************************************************************************)
Copies == {file, child.tree} \cup {items[i].tree : i \in 1 .. Len(items)}

\* A tree is put up for approval only when every node of it is finished,
\* whatever was created, reopened, failed or closed by confirmation before
\* (complete_current_work_node, takeover.py:1264-1274).
AwaitingMeansDone ==
    \A w \in Copies \ {None} : w.tree = "awaiting-approval" => \A n \in Present(w) : w.st[n] \in Finished

\* A task waits for approval of its tree only if the hard gates of the last
\* answer were passed (transitions.py:435-480).
HardGatesHold ==
    task = "awaiting-approval" /\ file.tree = "awaiting-approval" => ~file.gated

\* A window that closes a node, as completed or as skipped, leaves nothing
\* unfinished below it (takeover.py:1137-1155, 1264-1274).
ClosingCoversSubtree ==
    [][windows' = windows + 1 =>
        \A n \in Nodes :
            /\ file'.st[n] \in {"completed", "skipped"}
            /\ Job.tree.st[n] # file'.st[n]
            => Unfinished(file', n) = {}]_vars

\* A node that failed or was skipped is not called completed without having
\* been taken up again (takeover.py:1283).
VerdictsKept ==
    [][windows' = windows + 1 =>
        \A n \in Nodes : Job.tree.st[n] \in {"failed", "skipped"} => file'.st[n] # "completed"]_vars

\* Gates that stay unpassed at the root give one more window, counted in what it
\* is handed, and only then stop the task: they never hand it round
\* (transitions.py:476-494, 580).
GatesGiveOneRetry ==
    [][windows' = windows + 1 =>
        /\ task' = "resume-blocked" => Job.retries = 1
        /\ Job.tree.cur = Root /\ file'.cur = Root /\ file'.gated /\ task' = "queued" =>
              items'[Len(items')].retries > Job.retries]_vars

\* A revision that names no node starts where open work can be reached: at an
\* open node or above one (takeover.py:149-178).
RevisionReachesWork ==
    [][Revise /\ Open(file) # {} => OpenUnder(file, file'.cur) # {}]_vars
=============================================================================
