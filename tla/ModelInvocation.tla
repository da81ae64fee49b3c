--------------------------- MODULE ModelInvocation ---------------------------
(***************************************************************************)
(* The loop of model and tools inside a window (llm_runtime/invoke.py),    *)
(* the budget around it (llm_runtime/core.py, execution_loop/worker.py)    *)
(* and the checkpoint that a pause takes of tool calls not yet executed    *)
(* (runtime_kernel/snapshot.py) with the way back from it.                 *)
(*                                                                         *)
(* One task and one worker.  How requests overlap with windows, resumes    *)
(* that are blocked and workers that die after their last commit are       *)
(* TaskControl's.  Tokens and cost are one number.  What the model answers *)
(* is a choice: text, or a batch of tool calls, which is numbered and goes *)
(* as one.  The flag of a shutdown does not appear: the function that      *)
(* should read it imports a module that does not exist and returns False   *)
(* (core.py:19-25), so only a requested pause leads to a checkpoint.       *)
(***************************************************************************)
EXTENDS Integers, Sequences, SequencesExt

CONSTANTS
    MaxRounds,      \* maxToolRounds of the request
    Threshold,      \* _DUPLICATE_TOOL_ROUND_THRESHOLD
    Entry,          \* what the check before a window asks for
    Estimate,       \* what the check before an invocation asks for
    MaxCost,        \* the most one answer may cost
    Total,          \* the budget of the task at first
    TopUp,          \* what a request may add to it
    Batches,        \* bound: batches of tool calls, numbered as asked for
    MaxTurns,       \* bound: windows
    MaxRequests,    \* bound: requests
    MaxCrash        \* bound: crashes of the worker

ASSUME InvocationAssumption ==
    /\ MaxRounds \in Nat /\ Threshold \in Nat \ {0}
    /\ Entry \in Nat \ {0} /\ Estimate \in Nat \ {0} /\ MaxCost \in Nat \ {0}
    /\ Total \in Nat /\ TopUp \in Nat
    /\ Batches \in Nat
    /\ MaxTurns \in Nat /\ MaxRequests \in Nat /\ MaxCrash \in Nat

VARIABLES
    task,       \* the row of the task
    item,       \* what is queued for it
    turn,       \* the window, in the memory of the worker
    asked,      \* how many batches were asked for
    ran,        \* how often each batch was executed
    undone,     \* how many windows that executed each batch were rolled back
    books,      \* tokens spent, and those no window charged or will charge
    turns, requests, crashes

vars == <<task, item, turn, asked, ran, undone, books, turns, requests, crashes>>
bounds == <<turns, requests, crashes>>

-----------------------------------------------------------------------------
\* A batch that was asked for, by a message that cost this much.
Messages == [batch : 1 .. Batches, cost : 1 .. MaxCost]

\* The pending-tool-calls action of a snapshot.  It does not know what paid
\* says: that a window which executed it has charged its tokens.
Checkpoints == [call : Messages, round : Nat, usage : Nat,
                talk : Seq(Messages), paid : BOOLEAN]

Statuses == {"draft", "queued", "running", "paused", "failed", "done"}
Commands == {"none", "start", "resume"}
Called == SUBSET (1 .. Batches)
Places == {"idle", "resuming", "asking", "calling", "interrupted", "concluding",
           "ending"}

NoTurn == [at |-> "idle", carried |-> << >>, pause |-> FALSE, talk |-> << >>,
           usage |-> 0, round |-> 0, streak |-> 0, called |-> << >>, over |-> FALSE,
           ran |-> {}]

TypeOK ==
    /\ task \in [status : Statuses, used : Nat, total : Nat, pause : BOOLEAN,
                 actions : Seq(Checkpoints), snap : BOOLEAN, attempt : BOOLEAN]
    /\ item \in Commands
    /\ turn \in [at : Places, carried : Seq(Checkpoints), pause : BOOLEAN,
                 talk : Seq(Messages), usage : Nat, round : Nat, streak : Nat,
                 called : Seq(Messages), over : BOOLEAN, ran : Called]
    /\ asked \in 0 .. Batches
    /\ ran \in [1 .. Batches -> Nat] /\ undone \in [1 .. Batches -> Nat]
    /\ books \in [spent : Nat, lost : Nat]
    /\ turns \in 0 .. MaxTurns /\ requests \in 0 .. MaxRequests
    /\ crashes \in 0 .. MaxCrash
    /\ item = "resume" => task.status = "paused" /\ task.snap /\ task.attempt
    /\ turn.at = "resuming" => turn.carried # << >>
    /\ turn.at \in {"calling", "interrupted"} => turn.called # << >>
    /\ turn.at # "idle" => item # "none"

Init ==
    /\ task = [status |-> "draft", used |-> 0, total |-> Total, pause |-> FALSE,
               actions |-> << >>, snap |-> FALSE, attempt |-> FALSE]
    /\ item = "none"
    /\ turn = NoTurn
    /\ asked = 0
    /\ ran = [b \in 1 .. Batches |-> 0] /\ undone = [b \in 1 .. Batches |-> 0]
    /\ books = [spent |-> 0, lost |-> 0]
    /\ turns = 0 /\ requests = 0 /\ crashes = 0

-----------------------------------------------------------------------------
(***************************************************************************)
(* Requests, one at a time and between two windows.                        *)
(***************************************************************************)
Request ==
    /\ turn.at = "idle"
    /\ requests < MaxRequests
    /\ requests' = requests + 1
    /\ UNCHANGED <<turn, asked, ran, undone, books, turns, crashes>>

\* A start or a retry may bring a new budget (queue_main_agent_execution).
Start ==
    /\ Request
    /\ task.status \in {"draft", "running", "failed"}
    /\ item = "none"
    /\ item' = "start"
    /\ \E total \in {task.total, task.total + TopUp} :
          task' = [task EXCEPT !.status = "queued", !.pause = FALSE, !.total = total]

\* A resume needs a snapshot that can be restored.  While an attempt is active
\* it is answered with that one and queues nothing.  A budget it brings is left
\* out of what is written to the task.
Resume ==
    /\ Request
    /\ task.status = "paused" /\ task.snap
    /\ item' = IF task.attempt THEN item ELSE "resume"
    /\ task' = [task EXCEPT !.pause = FALSE, !.attempt = TRUE]

\* A pause of a queued task takes its item away and stores an empty snapshot.
PauseQueued ==
    /\ Request
    /\ task.status = "queued"
    /\ item' = "none"
    /\ task' = [task EXCEPT !.status = "paused", !.pause = FALSE, !.actions = << >>,
                            !.snap = TRUE]

\* Any other is noted for the next window, also one that found the task running
\* and writes when its continuation is queued; a start forgets it.
RequestPause ==
    /\ Request
    /\ task.status \in {"draft", "queued", "running", "paused"}
    /\ ~task.pause
    /\ task' = [task EXCEPT !.pause = TRUE]
    /\ UNCHANGED item

-----------------------------------------------------------------------------
(***************************************************************************)
(* A window begins.                                                        *)
(***************************************************************************)
Overrun(usage) == task.used + usage > task.total

\* Mutant: the pending actions of the snapshot are loaded by any window.
CarriedByAny == task.actions

\* Only a resume loads the snapshot.
Carried == IF item = "resume" THEN task.actions ELSE << >>

\* Tokens of a checkpoint that no window has charged yet.
Parked ==
    IF task.status = "paused" /\ task.actions # << >>
    THEN IF Head(task.actions).paid THEN 0 ELSE Head(task.actions).usage
    ELSE 0

\* execute_main_agent_work_item takes the queued item.
Window ==
    /\ turn.at = "idle"
    /\ item # "none"
    /\ turns < MaxTurns
    /\ turns' = turns + 1
    /\ UNCHANGED <<asked, ran, requests, crashes>>

\* An exception before the window knows its snapshot: the task has failed.
FailsUnloaded ==
    /\ Window
    /\ item' = "none"
    /\ task' = [task EXCEPT !.status = "failed"]
    /\ books' = [books EXCEPT !.lost = @ + Parked]
    /\ UNCHANGED <<turn, undone>>

\* One later on, which nothing in the window handles.  What the window did is
\* rolled back.  A resume can be made again from the same snapshot, and its item
\* is given back while its retries last; any other task has failed.
Raises ==
    IF item = "resume"
    THEN /\ task' = [task EXCEPT !.pause = FALSE]
         /\ item' \in {"resume", "none"}
    ELSE /\ task' = [task EXCEPT !.status = "failed"]
         /\ item' = "none"

RollsBack ==
    /\ turn' = NoTurn
    /\ books' = [books EXCEPT !.lost = @ + turn.usage - Parked]
    /\ undone' = [b \in 1 .. Batches |-> IF b \in turn.ran THEN undone[b] + 1
                                        ELSE undone[b]]

\* _enforce_budget raises.
RefuseForBudget ==
    /\ Window
    /\ Overrun(Entry)
    /\ Raises
    /\ UNCHANGED <<turn, undone, books>>

\* Mutant: the usage before the checkpoint is not restored.
RestoredUncharged(first) ==
    [NoTurn EXCEPT !.at = "resuming", !.talk = first.talk, !.round = first.round]

\* The first pending-tool-calls action gives the window its conversation, its
\* usage and its round.
Restored(first) ==
    [NoTurn EXCEPT !.at = "resuming", !.talk = first.talk, !.usage = first.usage,
                   !.round = first.round]

Begin ==
    /\ Window
    /\ ~Overrun(Entry)
    /\ LET loaded == IF Carried = << >> THEN [NoTurn EXCEPT !.at = "asking"]
                     ELSE Restored(Head(Carried)) IN
       turn' = [loaded EXCEPT !.carried = Carried, !.pause = task.pause]
    /\ UNCHANGED <<task, item, undone, books>>

-----------------------------------------------------------------------------
(***************************************************************************)
(* The rounds.                                                             *)
(***************************************************************************)
\* The message of the assistant and the results of its calls, one for each,
\* whether a call succeeds or fails; then the next round.
Executed(call) ==
    /\ ran' = [ran EXCEPT ![call.batch] = @ + 1]
    /\ turn' = [turn EXCEPT !.at = "asking", !.round = @ + 1, !.talk = Append(@, call),
                            !.ran = @ \cup {call.batch}]
    /\ UNCHANGED <<task, item, asked, undone, books, bounds>>

\* _execute_resumed_tool_calls, before the model is asked anything.
CallResumed ==
    /\ turn.at = "resuming"
    /\ Executed(Head(turn.carried).call)

Call ==
    /\ turn.at = "calling"
    /\ Executed(Last(turn.called))

\* _check_pre_invocation_budget looks at what earlier windows used.
AskRefused ==
    /\ turn.at = "asking"
    /\ Overrun(Estimate)
    /\ turn' = [turn EXCEPT !.at = "ending", !.over = TRUE]
    /\ UNCHANGED <<task, item, asked, ran, undone, books, bounds>>

\* An answer is paid for before anything is made of it.
Paying(cost) ==
    /\ books' = [books EXCEPT !.spent = @ + cost]
    /\ UNCHANGED <<ran, undone, bounds>>

\* Mutant: the check after an answer looks at the answer alone.
ExceedsAlone(cost) == Overrun(cost)

\* _check_post_invocation_budget
Exceeds(cost) == Overrun(turn.usage + cost)

Invoke(cost) ==
    /\ turn.at = "asking"
    /\ ~Overrun(Estimate)
    /\ Paying(cost)

\* The answer exceeds the budget, whatever it says.
AnswerExceeds ==
    \E cost \in 1 .. MaxCost :
        /\ Invoke(cost)
        /\ Exceeds(cost)
        /\ turn' = [turn EXCEPT !.at = "ending", !.usage = @ + cost, !.over = TRUE]
        /\ UNCHANGED <<task, item, asked>>

\* Text, or a work-tree directive, which defers the tool calls beside it.
AnswerText ==
    \E cost \in 1 .. MaxCost :
        /\ Invoke(cost)
        /\ ~Exceeds(cost)
        /\ turn' = [turn EXCEPT !.at = "ending", !.usage = @ + cost]
        /\ UNCHANGED <<task, item, asked>>

\* A batch of calls.  Again: it is idempotent and the same as the one before it
\* in this window, so the streak of such batches grows.
AnswerCalls(cost, again) ==
    /\ Invoke(cost)
    /\ ~Exceeds(cost)
    /\ again => turn.called # << >>
    /\ asked < Batches
    /\ asked' = asked + 1

Asking(cost, again) ==
    [turn EXCEPT !.usage = @ + cost,
                 !.streak = IF again THEN @ + 1 ELSE 0,
                 !.called = Append(@, [batch |-> asked + 1, cost |-> cost])]

\* The same calls over and over: the model has to conclude without tools.
AnswerRepeats ==
    \E cost \in 1 .. MaxCost, again \in BOOLEAN :
        /\ AnswerCalls(cost, again)
        /\ Asking(cost, again).streak >= Threshold
        /\ turn' = [Asking(cost, again) EXCEPT !.at = "concluding"]
        /\ UNCHANGED <<task, item>>

\* The forced answer is charged like any other, but no check follows it here.
Conclude ==
    /\ turn.at = "concluding"
    /\ \E cost \in 1 .. MaxCost :
          /\ Paying(cost)
          /\ turn' = [turn EXCEPT !.at = "ending", !.usage = @ + cost]
    /\ UNCHANGED <<task, item, asked>>

\* A round too many: the calls are reported and not executed.
AnswerBeyondRounds ==
    \E cost \in 1 .. MaxCost, again \in BOOLEAN :
        /\ AnswerCalls(cost, again)
        /\ Asking(cost, again).streak < Threshold
        /\ turn.round >= MaxRounds
        /\ turn' = [Asking(cost, again) EXCEPT !.at = "ending"]
        /\ UNCHANGED <<task, item>>

\* The calls will be executed, or put into a checkpoint when a pause waits.
AnswerBatch ==
    \E cost \in 1 .. MaxCost, again \in BOOLEAN :
        /\ AnswerCalls(cost, again)
        /\ Asking(cost, again).streak < Threshold
        /\ turn.round < MaxRounds
        /\ turn' = [Asking(cost, again) EXCEPT
                       !.at = IF turn.pause THEN "interrupted" ELSE "calling"]
        /\ UNCHANGED <<task, item>>

-----------------------------------------------------------------------------
(***************************************************************************)
(* The window ends.                                                        *)
(***************************************************************************)
Leave(next) ==
    /\ item' = next
    /\ turn' = NoTurn
    /\ UNCHANGED <<asked, ran, undone, bounds>>

\* Mutant: the round of the calls is counted before they are executed.
CheckpointAhead ==
    [call |-> Last(turn.called), round |-> turn.round + 1, usage |-> turn.usage,
     talk |-> turn.talk, paid |-> FALSE]

Checkpoint ==
    [call |-> Last(turn.called), round |-> turn.round, usage |-> turn.usage,
     talk |-> turn.talk, paid |-> FALSE]

\* SafeShutdownInterrupt, and the calls have names, identifiers and arguments:
\* save_pending_tool_calls_snapshot.  A flag stays until a request clears it, and
\* the attempt of a resumed window stays active.
Interrupt ==
    /\ turn.at = "interrupted"
    /\ Leave("none")
    /\ task' = [task EXCEPT !.status = "paused", !.actions = <<Checkpoint>>,
                            !.snap = TRUE]
    /\ UNCHANGED books

\* The calls are incomplete, or the snapshot cannot be written: the task stays
\* running with nothing queued for it.
InterruptUnsaved ==
    /\ turn.at = "interrupted"
    /\ Leave("none")
    /\ task' = [task EXCEPT !.status = "running"]
    /\ books' = [books EXCEPT !.lost = @ + turn.usage]

\* Mutant: the task is charged for the last answer only.
ChargeLast == IF turn.called = << >> THEN turn.usage ELSE Last(turn.called).cost

\* What the end of a window adds to the budget of the task.
Charge == turn.usage

\* The window paused although its answer was complete: the pending actions it was
\* resumed with go into the new snapshot, executed as they are.
Kept == [k \in DOMAIN turn.carried |-> [turn.carried[k] EXCEPT !.paid = TRUE]]

Charged(status) ==
    [task EXCEPT !.status = status, !.used = @ + Charge,
                 !.pause = FALSE,
                 !.actions = IF status = "paused" THEN Kept ELSE @]

\* The end of a resumed window completes its attempt and takes away the active
\* snapshot, whichever that is by then.
Cleaned(row) ==
    IF item = "resume" THEN [row EXCEPT !.snap = FALSE, !.attempt = FALSE] ELSE row

Ending ==
    /\ turn.at = "ending"
    /\ UNCHANGED books

\* The budget is exhausted: the check before or after an answer said so, or
\* _enforce_consumed_budget does.  This end returns before the attempt of a
\* resumed window is completed.
EndExhausted ==
    /\ Ending
    /\ turn.over \/ Overrun(turn.usage)
    /\ Leave("none")
    /\ task' = [Charged("paused") EXCEPT !.snap = TRUE]

\* A pause waited for the end of the window.
EndPaused ==
    /\ Ending
    /\ ~turn.over /\ ~Overrun(turn.usage)
    /\ turn.pause
    /\ Leave("none")
    /\ task' = Cleaned([Charged("paused") EXCEPT !.snap = TRUE])

\* The task is over, or a continuation is queued, which starts anew.
EndDone ==
    /\ Ending
    /\ ~turn.over /\ ~Overrun(turn.usage)
    /\ ~turn.pause
    /\ \/ /\ Leave("none")
          /\ task' = Cleaned(Charged("done"))
       \/ /\ Leave("start")
          /\ task' = Cleaned(Charged("queued"))

\* The invocation raises: the task fails or goes on in a new window, and nobody
\* pays for what this one used.
InvocationFails ==
    /\ turn.at \in {"resuming", "asking", "calling", "concluding"}
    /\ books' = [books EXCEPT !.lost = @ + turn.usage]
    /\ \/ /\ Leave("none")
          /\ task' = [task EXCEPT !.status = "failed"]
       \/ /\ Leave("start")
          /\ task' = [task EXCEPT !.status = "queued"]

\* Anything else raises: while the window is set up, while a snapshot is saved,
\* after the invocation, or while one that failed is dealt with.
Raise ==
    /\ turn.at # "idle"
    /\ Raises
    /\ RollsBack
    /\ UNCHANGED <<asked, ran, bounds>>

\* The worker is gone and its transaction with it; the item is delivered again.
Crash ==
    /\ turn.at # "idle"
    /\ crashes < MaxCrash
    /\ crashes' = crashes + 1
    /\ RollsBack
    /\ UNCHANGED <<task, item, asked, ran, turns, requests>>

Next ==
    \/ Start \/ Resume \/ PauseQueued \/ RequestPause
    \/ FailsUnloaded \/ RefuseForBudget \/ Begin
    \/ CallResumed \/ Call
    \/ AskRefused \/ AnswerExceeds \/ AnswerText
    \/ AnswerRepeats \/ Conclude \/ AnswerBeyondRounds \/ AnswerBatch
    \/ Interrupt \/ InterruptUnsaved
    \/ EndExhausted \/ EndPaused \/ EndDone \/ InvocationFails
    \/ Raise \/ Crash

Spec == Init /\ [][Next]_vars

-----------------------------------------------------------------------------
(***************************************************************************)
(* Properties.                                                             *)
(***************************************************************************)
\* Where a conversation is put into a checkpoint and restored from it, by a resume
\* or again after a roll-back, its rounds are counted through: the model never answers in a round beyond the
\* limit (invoke.py:435, 467, 691).
RoundsCounted ==
    turn.at = "asking" => turn.round = Len(turn.talk) /\ turn.round <= MaxRounds

\* Sum of the costs of a conversation's messages.
CostOf(talk) == FoldLeft(LAMBDA sum, call : sum + call.cost, 0, talk)

\* When the model is asked, the usage the window will charge is that of every
\* answer of the conversation, those from before a checkpoint too
\* (invoke.py:427-430, 545-547).
UsageIsOfConversation ==
    turn.at = "asking" => turn.usage = CostOf(turn.talk)

\* Every token spent is charged to the task, waits in a checkpoint or in the
\* running window, or was lost with a window that failed or was rolled back,
\* however often the same checkpoint is resumed (worker.py:1619-1631, 2004-2024).
SpentIsAccounted ==
    task.used + (IF turn.at = "idle" THEN Parked ELSE turn.usage) + books.lost
        = books.spent

\* A task overshoots its budget by the answer that crossed it and no more, over
\* pauses, resumes and restarts, and although nothing is checked after a forced
\* answer (core.py:162-204, invoke.py:640-690).
OvershootBounded == task.used + turn.usage <= task.total + MaxCost

\* No tool is called for a task that is over its budget (invoke.py:606-619).
CallsWithinBudget ==
    turn.at \in {"resuming", "calling"} => ~Overrun(turn.usage)

\* A batch of calls is executed a second time only after a window that executed
\* it was rolled back, by an exception or with its worker: pauses, resumes,
\* refusals, retries and continuations never repeat it (invoke.py:408-452,
\* worker.py:2004-2035).
ExecutedOnce ==
    \A b \in 1 .. Batches : ran[b] <= 1 + undone[b]
=============================================================================
