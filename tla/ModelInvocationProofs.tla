------------------------ MODULE ModelInvocationProofs ------------------------
(***************************************************************************)
(* The windows of a model invocation for any number of batches, rounds,    *)
(* windows, requests and crashes, any threshold and any costs:             *)
(*   - the task, its item, the window and the books keep their types;      *)
(*   - a talk is counted through its rounds and ends within the limit;     *)
(*   - every token spent is charged, waiting in a checkpoint or lost with  *)
(*     a window that failed, and one answer at most overshoots the budget; *)
(*   - a checkpoint that was charged is never resumed;                     *)
(*   - a batch is executed again only after a window that executed it was  *)
(*     rolled back;                                                        *)
(*   - what a window will charge is the cost of its whole conversation,    *)
(*     the part from before a checkpoint included.                         *)
(***************************************************************************)
EXTENDS ModelInvocation, TLAPS, SequenceTheorems, WellFoundedInduction

\* The records that the task, its work item, a window and the books stay in.
TaskRows == [status : Statuses, used : Nat, total : Nat, pause : BOOLEAN,
             actions : Seq(Checkpoints), snap : BOOLEAN, attempt : BOOLEAN]
Turns == [at : Places, carried : Seq(Checkpoints), pause : BOOLEAN,
          talk : Seq(Messages), usage : Nat, round : Nat, streak : Nat,
          called : Seq(Messages), over : BOOLEAN, ran : Called]
Books == [spent : Nat, lost : Nat]

\* What the bounds of the model count.
CountsType ==
    /\ asked \in 0 .. Batches
    /\ ran \in [1 .. Batches -> Nat] /\ undone \in [1 .. Batches -> Nat]
    /\ turns \in 0 .. MaxTurns /\ requests \in 0 .. MaxRequests
    /\ crashes \in 0 .. MaxCrash

\* The task rests on a checkpoint that was executed and charged.
PaidIn(row) ==
    row.status = "paused" /\ row.actions # << >> /\ Head(row.actions).paid

\* A work item has a task that it can go on with.  A checkpoint that was charged
\* is out of reach: its attempt is still active, or its snapshot is not.
Going(row, next) ==
    /\ next = "start" => row.status = "queued"
    /\ next = "resume" => /\ row.status = "paused" /\ row.snap /\ row.attempt
                          /\ ~PaidIn(row)
    /\ PaidIn(row) => row.attempt \/ ~row.snap

\* So does a window have one that it began from.
Linked ==
    /\ Going(task, item)
    /\ turn.at = "resuming" => turn.carried # << >>
    /\ turn.at \in {"calling", "interrupted"} => turn.called # << >>
    /\ turn.at # "idle" => /\ item # "none"
                           /\ turn.carried = Carried
                           /\ turn.usage >= Parked

TypeInv ==
    /\ task \in TaskRows /\ item \in Commands /\ turn \in Turns /\ books \in Books
    /\ CountsType
    /\ Linked

\* The constants are numbers.
LEMMA Bounds ==
    /\ MaxRounds \in Nat /\ Threshold \in Nat \ {0} /\ Entry \in Nat \ {0}
    /\ Estimate \in Nat \ {0} /\ MaxCost \in Nat \ {0} /\ Total \in Nat /\ TopUp \in Nat
    /\ Batches \in Nat /\ MaxTurns \in Nat /\ MaxRequests \in Nat /\ MaxCrash \in Nat
BY InvocationAssumption DEF InvocationAssumption

LEMMA TypeInvType == TypeInv => TypeOK
BY DEF TypeInv, TypeOK, TaskRows, Turns, Books, CountsType, Linked, Going

LEMMA NoTurnType == NoTurn \in Turns
BY DEF NoTurn, Turns, Places, Called

LEMMA InitType == Init => TypeInv
<1> SUFFICES ASSUME Init PROVE TypeInv
  OBVIOUS
<1>1. task \in TaskRows
  BY Bounds DEF Init, TaskRows, Statuses
<1>2. CountsType /\ books \in Books
  BY Bounds DEF Init, CountsType, Books
<1>3. Linked
  BY DEF Init, Linked, Going, PaidIn, NoTurn
<1>4. item \in Commands /\ turn \in Turns
  BY NoTurnType DEF Init, Commands
<1> QED
  BY <1>1, <1>2, <1>3, <1>4 DEF TypeInv

\* Requests leave what a window and the books say; what they do to the task and
\* the item stays of the right type and linked.
Quiet == UNCHANGED <<turn, asked, ran, undone, books, turns, crashes>>

LEMMA RequestQuiet ==
    ASSUME TypeInv, Request
    PROVE  Quiet /\ turn.at = "idle" /\ requests' \in 0 .. MaxRequests /\ CountsType'
<1>1. requests' \in 0 .. MaxRequests
  BY Bounds DEF Request, TypeInv, CountsType
<1>2. Quiet /\ turn.at = "idle"
  BY DEF Request, Quiet
<1> QED
  BY <1>1, <1>2 DEF TypeInv, CountsType, Quiet

LEMMA RequestType ==
    ASSUME TypeInv, Request, task' \in TaskRows, item' \in Commands, Going(task', item')
    PROVE  TypeInv'
<1>1. Quiet /\ turn.at = "idle" /\ CountsType'
  BY RequestQuiet
<1>2. Linked'
  BY <1>1 DEF Linked, Quiet
<1> QED
  BY <1>1, <1>2, Zenon DEF TypeInv, Quiet

LEMMA StartType == TypeInv /\ Start => TypeInv'
<1> SUFFICES ASSUME TypeInv, Start PROVE TypeInv'
  OBVIOUS
<1>1. PICK total \in Nat :
        task' = [task EXCEPT !.status = "queued", !.pause = FALSE, !.total = total]
  <2>1. task.total \in Nat /\ task.total + TopUp \in Nat
    BY Bounds DEF TypeInv, TaskRows
  <2> QED
    BY <2>1 DEF Start
<1>2. item' = "start" /\ item' \in Commands
  BY DEF Start, Commands
<1>3. task' \in TaskRows /\ task'.status = "queued"
  BY <1>1 DEF TypeInv, TaskRows, Statuses
<1> QED
  BY <1>2, <1>3, RequestType DEF Start, Going, PaidIn

LEMMA ResumeType == TypeInv /\ Resume => TypeInv'
<1> SUFFICES ASSUME TypeInv, Resume PROVE TypeInv'
  OBVIOUS
<1>1. item' \in Commands
  BY DEF Resume, TypeInv, Commands
<1>2. task' \in TaskRows
  BY DEF Resume, TypeInv, TaskRows
<1>3. /\ task'.status = "paused" /\ task'.snap /\ task'.attempt
      /\ task'.actions = task.actions /\ task.status = "paused" /\ task.snap
      /\ item' = IF task.attempt THEN item ELSE "resume"
  BY DEF Resume, TypeInv, TaskRows
<1>4. Going(task', item')
  BY <1>3 DEF TypeInv, Linked, Going, PaidIn
<1> QED
  BY <1>1, <1>2, <1>4, RequestType DEF Resume

LEMMA PauseType == TypeInv /\ (PauseQueued \/ RequestPause) => TypeInv'
<1> SUFFICES ASSUME TypeInv, PauseQueued \/ RequestPause PROVE TypeInv'
  OBVIOUS
<1>1. CASE PauseQueued
  <2>1. << >> \in Seq(Checkpoints)
    OBVIOUS
  <2>2. task' \in TaskRows /\ task'.actions = << >>
    BY <1>1, <2>1 DEF PauseQueued, TypeInv, TaskRows, Statuses
  <2>3. item' = "none" /\ item' \in Commands
    BY <1>1 DEF PauseQueued, Commands
  <2> QED
    BY <1>1, <2>2, <2>3, RequestType DEF PauseQueued, Going, PaidIn
<1>2. CASE RequestPause
  <2>1. /\ task' \in TaskRows /\ item' = item
        /\ task'.status = task.status /\ task'.actions = task.actions
        /\ task'.snap = task.snap /\ task'.attempt = task.attempt
    BY <1>2 DEF RequestPause, TypeInv, TaskRows
  <2>2. Going(task', item')
    BY <2>1 DEF TypeInv, Linked, Going, PaidIn
  <2> QED
    BY <1>2, <2>1, <2>2, RequestType DEF RequestPause, TypeInv
<1> QED
  BY <1>1, <1>2

-----------------------------------------------------------------------------
\* A window ends, or is not begun.
LEMMA LeaveType ==
    ASSUME TypeInv, turn' = NoTurn, task' \in TaskRows, item' \in Commands,
           Going(task', item'), books' \in Books, CountsType'
    PROVE  TypeInv'
<1>1. turn'.at = "idle" /\ turn' \in Turns
  BY NoTurnType DEF NoTurn
<1>2. Linked'
  BY <1>1 DEF Linked
<1> QED
  BY <1>1, <1>2, Zenon DEF TypeInv

LEMMA ParkedType == TypeInv => Parked \in Nat
<1> SUFFICES ASSUME TypeInv, task.actions # << >> PROVE Head(task.actions).usage \in Nat
  BY DEF Parked
<1>1. task.actions \in Seq(Checkpoints)
  BY DEF TypeInv, TaskRows
<1>2. Head(task.actions) \in Checkpoints
  BY <1>1
<1> QED
  BY <1>2 DEF Checkpoints

LEMMA CarriedType == TypeInv => Carried \in Seq(Checkpoints)
BY DEF TypeInv, TaskRows, Carried

LEMMA WindowCounts ==
    ASSUME TypeInv, Window, undone' = undone
    PROVE  CountsType' /\ UNCHANGED <<asked, ran>>
BY Bounds DEF TypeInv, CountsType, Window

\* What an exception makes of the task and its item.
LEMMA RaisesType ==
    ASSUME TypeInv, item # "none", Raises
    PROVE  /\ task' \in TaskRows /\ item' \in Commands /\ Going(task', item')
           /\ task'.used = task.used /\ task'.total = task.total
           /\ task'.actions = task.actions
           /\ \/ task'.status = task.status
              \/ task'.status # "paused" /\ task.status # "paused"
<1>1. CASE item = "resume"
  <2>1. task' = [task EXCEPT !.pause = FALSE] /\ item' \in {"resume", "none"}
    BY <1>1 DEF Raises
  <2>2. /\ task' \in TaskRows /\ task'.used = task.used /\ task'.total = task.total
        /\ task'.status = task.status /\ task'.actions = task.actions
        /\ task'.snap = task.snap /\ task'.attempt = task.attempt
    BY <2>1 DEF TypeInv, TaskRows
  <2>3. Going(task', item') /\ item' \in Commands
    BY <1>1, <2>1, <2>2 DEF TypeInv, Linked, Going, PaidIn, Commands
  <2> QED
    BY <2>2, <2>3
<1>2. CASE item # "resume"
  <2>1. task' = [task EXCEPT !.status = "failed"] /\ item' = "none"
    BY <1>2 DEF Raises
  <2>2. /\ task' \in TaskRows /\ task'.used = task.used /\ task'.total = task.total
        /\ task'.status = "failed" /\ task'.actions = task.actions
    BY <2>1 DEF TypeInv, TaskRows, Statuses
  <2>3. task.status = "queued"
    BY <1>2 DEF TypeInv, Linked, Going, Commands
  <2> QED
    BY <2>1, <2>2, <2>3 DEF Going, PaidIn, Commands
<1> QED
  BY <1>1, <1>2

LEMMA RefuseType == TypeInv /\ (RefuseForBudget \/ FailsUnloaded) => TypeInv'
<1> SUFFICES ASSUME TypeInv, RefuseForBudget \/ FailsUnloaded PROVE TypeInv'
  OBVIOUS
<1>1. /\ Window /\ undone' = undone /\ turn' = turn /\ turn.at = "idle"
      /\ item # "none"
  BY DEF RefuseForBudget, FailsUnloaded, Window
<1>2. CountsType'
  BY <1>1, WindowCounts
<1>3. task' \in TaskRows /\ item' \in Commands /\ Going(task', item') /\ books' \in Books
  <2>1. CASE RefuseForBudget
    BY <1>1, <2>1, RaisesType DEF RefuseForBudget, TypeInv
  <2>2. CASE FailsUnloaded
    <3>1. books' \in Books
      BY <2>2, ParkedType DEF FailsUnloaded, TypeInv, Books
    <3>2. task' \in TaskRows /\ task'.status = "failed" /\ item' = "none"
      BY <2>2 DEF FailsUnloaded, TypeInv, TaskRows, Statuses
    <3> QED
      BY <3>1, <3>2 DEF Going, PaidIn, Commands
  <2> QED
    BY <2>1, <2>2
<1>4. Linked' /\ turn' \in Turns
  BY <1>1, <1>3 DEF TypeInv, Linked
<1> QED
  BY <1>2, <1>3, <1>4, Zenon DEF TypeInv

\* What a window knows when it begins.
LEMMA BeginTurn ==
    ASSUME TypeInv, Begin
    PROVE  /\ turn' \in Turns /\ turn'.carried = Carried
           /\ turn'.called = << >>
           /\ IF Carried = << >>
              THEN turn'.at = "asking" /\ turn'.usage = 0 /\ turn'.round = 0
                   /\ turn'.talk = << >>
              ELSE turn'.at = "resuming" /\ turn'.usage = Head(Carried).usage
                   /\ turn'.round = Head(Carried).round /\ turn'.talk = Head(Carried).talk
<1>1. Carried \in Seq(Checkpoints)
  BY CarriedType
<1>2. task.pause \in BOOLEAN
  BY DEF TypeInv, TaskRows
<1>3. CASE Carried = << >>
  <2>1. turn' = [NoTurn EXCEPT !.at = "asking", !.carried = Carried, !.pause = task.pause]
    BY <1>3 DEF Begin, NoTurn
  <2> QED
    BY <1>1, <1>2, <1>3, <2>1, NoTurnType DEF NoTurn, Turns, Places
<1>4. CASE Carried # << >>
  <2>1. Head(Carried) \in Checkpoints
    BY <1>1, <1>4
  <2>2. turn' = [NoTurn EXCEPT !.at = "resuming", !.talk = Head(Carried).talk,
                               !.usage = Head(Carried).usage,
                               !.round = Head(Carried).round, !.carried = Carried,
                               !.pause = task.pause]
    BY <1>4 DEF Begin, Restored, NoTurn
  <2>3. /\ Head(Carried).talk \in Seq(Messages) /\ Head(Carried).usage \in Nat
        /\ Head(Carried).round \in Nat
    BY <2>1, Bounds DEF Checkpoints
  <2> QED
    BY <1>1, <1>2, <1>4, <2>2, <2>3, NoTurnType DEF NoTurn, Turns, Places
<1> QED
  BY <1>3, <1>4

\* A checkpoint that no window has charged yet waits for its resume.
Unpaid == /\ task.status = "paused" /\ task.actions # << >>
          /\ ~Head(task.actions).paid

\* What waits in a checkpoint is in what the window that loads it starts from, and
\* was not charged.
LEMMA ParkedCarried ==
    ASSUME TypeInv, item # "none"
    PROVE  /\ Parked = IF Carried = << >> THEN 0 ELSE Head(Carried).usage
           /\ Carried # << >> => Unpaid /\ Carried = task.actions
<1>1. item \in {"start", "resume"}
  BY DEF TypeInv, Commands
<1>2. CASE item = "start"
  BY <1>2 DEF TypeInv, Linked, Going, Parked, Carried
<1>3. CASE item = "resume"
  BY <1>3 DEF TypeInv, Linked, Going, PaidIn, Parked, Carried, Unpaid
<1> QED
  BY <1>1, <1>2, <1>3

LEMMA BeginType == TypeInv /\ Begin => TypeInv'
<1> SUFFICES ASSUME TypeInv, Begin PROVE TypeInv'
  OBVIOUS
<1>1. UNCHANGED <<task, item, books>> /\ item # "none" /\ CountsType'
  BY WindowCounts DEF Begin, Window
<1>3. /\ turn' \in Turns /\ turn'.carried = Carried
      /\ turn'.at = "resuming" => Carried # << >>
      /\ turn'.at \in {"asking", "resuming"}
  BY BeginTurn
<1>4. turn'.usage >= Parked
  <2>1. turn'.usage \in Nat
    BY <1>3 DEF Turns
  <2>2. turn'.usage = IF Carried = << >> THEN 0 ELSE Head(Carried).usage
    BY BeginTurn
  <2>3. Parked = turn'.usage
    BY <1>1, <2>2, ParkedCarried
  <2> QED
    BY <2>1, <2>3
<1>5. Linked'
  BY <1>1, <1>3, <1>4 DEF TypeInv, Linked, Carried, Parked
<1> QED
  BY <1>1, <1>3, <1>5, Zenon DEF TypeInv

-----------------------------------------------------------------------------
\* A step inside a window leaves the task and the item, and uses up more.
Goes ==
    /\ turn.at # "idle"
    /\ UNCHANGED <<task, item, undone, bounds>>
    /\ turn' \in Turns
    /\ turn'.at \in {"asking", "calling", "interrupted", "concluding", "ending"}
    /\ turn'.carried = turn.carried
    /\ turn'.usage >= turn.usage
    /\ turn'.at \in {"calling", "interrupted"} => turn'.called # << >>

LEMMA GoesType ==
    ASSUME TypeInv, Goes, books' \in Books, asked' \in 0 .. Batches,
           ran' \in [1 .. Batches -> Nat]
    PROVE  TypeInv'
<1>1. UNCHANGED <<task, item>> /\ CountsType'
  BY DEF TypeInv, CountsType, Goes, bounds
<1>2. Parked \in Nat /\ turn.usage \in Nat /\ turn'.usage \in Nat
  BY ParkedType DEF TypeInv, Goes, Turns
<1>3. turn'.usage >= Parked
  BY <1>2 DEF TypeInv, Linked, Goes
<1>4. Linked'
  BY <1>1, <1>3 DEF TypeInv, Linked, Goes, Carried, Parked
<1>5. turn' \in Turns
  BY DEF Goes
<1> QED
  BY <1>1, <1>4, <1>5, Zenon DEF TypeInv

LEMMA ExecutedGoes ==
    ASSUME TypeInv, turn.at # "idle", NEW call \in Messages, Executed(call)
    PROVE  Goes /\ ran' \in [1 .. Batches -> Nat]
<1>1. /\ turn.round + 1 \in Nat /\ Append(turn.talk, call) \in Seq(Messages)
      /\ turn.ran \cup {call.batch} \in Called
  BY DEF TypeInv, Turns, Messages, Called
<1>2. turn' = [turn EXCEPT !.at = "asking", !.round = turn.round + 1,
                           !.talk = Append(turn.talk, call),
                           !.ran = turn.ran \cup {call.batch}]
  BY DEF Executed, TypeInv, Turns
<1>3. turn' \in Turns /\ turn'.at = "asking" /\ turn'.carried = turn.carried
      /\ turn'.usage = turn.usage
  BY <1>1, <1>2 DEF TypeInv, Turns, Places
<1>4. turn'.usage >= turn.usage
  BY <1>3 DEF Turns
<1>5. ran' \in [1 .. Batches -> Nat]
  <2>1. \A b \in 1 .. Batches : ran[b] + 1 \in Nat
    BY DEF TypeInv, CountsType
  <2> QED
    BY <2>1 DEF Executed, TypeInv, CountsType
<1> QED
  BY <1>3, <1>4, <1>5 DEF Goes, Executed

LEMMA CallTyped ==
    TypeInv => /\ turn.at = "resuming" => Head(turn.carried) \in Checkpoints
                                          /\ Head(turn.carried).call \in Messages
               /\ turn.called # << >> => Last(turn.called) \in Messages
<1> SUFFICES ASSUME TypeInv
             PROVE  /\ turn.at = "resuming" => Head(turn.carried) \in Checkpoints
                                               /\ Head(turn.carried).call \in Messages
                    /\ turn.called # << >> => Last(turn.called) \in Messages
  OBVIOUS
<1>1. turn.carried \in Seq(Checkpoints) /\ turn.called \in Seq(Messages)
  BY DEF TypeInv, Turns
<1>2. ASSUME turn.at = "resuming"
      PROVE  Head(turn.carried) \in Checkpoints /\ Head(turn.carried).call \in Messages
  <2>1. Head(turn.carried) \in Checkpoints
    BY <1>1, <1>2 DEF TypeInv, Linked
  <2> QED
    BY <2>1 DEF Checkpoints
<1>3. ASSUME turn.called # << >> PROVE Last(turn.called) \in Messages
  BY <1>1, <1>3 DEF Last
<1> QED
  BY <1>2, <1>3

LEMMA CallType == TypeInv /\ (Call \/ CallResumed) => TypeInv'
<1> SUFFICES ASSUME TypeInv, Call \/ CallResumed PROVE TypeInv'
  OBVIOUS
<1>1. PICK call \in Messages : Executed(call) /\ turn.at # "idle"
  BY CallTyped DEF Call, CallResumed, TypeInv, Linked
<1>2. Goes /\ ran' \in [1 .. Batches -> Nat]
  BY <1>1, ExecutedGoes
<1>3. UNCHANGED <<asked, books>>
  BY <1>1 DEF Executed
<1> QED
  BY <1>2, <1>3, GoesType DEF TypeInv, CountsType

LEMMA AskRefusedType == TypeInv /\ AskRefused => TypeInv'
<1> SUFFICES ASSUME TypeInv, AskRefused PROVE TypeInv'
  OBVIOUS
<1>1. turn' \in Turns /\ turn'.at = "ending" /\ turn'.carried = turn.carried
      /\ turn'.usage = turn.usage
  BY DEF AskRefused, TypeInv, Turns, Places
<1>2. turn'.usage >= turn.usage
  BY <1>1 DEF Turns
<1>3. Goes /\ UNCHANGED <<asked, ran, books>>
  BY <1>1, <1>2 DEF Goes, AskRefused
<1> QED
  BY <1>3, GoesType DEF TypeInv, CountsType

\* An answer that costs this much.
Answers == AnswerExceeds \/ AnswerText \/ AnswerRepeats \/ Conclude
           \/ AnswerBeyondRounds \/ AnswerBatch

LEMMA PayingType ==
    ASSUME TypeInv, NEW cost \in 1 .. MaxCost, Paying(cost)
    PROVE  books' \in Books /\ UNCHANGED <<ran, undone, bounds>>
           /\ books'.spent = books.spent + cost /\ books'.lost = books.lost
BY Bounds DEF Paying, TypeInv, Books

\* What every answer does to the window.
Grows(cost) ==
    /\ turn.at \in {"asking", "concluding"}
    /\ UNCHANGED <<task, item>>
    /\ turn' \in Turns
    /\ turn'.usage = turn.usage + cost
    /\ turn'.carried = turn.carried /\ turn'.round = turn.round /\ turn'.talk = turn.talk
    /\ turn'.pause = turn.pause /\ turn'.ran = turn.ran
    /\ Paying(cost)

LEMMA AskingTurn ==
    ASSUME TypeInv, NEW cost \in 1 .. MaxCost, NEW again \in BOOLEAN,
           AnswerCalls(cost, again), NEW at \in Places
    PROVE  LET new == [Asking(cost, again) EXCEPT !.at = at] IN
           /\ new \in Turns /\ new.at = at
           /\ new.usage = turn.usage + cost
           /\ new.carried = turn.carried /\ new.round = turn.round
           /\ new.talk = turn.talk /\ new.pause = turn.pause /\ new.ran = turn.ran
           /\ new.called # << >>
           /\ Last(new.called) = [batch |-> asked + 1, cost |-> cost]
           /\ asked' = asked + 1 /\ asked + 1 \in 1 .. Batches
<1> DEFINE call == [batch |-> asked + 1, cost |-> cost]
<1>1. asked + 1 \in 1 .. Batches /\ asked' = asked + 1
  BY Bounds DEF AnswerCalls, TypeInv, CountsType
<1>2. call \in Messages
  BY <1>1 DEF Messages
<1>3. turn.usage + cost \in Nat /\ turn.streak + 1 \in Nat /\ turn.called \in Seq(Messages)
  BY Bounds DEF TypeInv, Turns
<1> HIDE DEF call
<1>4. Append(turn.called, call) \in Seq(Messages)
      /\ Append(turn.called, call) # << >>
      /\ Last(Append(turn.called, call)) = call
  BY <1>2, <1>3 DEF Last
<1>5. PICK streak \in Nat :
        Asking(cost, again) = [turn EXCEPT !.usage = turn.usage + cost, !.streak = streak,
                                           !.called = Append(turn.called, call)]
  <2>1. PICK streak \in Nat : streak = IF again THEN turn.streak + 1 ELSE 0
    BY <1>3
  <2> QED
    BY <2>1 DEF Asking, TypeInv, Turns, call
<1> QED
  BY <1>1, <1>3, <1>4, <1>5 DEF TypeInv, Turns, call

\* The answers that a window ends with or goes on from.
AnswerMoves(cost, at, over) ==
    /\ Grows(cost)
    /\ turn'.at = at /\ turn'.over = over

LEMMA AnswerGoes ==
    ASSUME TypeInv, Answers
    PROVE  \E cost \in 1 .. MaxCost :
              /\ Grows(cost)
              /\ asked' \in 0 .. Batches
              /\ \/ turn'.at = "ending" /\ asked' = asked
                 \/ /\ turn.at = "asking" /\ ~Exceeds(cost)
                    /\ asked' = asked + 1
                    /\ turn'.called # << >>
                    /\ Last(turn'.called) = [batch |-> asked + 1, cost |-> cost]
                    /\ \/ turn'.at \in {"concluding", "ending"}
                       \/ /\ turn.round < MaxRounds
                          /\ turn'.at \in {"calling", "interrupted"}
<1>1. ASSUME NEW cost \in 1 .. MaxCost, Paying(cost), UNCHANGED <<task, item, asked>>,
             turn.at \in {"asking", "concluding"},
             NEW over \in BOOLEAN,
             turn' = [turn EXCEPT !.at = "ending", !.usage = turn.usage + cost, !.over = over]
      PROVE  Grows(cost) /\ turn'.at = "ending" /\ asked' \in 0 .. Batches
  <2>1. turn.usage + cost \in Nat
    <3>1. turn.usage \in Nat
      BY DEF TypeInv, Turns
    <3> QED
      BY <3>1, Bounds
  <2>2. turn' \in Turns
    BY <1>1, <2>1 DEF TypeInv, Turns, Places
  <2>3. asked' \in 0 .. Batches
    BY <1>1 DEF TypeInv, CountsType
  <2> QED
    BY <1>1, <2>2, <2>3 DEF Grows, TypeInv, Turns
<1>2. CASE AnswerExceeds
  <2>1. PICK cost \in 1 .. MaxCost :
          /\ Invoke(cost)
          /\ turn' = [turn EXCEPT !.at = "ending", !.usage = turn.usage + cost, !.over = TRUE]
          /\ UNCHANGED <<task, item, asked>>
    BY <1>2 DEF AnswerExceeds, TypeInv, Turns
  <2> QED
    BY <2>1, <1>1 DEF Invoke
<1>3. CASE AnswerText
  <2>1. PICK cost \in 1 .. MaxCost :
          /\ Invoke(cost)
          /\ turn' = [turn EXCEPT !.at = "ending", !.usage = turn.usage + cost,
                                  !.over = turn.over]
          /\ UNCHANGED <<task, item, asked>>
    BY <1>3 DEF AnswerText, TypeInv, Turns
  <2>2. turn.over \in BOOLEAN
    BY DEF TypeInv, Turns
  <2> QED
    BY <2>1, <2>2, <1>1 DEF Invoke
<1>4. CASE Conclude
  <2>1. PICK cost \in 1 .. MaxCost :
          /\ Paying(cost)
          /\ turn' = [turn EXCEPT !.at = "ending", !.usage = turn.usage + cost,
                                  !.over = turn.over]
    <3>1. PICK cost \in 1 .. MaxCost :
            /\ Paying(cost)
            /\ turn' = [turn EXCEPT !.at = "ending", !.usage = turn.usage + cost]
      BY <1>4, Zenon DEF Conclude
    <3>2. turn' = [turn EXCEPT !.at = "ending", !.usage = turn.usage + cost,
                               !.over = turn.over]
      BY <3>1 DEF TypeInv, Turns
    <3> QED
      BY <3>1, <3>2, Zenon
  <2>2. turn.over \in BOOLEAN
    BY DEF TypeInv, Turns
  <2> QED
    BY <1>4, <2>1, <2>2, <1>1 DEF Conclude
<1>5. CASE AnswerRepeats \/ AnswerBeyondRounds \/ AnswerBatch
  <2>1. PICK cost \in 1 .. MaxCost, again \in BOOLEAN, at \in Places :
          /\ AnswerCalls(cost, again)
          /\ turn' = [Asking(cost, again) EXCEPT !.at = at]
          /\ UNCHANGED <<task, item>>
          /\ \/ at \in {"concluding", "ending"}
             \/ turn.round < MaxRounds /\ at \in {"calling", "interrupted"}
    <3>1. {"concluding", "ending", "calling", "interrupted"} \subseteq Places
      BY DEF Places
    <3>2. CASE AnswerRepeats
      BY <3>1, <3>2, Zenon DEF AnswerRepeats
    <3>3. CASE AnswerBeyondRounds
      BY <3>1, <3>3, Zenon DEF AnswerBeyondRounds
    <3>4. CASE AnswerBatch
      <4>1. PICK cost \in 1 .. MaxCost, again \in BOOLEAN :
              /\ AnswerCalls(cost, again)
              /\ turn.round < MaxRounds
              /\ turn' = [Asking(cost, again) EXCEPT
                             !.at = IF turn.pause THEN "interrupted" ELSE "calling"]
              /\ UNCHANGED <<task, item>>
        BY <3>4, Zenon DEF AnswerBatch
      <4>2. PICK at \in {"calling", "interrupted"} :
              at = IF turn.pause THEN "interrupted" ELSE "calling"
        OBVIOUS
      <4> QED
        BY <3>1, <4>1, <4>2, Zenon
    <3> QED
      BY <1>5, <3>2, <3>3, <3>4, Zenon
  <2>2. /\ turn' \in Turns /\ turn'.at = at
        /\ turn'.usage = turn.usage + cost
        /\ turn'.carried = turn.carried /\ turn'.round = turn.round
        /\ turn'.talk = turn.talk /\ turn'.pause = turn.pause /\ turn'.ran = turn.ran
        /\ turn'.called # << >>
        /\ Last(turn'.called) = [batch |-> asked + 1, cost |-> cost]
        /\ asked' = asked + 1 /\ asked + 1 \in 1 .. Batches
    BY <2>1, AskingTurn
  <2>3. Paying(cost) /\ turn.at = "asking" /\ ~Exceeds(cost)
    BY <2>1 DEF AnswerCalls, Invoke
  <2>4. Grows(cost)
    BY <2>1, <2>2, <2>3 DEF Grows
  <2>5. asked' \in 0 .. Batches
    BY <2>2, Bounds
  <2> QED
    BY <2>1, <2>2, <2>3, <2>4, <2>5
<1> QED
  BY <1>2, <1>3, <1>4, <1>5 DEF Answers

LEMMA GrowsGoes ==
    ASSUME TypeInv, NEW cost \in 1 .. MaxCost, Grows(cost),
           turn'.at \in {"calling", "interrupted", "concluding", "ending"},
           turn'.at \in {"calling", "interrupted"} => turn'.called # << >>
    PROVE  Goes
<1>1. turn'.usage >= turn.usage
  BY Bounds DEF Grows, TypeInv, Turns
<1> QED
  BY <1>1, PayingType DEF Grows, Goes

LEMMA AnswerType == TypeInv /\ Answers => TypeInv'
<1> SUFFICES ASSUME TypeInv, Answers PROVE TypeInv'
  OBVIOUS
<1>1. PICK cost \in 1 .. MaxCost :
        /\ Grows(cost) /\ asked' \in 0 .. Batches
        /\ turn'.at \in {"calling", "interrupted", "concluding", "ending"}
        /\ turn'.at \in {"calling", "interrupted"} => turn'.called # << >>
  BY AnswerGoes
<1>2. Goes
  BY <1>1, GrowsGoes
<1>3. books' \in Books /\ ran' = ran
  BY <1>1, PayingType DEF Grows
<1> QED
  BY <1>1, <1>2, <1>3, GoesType DEF TypeInv, CountsType

-----------------------------------------------------------------------------
\* The pending actions that are kept are the carried ones, called paid.
LEMMA KeptType ==
    ASSUME TypeInv
    PROVE  /\ Kept \in Seq(Checkpoints)
           /\ Kept # << >> => /\ turn.carried # << >>
                              /\ Head(Kept) = [Head(turn.carried) EXCEPT !.paid = TRUE]
                              /\ Head(Kept).paid
                              /\ Head(Kept).call = Head(turn.carried).call
                              /\ Head(Kept).round = Head(turn.carried).round
                              /\ Head(Kept).talk = Head(turn.carried).talk
<1>1. turn.carried \in Seq(Checkpoints)
  BY DEF TypeInv, Turns
<1>2. \A c \in Checkpoints : [c EXCEPT !.paid = TRUE] \in Checkpoints
  BY DEF Checkpoints
<1>3. DOMAIN turn.carried = 1 .. Len(turn.carried) /\ Len(turn.carried) \in Nat
  BY <1>1
<1>4. \A k \in 1 .. Len(turn.carried) : turn.carried[k] \in Checkpoints
  BY <1>1
<1>5. Kept = [k \in 1 .. Len(turn.carried) |-> [turn.carried[k] EXCEPT !.paid = TRUE]]
  BY <1>3 DEF Kept
<1>6. Kept \in Seq(Checkpoints) /\ Len(Kept) = Len(turn.carried)
  <2>1. Kept \in [1 .. Len(turn.carried) -> Checkpoints]
    BY <1>2, <1>4, <1>5
  <2> QED
    BY <1>3, <2>1
<1>7. ASSUME Kept # << >>
      PROVE  turn.carried # << >> /\ Head(Kept) = [Head(turn.carried) EXCEPT !.paid = TRUE]
  <2>1. Len(turn.carried) # 0
    BY <1>6, <1>7
  <2>2. 1 \in 1 .. Len(turn.carried)
    BY <1>3, <2>1
  <2>3. Kept[1] = [turn.carried[1] EXCEPT !.paid = TRUE]
    BY <1>5, <2>2
  <2>4. Head(Kept) = Kept[1] /\ Head(turn.carried) = turn.carried[1] /\ turn.carried # << >>
    BY <1>1, <1>6, <1>7, <2>1
  <2> QED
    BY <2>3, <2>4
<1>8. turn.carried # << >> => Head(turn.carried) \in Checkpoints
  BY <1>1
<1> QED
  BY <1>6, <1>7, <1>8 DEF Checkpoints

LEMMA LeaveCounts ==
    ASSUME TypeInv, NEW next, Leave(next)
    PROVE  CountsType' /\ turn' = NoTurn /\ item' = next
BY DEF Leave, TypeInv, CountsType, bounds

\* A window that ends with its tokens charged.
LEMMA ChargedType ==
    ASSUME TypeInv, NEW status \in Statuses
    PROVE  /\ Charged(status) \in TaskRows /\ Charged(status).status = status
           /\ Charged(status).used = task.used + turn.usage
           /\ Charged(status).total = task.total
           /\ Charged(status).actions = IF status = "paused" THEN Kept ELSE task.actions
           /\ Charged(status).snap = task.snap /\ Charged(status).attempt = task.attempt
<1>1. task.used + turn.usage \in Nat
  BY DEF TypeInv, TaskRows, Turns
<1>2. PICK actions \in Seq(Checkpoints) :
        actions = IF status = "paused" THEN Kept ELSE task.actions
  BY KeptType DEF TypeInv, TaskRows
<1>3. Charged(status) = [task EXCEPT !.status = status, !.used = task.used + turn.usage,
                                     !.pause = FALSE, !.actions = actions]
  BY <1>2 DEF Charged, Charge
<1>4. task \in TaskRows
  BY DEF TypeInv
<1> DEFINE Row(row, used) == [row EXCEPT !.status = status, !.used = used,
                                        !.pause = FALSE, !.actions = actions]
<1>5. ASSUME NEW row \in TaskRows, NEW used \in Nat
      PROVE  /\ Row(row, used) \in TaskRows /\ Row(row, used).status = status
             /\ Row(row, used).used = used
             /\ Row(row, used).total = row.total /\ Row(row, used).actions = actions
             /\ Row(row, used).snap = row.snap /\ Row(row, used).attempt = row.attempt
  <2> DEFINE new == Row(row, used)
  <2>1. new \in TaskRows
    BY <1>2 DEF TaskRows
  <2>2. new.status = status /\ new.used = used /\ new.actions = actions
    BY DEF TaskRows
  <2>3. new.total = row.total /\ new.snap = row.snap /\ new.attempt = row.attempt
    BY DEF TaskRows
  <2> QED
    BY <2>1, <2>2, <2>3
<1>6. Charged(status) = Row(task, task.used + turn.usage)
  BY <1>3
<1> HIDE DEF Row
<1>7. LET new == Row(task, task.used + turn.usage) IN
        /\ new \in TaskRows /\ new.status = status
        /\ new.used = task.used + turn.usage
        /\ new.total = task.total /\ new.actions = actions
        /\ new.snap = task.snap /\ new.attempt = task.attempt
  BY <1>1, <1>4, <1>5
<1> QED
  BY <1>2, <1>6, <1>7

\* The three ways a charged window ends.  When it kept a checkpoint that it was
\* resumed from, its attempt stays active or the snapshot is gone.
Ends(status) ==
    /\ turn.at = "ending"
    /\ UNCHANGED books
    /\ turn' = NoTurn
    /\ UNCHANGED <<asked, ran, undone, bounds>>
    /\ item' = IF status = "queued" THEN "start" ELSE "none"
    /\ \E snap, attempt \in BOOLEAN :
          /\ task' = [Charged(status) EXCEPT !.snap = snap, !.attempt = attempt]
          /\ item = "resume" /\ status = "paused" => attempt \/ ~snap

LEMMA EndEnds ==
    ASSUME TypeInv, EndExhausted \/ EndPaused \/ EndDone
    PROVE  \E status \in {"paused", "done", "queued"} : Ends(status)
<1> DEFINE Row(status, snap, attempt) ==
               [Charged(status) EXCEPT !.snap = snap, !.attempt = attempt]
<1>1. \A status \in {"paused", "done", "queued"} :
        /\ \A snap \in BOOLEAN : [Charged(status) EXCEPT !.snap = snap]
                                 = Row(status, snap, task.attempt)
        /\ Charged(status) = Row(status, task.snap, task.attempt)
        /\ Cleaned(Charged(status)) = IF item = "resume" THEN Row(status, FALSE, FALSE)
                                     ELSE Row(status, task.snap, task.attempt)
        /\ Cleaned([Charged(status) EXCEPT !.snap = TRUE])
              = IF item = "resume" THEN Row(status, FALSE, FALSE)
                ELSE Row(status, TRUE, task.attempt)
  <2>1. \A status \in {"paused", "done", "queued"} :
          /\ Charged(status) \in TaskRows
          /\ Charged(status).snap = task.snap /\ Charged(status).attempt = task.attempt
    BY ChargedType DEF Statuses
  <2>2. \A row \in TaskRows :
          /\ \A snap \in BOOLEAN :
                [row EXCEPT !.snap = snap] = [row EXCEPT !.snap = snap, !.attempt = row.attempt]
          /\ row = [row EXCEPT !.snap = row.snap, !.attempt = row.attempt]
          /\ [[row EXCEPT !.snap = TRUE] EXCEPT !.snap = FALSE, !.attempt = FALSE]
                = [row EXCEPT !.snap = FALSE, !.attempt = FALSE]
    BY DEF TaskRows
  <2> QED
    BY <2>1, <2>2 DEF Cleaned
<1> DEFINE Left(status) ==
               /\ turn.at = "ending" /\ UNCHANGED books /\ turn' = NoTurn
               /\ UNCHANGED <<asked, ran, undone, bounds>>
               /\ item' = IF status = "queued" THEN "start" ELSE "none"
<1>2. task.snap \in BOOLEAN /\ task.attempt \in BOOLEAN
  BY DEF TypeInv, TaskRows
<1>3. ASSUME NEW status \in {"paused", "done", "queued"}, Left(status),
             NEW snap \in BOOLEAN, NEW attempt \in BOOLEAN,
             task' = Row(status, snap, attempt),
             item = "resume" /\ status = "paused" => attempt \/ ~snap
      PROVE  Ends(status)
  BY <1>3, Zenon DEF Ends
<1>4. CASE EndExhausted
  <2>1. Left("paused") /\ task' = Row("paused", TRUE, task.attempt)
    BY <1>1, <1>4 DEF EndExhausted, Ending, Leave
  <2>2. item = "resume" => task.attempt
    BY DEF TypeInv, Linked, Going
  <2> HIDE DEF Row, Left
  <2> QED
    BY <1>2, <1>3, <2>1, <2>2
<1>5. CASE EndPaused
  <2>1. Left("paused") /\ task' = Cleaned([Charged("paused") EXCEPT !.snap = TRUE])
    BY <1>5 DEF EndPaused, Ending, Leave
  <2> HIDE DEF Row, Left
  <2>2. CASE item = "resume"
    BY <1>1, <1>3, <2>1, <2>2
  <2>3. CASE item # "resume"
    BY <1>1, <1>2, <1>3, <2>1, <2>3
  <2> QED
    BY <2>2, <2>3
<1>6. CASE EndDone
  <2>1. PICK status \in {"done", "queued"} : Left(status) /\ task' = Cleaned(Charged(status))
    <3>1. CASE Leave("none") /\ task' = Cleaned(Charged("done"))
      BY <1>6, <3>1 DEF EndDone, Ending, Leave
    <3>2. CASE Leave("start") /\ task' = Cleaned(Charged("queued"))
      BY <1>6, <3>2 DEF EndDone, Ending, Leave
    <3> QED
      BY <1>6, <3>1, <3>2 DEF EndDone
  <2> HIDE DEF Row, Left
  <2>2. CASE item = "resume"
    BY <1>1, <1>3, <2>1, <2>2
  <2>3. CASE item # "resume"
    BY <1>1, <1>2, <1>3, <2>1, <2>3
  <2> QED
    BY <2>2, <2>3
<1> QED
  BY <1>4, <1>5, <1>6

\* What it leaves of the task.
LEMMA EndsTask ==
    ASSUME TypeInv, NEW status \in {"paused", "done", "queued"}, Ends(status)
    PROVE  /\ task' \in TaskRows /\ task'.status = status
           /\ task'.used = task.used + turn.usage /\ task'.total = task.total
           /\ task'.actions = IF status = "paused" THEN Kept ELSE task.actions
           /\ item = "resume" /\ status = "paused" => task'.attempt \/ ~task'.snap
<1>1. PICK snap \in BOOLEAN, attempt \in BOOLEAN :
        /\ task' = [Charged(status) EXCEPT !.snap = snap, !.attempt = attempt]
        /\ item = "resume" /\ status = "paused" => attempt \/ ~snap
  BY Zenon DEF Ends
<1>2. status \in Statuses
  BY DEF Statuses
<1>3. /\ Charged(status) \in TaskRows /\ Charged(status).status = status
      /\ Charged(status).used = task.used + turn.usage
      /\ Charged(status).total = task.total
      /\ Charged(status).actions = IF status = "paused" THEN Kept ELSE task.actions
  BY <1>2, ChargedType
<1>4. \A row \in TaskRows :
        LET new == [row EXCEPT !.snap = snap, !.attempt = attempt] IN
        /\ new \in TaskRows /\ new.status = row.status /\ new.used = row.used
        /\ new.total = row.total /\ new.actions = row.actions
        /\ new.snap = snap /\ new.attempt = attempt
  BY DEF TaskRows
<1> HIDE DEF TaskRows
<1> QED
  BY <1>1, <1>3, <1>4

LEMMA EndType == TypeInv /\ (EndExhausted \/ EndPaused \/ EndDone) => TypeInv'
<1> SUFFICES ASSUME TypeInv, EndExhausted \/ EndPaused \/ EndDone PROVE TypeInv'
  OBVIOUS
<1>1. PICK status \in {"paused", "done", "queued"} : Ends(status)
  BY EndEnds
<1>2. /\ task' \in TaskRows /\ task'.status = status
      /\ task'.actions = IF status = "paused" THEN Kept ELSE task.actions
      /\ item = "resume" /\ status = "paused" => task'.attempt \/ ~task'.snap
  BY <1>1, EndsTask
<1>3. item' = IF status = "queued" THEN "start" ELSE "none"
  BY <1>1 DEF Ends
<1>4. PaidIn(task') => item = "resume" /\ status = "paused"
  BY <1>1, <1>2, KeptType DEF PaidIn, Ends, TypeInv, Linked, Carried
<1>5. Going(task', item') /\ item' \in Commands
  BY <1>2, <1>3, <1>4 DEF Going, Commands
<1>6. CountsType' /\ books' \in Books /\ turn' = NoTurn
  BY <1>1 DEF Ends, TypeInv, CountsType, bounds
<1> QED
  BY <1>2, <1>5, <1>6, LeaveType

LEMMA CheckpointType ==
    ASSUME TypeInv, turn.called # << >>
    PROVE  Checkpoint \in Checkpoints /\ <<Checkpoint>> \in Seq(Checkpoints)
           /\ <<Checkpoint>> # << >> /\ Head(<<Checkpoint>>) = Checkpoint
<1>1. Checkpoint \in Checkpoints
  BY CallTyped DEF Checkpoint, Checkpoints, TypeInv, Turns
<1> QED
  BY <1>1

LEMMA InterruptType == TypeInv /\ (Interrupt \/ InterruptUnsaved) => TypeInv'
<1> SUFFICES ASSUME TypeInv, Interrupt \/ InterruptUnsaved PROVE TypeInv'
  OBVIOUS
<1>1. Leave("none") /\ turn.called # << >>
  BY DEF Interrupt, InterruptUnsaved, TypeInv, Linked
<1>2. CountsType' /\ turn' = NoTurn /\ item' = "none"
  BY <1>1, LeaveCounts
<1>3. /\ <<Checkpoint>> \in Seq(Checkpoints) /\ Head(<<Checkpoint>>) = Checkpoint
      /\ Checkpoint.paid = FALSE
  BY <1>1, CheckpointType DEF Checkpoint
<1>4. task' \in TaskRows /\ ~PaidIn(task')
  <2>1. CASE Interrupt
    <3>1. /\ task' \in TaskRows /\ task'.actions = <<Checkpoint>>
      BY <1>3, <2>1 DEF Interrupt, TypeInv, TaskRows, Statuses
    <3> QED
      BY <1>3, <3>1 DEF PaidIn
  <2>2. CASE InterruptUnsaved
    <3>1. task' \in TaskRows /\ task'.status = "running"
      BY <2>2 DEF InterruptUnsaved, TypeInv, TaskRows, Statuses
    <3> QED
      BY <3>1 DEF PaidIn
  <2> QED
    BY <2>1, <2>2
<1>5. books' \in Books
  BY DEF Interrupt, InterruptUnsaved, TypeInv, Books, Turns
<1>6. Going(task', item') /\ item' \in Commands
  BY <1>2, <1>4 DEF Going, Commands
<1> QED
  BY <1>2, <1>4, <1>5, <1>6, LeaveType

LEMMA FailType == TypeInv /\ InvocationFails => TypeInv'
<1> SUFFICES ASSUME TypeInv, InvocationFails PROVE TypeInv'
  OBVIOUS
<1>1. books' \in Books
  <2>1. books' = [books EXCEPT !.lost = @ + turn.usage]
    BY Zenon DEF InvocationFails
  <2>2. books.lost + turn.usage \in Nat
    BY DEF TypeInv, Books, Turns
  <2> QED
    BY <2>1, <2>2 DEF TypeInv, Books
<1>2. /\ CountsType' /\ turn' = NoTurn
      /\ \/ task' = [task EXCEPT !.status = "failed"] /\ item' = "none"
         \/ task' = [task EXCEPT !.status = "queued"] /\ item' = "start"
  BY LeaveCounts, Zenon DEF InvocationFails
<1>3. /\ task' \in TaskRows
      /\ \/ task'.status = "failed" /\ item' = "none"
         \/ task'.status = "queued" /\ item' = "start"
  BY <1>2 DEF TypeInv, TaskRows, Statuses
<1>4. Going(task', item') /\ item' \in Commands
  BY <1>3 DEF Going, PaidIn, Commands
<1> QED
  BY <1>1, <1>2, <1>3, <1>4, LeaveType

LEMMA RollsBackType ==
    ASSUME TypeInv, turn.at # "idle", RollsBack
    PROVE  /\ turn' = NoTurn /\ books' \in Books /\ undone' \in [1 .. Batches -> Nat]
           /\ books'.spent = books.spent
           /\ books'.lost = books.lost + turn.usage - Parked
           /\ \A b \in 1 .. Batches :
                 undone'[b] = IF b \in turn.ran THEN undone[b] + 1 ELSE undone[b]
<1>1. books.lost + turn.usage - Parked \in Nat
  <2>1. turn.usage \in Nat /\ books.lost \in Nat /\ Parked \in Nat /\ turn.usage >= Parked
    BY ParkedType DEF TypeInv, Turns, Books, Linked
  <2> QED
    BY <2>1
<1>2. /\ books' \in Books /\ books'.spent = books.spent
      /\ books'.lost = books.lost + turn.usage - Parked
  BY <1>1 DEF RollsBack, TypeInv, Books
<1>3. \A b \in 1 .. Batches : undone[b] \in Nat /\ undone[b] + 1 \in Nat
  BY DEF TypeInv, CountsType
<1> QED
  BY <1>2, <1>3 DEF RollsBack

LEMMA CrashType == TypeInv /\ (Raise \/ Crash) => TypeInv'
<1> SUFFICES ASSUME TypeInv, Raise \/ Crash PROVE TypeInv'
  OBVIOUS
<1>1. turn.at # "idle" /\ RollsBack /\ item # "none"
  BY DEF Raise, Crash, TypeInv, Linked
<1>2. turn' = NoTurn /\ books' \in Books /\ undone' \in [1 .. Batches -> Nat]
  BY <1>1, RollsBackType
<1>3. CASE Raise
  <2>1. CountsType'
    BY <1>2, <1>3 DEF Raise, TypeInv, CountsType, bounds
  <2>2. task' \in TaskRows /\ item' \in Commands /\ Going(task', item')
    BY <1>1, <1>3, RaisesType DEF Raise
  <2> QED
    BY <1>2, <2>1, <2>2, LeaveType
<1>4. CASE Crash
  <2>1. CountsType'
    BY <1>2, <1>4, Bounds DEF Crash, TypeInv, CountsType
  <2>2. task' = task /\ item' = item
    BY <1>4 DEF Crash
  <2> QED
    BY <1>2, <2>1, <2>2, LeaveType DEF TypeInv, Linked
<1> QED
  BY <1>3, <1>4

\* The steps as the proofs split them.
Steps ==
    \/ Start \/ Resume \/ PauseQueued \/ RequestPause
    \/ FailsUnloaded \/ RefuseForBudget \/ Begin \/ CallResumed \/ Call \/ AskRefused
    \/ Answers \/ Interrupt \/ InterruptUnsaved \/ EndExhausted \/ EndPaused \/ EndDone
    \/ InvocationFails \/ Raise \/ Crash

LEMMA NextSteps == Next <=> Steps
BY DEF Next, Steps, Answers

LEMMA StepType == TypeInv /\ [Next]_vars => TypeInv'
<1> SUFFICES ASSUME TypeInv, [Next]_vars PROVE TypeInv'
  OBVIOUS
<1>1. CASE Next
  BY <1>1, NextSteps, StartType, ResumeType, PauseType, RefuseType, BeginType, CallType,
     AskRefusedType, AnswerType, InterruptType, EndType, FailType, CrashType DEF Steps
<1>2. CASE UNCHANGED vars
  BY <1>2 DEF vars, TypeInv, CountsType, Linked, Going, PaidIn, Carried, Parked
<1> QED
  BY <1>1, <1>2

\* The task, its item, the window and the books keep their types through every
\* request, window, pause, failure, exception and crash.
THEOREM TypeCorrect == Spec => []TypeOK
<1> QED
  BY InitType, StepType, TypeInvType, PTL DEF Spec

-----------------------------------------------------------------------------
(***************************************************************************)
(* Rounds.                                                                 *)
(***************************************************************************)
\* A checkpoint that carries a talk has counted each of its rounds.
Rounded(c) == c.round = Len(c.talk) /\ c.round < MaxRounds

\* So does the window, and what it will check against the limit of rounds.
RoundInv ==
    /\ task.actions # << >> => Rounded(Head(task.actions))
    /\ turn.at # "idle" => turn.round = Len(turn.talk)
    /\ turn.at \in {"resuming", "calling", "interrupted"} => turn.round < MaxRounds
    /\ turn.at = "asking" => turn.round <= MaxRounds

\* A step that leaves the window idle and whose pending actions are rounded.
LEMMA IdleRounds ==
    ASSUME turn'.at = "idle", task'.actions # << >> => Rounded(Head(task'.actions))
    PROVE  RoundInv'
BY DEF RoundInv, Rounded

\* The requests and the steps between two windows keep the pending actions or
\* drop them.
LEMMA IdleActions ==
    ASSUME TypeInv,
           \/ Start \/ Resume \/ PauseQueued \/ RequestPause \/ FailsUnloaded
           \/ RefuseForBudget \/ InterruptUnsaved \/ InvocationFails \/ Raise \/ Crash
    PROVE  /\ task'.actions \in {task.actions, << >>}
           /\ turn'.at = "idle"
<1>1. CASE Start
  BY <1>1 DEF Start, Request, TypeInv, TaskRows
<1>2. CASE Resume \/ PauseQueued \/ RequestPause
  BY <1>2 DEF Resume, PauseQueued, RequestPause, Request, TypeInv, TaskRows
<1>3. CASE FailsUnloaded \/ RefuseForBudget
  <2>1. CASE FailsUnloaded
    BY <2>1 DEF FailsUnloaded, Window, TypeInv, TaskRows
  <2>2. CASE RefuseForBudget
    BY <2>2, RaisesType DEF RefuseForBudget, Window
  <2> QED
    BY <1>3, <2>1, <2>2
<1>4. CASE InterruptUnsaved
  BY <1>4 DEF InterruptUnsaved, Leave, NoTurn, TypeInv, TaskRows
<1>5. CASE InvocationFails
  BY <1>5 DEF InvocationFails, Leave, NoTurn, TypeInv, TaskRows
<1>6. CASE Crash
  BY <1>6 DEF Crash, RollsBack, NoTurn
<1>7. CASE Raise
  <2>1. turn.at # "idle" /\ Raises /\ turn' = NoTurn /\ item # "none"
    BY <1>7 DEF Raise, RollsBack, TypeInv, Linked
  <2> QED
    BY <2>1, RaisesType DEF NoTurn
<1> QED
  BY <1>1, <1>2, <1>3, <1>4, <1>5, <1>6, <1>7

LEMMA EndsActions ==
    ASSUME TypeInv, NEW status \in {"paused", "done", "queued"}, Ends(status)
    PROVE  /\ turn'.at = "idle"
           /\ task'.status = status
           /\ task'.used = task.used + turn.usage /\ task'.total = task.total
           /\ task'.actions = IF status = "paused" THEN Kept ELSE task.actions
BY EndsTask DEF Ends, NoTurn

LEMMA InterruptTask ==
    ASSUME TypeInv, Interrupt
    PROVE  /\ turn'.at = "idle" /\ turn.called # << >>
           /\ task'.status = "paused" /\ task'.actions = <<Checkpoint>>
           /\ task'.used = task.used /\ task'.total = task.total
           /\ task'.actions # << >> /\ Head(task'.actions) = Checkpoint
<1>1. turn.called # << >>
  BY DEF Interrupt, TypeInv, Linked
<1>2. task' = [task EXCEPT !.status = "paused", !.actions = <<Checkpoint>>,
                           !.snap = TRUE]
  BY DEF Interrupt
<1>3. task'.status = "paused" /\ task'.actions = <<Checkpoint>>
      /\ task'.used = task.used /\ task'.total = task.total
  BY <1>2 DEF TypeInv, TaskRows
<1> QED
  BY <1>1, <1>3, CheckpointType DEF Interrupt, Leave, NoTurn

\* The call of a resumed batch or of one just asked for.
LEMMA CallTurn ==
    ASSUME TypeInv, Call \/ CallResumed
    PROVE  \E call \in Messages :
              /\ \/ turn.at = "resuming" /\ call = Head(turn.carried).call
                 \/ turn.at = "calling" /\ call = Last(turn.called)
              /\ turn'.at = "asking" /\ turn'.round = turn.round + 1
              /\ turn'.talk = Append(turn.talk, call)
              /\ turn'.usage = turn.usage /\ turn'.carried = turn.carried
              /\ turn'.ran = turn.ran \cup {call.batch}
              /\ ran' = [ran EXCEPT ![call.batch] = @ + 1]
              /\ UNCHANGED <<task, item, asked, undone, books, bounds>>
<1>1. PICK call \in Messages :
        /\ \/ turn.at = "resuming" /\ call = Head(turn.carried).call
           \/ turn.at = "calling" /\ call = Last(turn.called)
        /\ Executed(call)
  BY CallTyped DEF Call, CallResumed, TypeInv, Linked
<1>2. /\ turn'.at = "asking" /\ turn'.round = turn.round + 1
      /\ turn'.talk = Append(turn.talk, call)
      /\ turn'.usage = turn.usage /\ turn'.carried = turn.carried
      /\ turn'.ran = turn.ran \cup {call.batch}
  BY <1>1 DEF Executed, TypeInv, Turns
<1> QED
  BY <1>1, <1>2 DEF Executed

LEMMA RoundStep == TypeInv /\ RoundInv /\ Steps => RoundInv'
<1> SUFFICES ASSUME TypeInv, RoundInv, Steps PROVE RoundInv'
  OBVIOUS
<1>1. CASE \/ Start \/ Resume \/ PauseQueued \/ RequestPause \/ FailsUnloaded
           \/ RefuseForBudget \/ InterruptUnsaved \/ InvocationFails \/ Raise \/ Crash
  BY <1>1, IdleActions, IdleRounds DEF RoundInv
<1>2. CASE EndExhausted \/ EndPaused \/ EndDone
  <2>1. PICK status \in {"paused", "done", "queued"} : Ends(status)
    BY <1>2, EndEnds
  <2>2. ASSUME Kept # << >> PROVE Rounded(Head(Kept))
    <3>1. turn.carried # << >> /\ Head(Kept).round = Head(turn.carried).round
          /\ Head(Kept).talk = Head(turn.carried).talk
      BY <2>2, KeptType
    <3>2. turn.carried = task.actions
      BY <2>1, <3>1 DEF Ends, TypeInv, Linked, Carried
    <3> QED
      BY <3>1, <3>2 DEF RoundInv, Rounded
  <2> QED
    BY <2>1, <2>2, EndsActions, IdleRounds DEF RoundInv
<1>3. CASE Interrupt
  <2>1. Checkpoint.round = turn.round /\ Checkpoint.talk = turn.talk
    BY DEF Checkpoint
  <2>2. Rounded(Checkpoint)
    BY <1>3, <2>1 DEF RoundInv, Rounded, Interrupt
  <2> QED
    BY <1>3, <2>2, InterruptTask, IdleRounds
<1>4. CASE Begin
  <2>1. task' = task
    BY <1>4 DEF Begin
  <2>2. CASE Carried = << >>
    BY <1>4, <2>1, <2>2, BeginTurn, Bounds DEF RoundInv, Rounded
  <2>3. CASE Carried # << >>
    <3>1. Rounded(Head(Carried))
      BY <2>3 DEF Carried, RoundInv
    <3>2. turn'.at = "resuming" /\ turn'.round = Head(Carried).round
          /\ turn'.talk = Head(Carried).talk
      BY <1>4, <2>3, BeginTurn
    <3> QED
      BY <2>1, <3>1, <3>2 DEF RoundInv, Rounded
  <2> QED
    BY <2>2, <2>3
<1>5. CASE Call \/ CallResumed
  <2>1. PICK call \in Messages :
          /\ turn.at \in {"resuming", "calling"}
          /\ turn'.at = "asking" /\ turn'.round = turn.round + 1
          /\ turn'.talk = Append(turn.talk, call) /\ task' = task
    BY <1>5, CallTurn
  <2>2. turn.talk \in Seq(Messages) /\ turn.round \in Nat
    BY DEF TypeInv, Turns
  <2>3. Len(turn'.talk) = Len(turn.talk) + 1
    BY <2>1, <2>2
  <2>4. turn'.round = Len(turn'.talk) /\ turn'.round <= MaxRounds
    BY <2>1, <2>2, <2>3, Bounds DEF RoundInv
  <2> QED
    BY <2>1, <2>4 DEF RoundInv, Rounded
<1>6. CASE AskRefused
  <2>1. task' = task /\ turn'.at = "ending" /\ turn'.round = turn.round
        /\ turn'.talk = turn.talk /\ turn.at = "asking"
    BY <1>6 DEF AskRefused, TypeInv, Turns
  <2> QED
    BY <2>1 DEF RoundInv, Rounded
<1>7. CASE Answers
  <2>1. PICK cost \in 1 .. MaxCost :
          /\ Grows(cost)
          /\ turn'.at \in {"calling", "interrupted"} => turn.round < MaxRounds
          /\ turn'.at \in {"calling", "interrupted", "concluding", "ending"}
    BY <1>7, AnswerGoes
  <2> QED
    BY <2>1 DEF Grows, RoundInv, Rounded
<1> QED
  BY <1>1, <1>2, <1>3, <1>4, <1>5, <1>6, <1>7 DEF Steps

LEMMA RoundStutter == RoundInv /\ UNCHANGED vars => RoundInv'
BY DEF RoundInv, Rounded, vars

LEMMA InitRounds == Init => RoundInv
BY DEF Init, RoundInv, NoTurn

\* However often a conversation is put into a checkpoint and restored from it,
\* its rounds are counted through and the model never answers beyond the limit
\* (invoke.py:435, 467, 691).
THEOREM RoundsCountedThrough == Spec => []RoundsCounted
<1>1. RoundInv => RoundsCounted
  BY DEF RoundInv, RoundsCounted
<1>2. TypeInv /\ RoundInv /\ [Next]_vars => RoundInv'
  BY NextSteps, RoundStep, RoundStutter
<1> QED
  BY InitType, StepType, InitRounds, <1>1, <1>2, PTL DEF Spec

-----------------------------------------------------------------------------
(***************************************************************************)
(* Tokens.                                                                 *)
(***************************************************************************)
\* The tokens that no charge has met yet.
Held == IF turn.at = "idle" THEN Parked ELSE turn.usage

\* A window that goes on is within the budget, with all its checkpoint brought.
Within ==
    /\ Unpaid => task.used + Head(task.actions).usage <= task.total
    /\ turn.at \in {"resuming", "asking", "calling", "interrupted", "concluding"} =>
          task.used + turn.usage <= task.total
    /\ task.used + turn.usage <= task.total + MaxCost

\* The books are inductive together with what a window may still do.
BookInv == SpentIsAccounted /\ Within

LEMMA Numbers ==
    TypeInv => /\ task.used \in Nat /\ task.total \in Nat /\ turn.usage \in Nat
               /\ books.spent \in Nat /\ books.lost \in Nat /\ Parked \in Nat
BY ParkedType DEF TypeInv, TaskRows, Turns, Books

\* What a request does to the numbers of the task.
LEMMA RequestNumbers ==
    ASSUME TypeInv, Start \/ Resume \/ PauseQueued \/ RequestPause
    PROVE  /\ UNCHANGED <<turn, books>> /\ turn.at = "idle"
           /\ task'.used = task.used
           /\ task'.total \in Nat /\ task'.total >= task.total
           /\ \/ task'.status = task.status /\ task'.actions = task.actions
              \/ task.status # "paused" /\ task'.status # "paused"
              \/ task.status # "paused" /\ task'.actions = << >>
<1>1. CASE Start
  <2>1. \A total \in {task.total, task.total + TopUp} :
          total \in Nat /\ total >= task.total
    BY Numbers, Bounds
  <2>2. PICK total \in Nat : total >= task.total
          /\ task' = [task EXCEPT !.status = "queued", !.pause = FALSE, !.total = total]
    BY <1>1, <2>1 DEF Start
  <2>3. task'.used = task.used /\ task'.total = total /\ task'.status = "queued"
    BY <2>2 DEF TypeInv, TaskRows
  <2>4. task.status # "paused"
    BY <1>1 DEF Start
  <2>5. UNCHANGED <<turn, books>> /\ turn.at = "idle"
    BY <1>1 DEF Start, Request
  <2> QED
    BY <2>2, <2>3, <2>4, <2>5
<1>2. CASE Resume \/ PauseQueued \/ RequestPause
  <2>1. /\ task'.used = task.used /\ task'.total = task.total
        /\ \/ task'.status = task.status /\ task'.actions = task.actions
           \/ task.status # "paused" /\ task'.actions = << >>
    BY <1>2 DEF Resume, PauseQueued, RequestPause, TypeInv, TaskRows
  <2>2. UNCHANGED <<turn, books>> /\ turn.at = "idle"
    BY <1>2 DEF Resume, PauseQueued, RequestPause, Request
  <2>3. task.total \in Nat /\ task.total >= task.total
    BY Numbers
  <2> QED
    BY <2>1, <2>2, <2>3
<1> QED
  BY <1>1, <1>2

LEMMA RequestBooks ==
    ASSUME TypeInv, BookInv, Start \/ Resume \/ PauseQueued \/ RequestPause
    PROVE  BookInv'
<1>1. Parked' = Parked /\ (Unpaid' <=> Unpaid)
      /\ (Unpaid => Head(task'.actions) = Head(task.actions))
  BY RequestNumbers DEF Parked, Unpaid
<1>2. SpentIsAccounted'
  BY <1>1, RequestNumbers, Numbers DEF BookInv, SpentIsAccounted
<1>3. Unpaid' => task'.used + Head(task'.actions).usage <= task'.total
  <2>1. Unpaid => Head(task.actions).usage \in Nat
    BY ParkedType DEF Unpaid, Parked
  <2> QED
    BY <1>1, <2>1, RequestNumbers, Numbers DEF BookInv, Within
<1>4. task'.used + turn'.usage <= task'.total + MaxCost
  BY RequestNumbers, Numbers, Bounds DEF BookInv, Within
<1>5. turn'.at = "idle"
  BY RequestNumbers
<1> QED
  BY <1>2, <1>3, <1>4, <1>5 DEF BookInv, Within

\* An exception keeps a checkpoint with what it cost.
LEMMA RaisesParked ==
    ASSUME TypeInv, item # "none", Raises
    PROVE  /\ Parked' = Parked /\ (Unpaid' <=> Unpaid) /\ task'.actions = task.actions
           /\ task'.used = task.used /\ task'.total = task.total
BY RaisesType DEF Parked, Unpaid

LEMMA KeptBooks ==
    ASSUME TypeInv, BookInv, UNCHANGED <<turn, books>>, turn.at = "idle",
           item # "none", Raises
    PROVE  BookInv'
BY RaisesParked DEF BookInv, Within, SpentIsAccounted

LEMMA RefuseBooks ==
    TypeInv /\ BookInv /\ (RefuseForBudget \/ FailsUnloaded) => BookInv'
<1> SUFFICES ASSUME TypeInv, BookInv, RefuseForBudget \/ FailsUnloaded PROVE BookInv'
  OBVIOUS
<1>1. CASE RefuseForBudget
  <2>1. /\ UNCHANGED <<turn, books>> /\ turn.at = "idle" /\ item # "none" /\ Raises
    BY <1>1 DEF RefuseForBudget, Window
  <2> QED
    BY <2>1, KeptBooks
<1>2. CASE FailsUnloaded
  <2>1. /\ turn' = turn /\ turn.at = "idle"
        /\ books'.spent = books.spent /\ books'.lost = books.lost + Parked
    BY <1>2 DEF FailsUnloaded, Window, TypeInv, Books
  <2>2. task'.status = "failed" /\ task'.used = task.used /\ task'.total = task.total
    BY <1>2 DEF FailsUnloaded, TypeInv, TaskRows
  <2>3. Parked' = 0 /\ ~Unpaid'
    BY <2>2 DEF Parked, Unpaid
  <2>4. SpentIsAccounted'
    BY <2>1, <2>2, <2>3, Numbers DEF BookInv, SpentIsAccounted
  <2> QED
    BY <2>1, <2>2, <2>3, <2>4 DEF BookInv, Within
<1> QED
  BY <1>1, <1>2

LEMMA BeginBooks == TypeInv /\ BookInv /\ Begin => BookInv'
<1> SUFFICES ASSUME TypeInv, BookInv, Begin PROVE BookInv'
  OBVIOUS
<1>1. UNCHANGED <<task, books>> /\ item # "none" /\ turn.at = "idle" /\ ~Overrun(Entry)
  BY DEF Begin, Window
<1>2. turn'.usage = IF Carried = << >> THEN 0 ELSE Head(Carried).usage
  BY BeginTurn
<1>3. turn'.at \in {"asking", "resuming"} /\ turn'.usage \in Nat
  BY BeginTurn DEF Turns
<1>4. Parked = turn'.usage
  BY <1>1, <1>2, ParkedCarried
<1>5. task.used + turn'.usage <= task.total
  <2>1. CASE Carried = << >>
    BY <1>1, <1>2, <2>1, Numbers, Bounds DEF Overrun
  <2>2. CASE Carried # << >>
    BY <1>1, <1>2, <2>2, ParkedCarried DEF BookInv, Within
  <2> QED
    BY <2>1, <2>2
<1>6. SpentIsAccounted'
  BY <1>1, <1>3, <1>4 DEF BookInv, SpentIsAccounted
<1>7. task'.used + turn'.usage <= task'.total + MaxCost
  BY <1>1, <1>3, <1>5, Numbers, Bounds
<1>8. Unpaid' => task'.used + Head(task'.actions).usage <= task'.total
  BY <1>1 DEF BookInv, Within, Unpaid
<1> QED
  BY <1>1, <1>3, <1>5, <1>6, <1>7, <1>8 DEF BookInv, Within

\* A step inside a window that pays what it adds to the window's usage.
LEMMA InnerBooks ==
    ASSUME TypeInv, BookInv, NEW cost \in Nat,
           task' = task, turn.at # "idle",
           turn'.at \in {"asking", "calling", "interrupted", "concluding", "ending"},
           turn'.usage = turn.usage + cost,
           books'.spent = books.spent + cost, books'.lost = books.lost,
           turn'.at # "ending" => task.used + turn'.usage <= task.total,
           task.used + turn'.usage <= task.total + MaxCost
    PROVE  BookInv'
<1>1. SpentIsAccounted'
  BY Numbers DEF BookInv, SpentIsAccounted
<1>2. Unpaid' => task'.used + Head(task'.actions).usage <= task'.total
  BY DEF BookInv, Within, Unpaid
<1> QED
  BY <1>1, <1>2 DEF BookInv, Within

LEMMA CallBooks == TypeInv /\ BookInv /\ (Call \/ CallResumed) => BookInv'
<1> SUFFICES ASSUME TypeInv, BookInv, Call \/ CallResumed PROVE BookInv'
  OBVIOUS
<1>1. /\ turn.at \in {"resuming", "calling"}
      /\ turn'.at = "asking" /\ turn'.usage = turn.usage
      /\ UNCHANGED <<task, books>>
  BY CallTurn
<1>2. task.used + turn'.usage <= task.total
  BY <1>1 DEF BookInv, Within
<1>3. turn'.usage = turn.usage + 0 /\ books'.spent = books.spent + 0
  BY <1>1, Numbers
<1>4. task.used + turn'.usage <= task.total + MaxCost
  BY <1>1, <1>2, Numbers, Bounds
<1> QED
  BY <1>1, <1>2, <1>3, <1>4, InnerBooks

LEMMA AskRefusedBooks == TypeInv /\ BookInv /\ AskRefused => BookInv'
<1> SUFFICES ASSUME TypeInv, BookInv, AskRefused PROVE BookInv'
  OBVIOUS
<1>1. turn'.at = "ending" /\ turn'.usage = turn.usage /\ turn.at = "asking"
      /\ UNCHANGED <<task, books>>
  BY DEF AskRefused, TypeInv, Turns
<1>2. turn'.usage = turn.usage + 0 /\ books'.spent = books.spent + 0
  BY <1>1, Numbers
<1>3. task.used + turn'.usage <= task.total + MaxCost
  BY <1>1 DEF BookInv, Within
<1> QED
  BY <1>1, <1>2, <1>3, InnerBooks

LEMMA AnswerBooks == TypeInv /\ BookInv /\ Answers => BookInv'
<1> SUFFICES ASSUME TypeInv, BookInv, Answers PROVE BookInv'
  OBVIOUS
<1>1. PICK cost \in 1 .. MaxCost :
        /\ Grows(cost)
        /\ \/ turn'.at = "ending"
           \/ ~Exceeds(cost) /\ turn'.at \in {"calling", "interrupted", "concluding"}
  <2>1. PICK cost \in 1 .. MaxCost :
          /\ Grows(cost)
          /\ \/ turn'.at = "ending"
             \/ ~Exceeds(cost) /\ turn'.at \in {"concluding", "ending"}
             \/ ~Exceeds(cost) /\ turn'.at \in {"calling", "interrupted"}
    BY AnswerGoes
  <2> QED
    BY <2>1
<1>2. /\ UNCHANGED task /\ turn.at \in {"asking", "concluding"}
      /\ turn'.usage = turn.usage + cost
      /\ books'.spent = books.spent + cost /\ books'.lost = books.lost
  BY <1>1, PayingType DEF Grows
<1>3. cost \in Nat /\ cost <= MaxCost /\ MaxCost \in Nat
  BY Bounds
<1>4. turn'.at # "ending" => task.used + turn'.usage <= task.total
  BY <1>1, <1>2, <1>3, Numbers DEF Exceeds, Overrun
<1>5. task.used + turn'.usage <= task.total + MaxCost
  <2>1. task.used + turn.usage <= task.total
    BY <1>2 DEF BookInv, Within
  <2> QED
    BY <1>2, <1>3, <2>1, Numbers
<1> QED
  BY <1>1, <1>2, <1>3, <1>4, <1>5, InnerBooks

LEMMA EndBooks ==
    TypeInv /\ BookInv /\ (EndExhausted \/ EndPaused \/ EndDone) => BookInv'
<1> SUFFICES ASSUME TypeInv, BookInv, EndExhausted \/ EndPaused \/ EndDone PROVE BookInv'
  OBVIOUS
<1>1. PICK status \in {"paused", "done", "queued"} : Ends(status)
  BY EndEnds
<1>2. /\ turn'.at = "idle" /\ turn.at = "ending" /\ turn'.usage = 0
      /\ UNCHANGED books
  BY <1>1 DEF Ends, NoTurn
<1>3. /\ task'.status = status
      /\ task'.used = task.used + turn.usage /\ task'.total = task.total
      /\ task'.status = "paused" => task'.actions = Kept
  BY <1>1, EndsActions
<1>4. Parked' = 0 /\ ~Unpaid'
  BY <1>3, KeptType DEF Parked, Unpaid
<1>5. SpentIsAccounted'
  BY <1>2, <1>3, <1>4, Numbers DEF BookInv, SpentIsAccounted
<1>6. task'.used + turn'.usage <= task'.total + MaxCost
  BY <1>2, <1>3, Numbers, Bounds DEF BookInv, Within
<1> QED
  BY <1>2, <1>4, <1>5, <1>6 DEF BookInv, Within

LEMMA InterruptBooks == TypeInv /\ BookInv /\ Interrupt => BookInv'
<1> SUFFICES ASSUME TypeInv, BookInv, Interrupt PROVE BookInv'
  OBVIOUS
<1>1. /\ turn.at = "interrupted" /\ turn'.at = "idle" /\ turn'.usage = 0
      /\ UNCHANGED books
  BY DEF Interrupt, Leave, NoTurn
<1>2. Checkpoint.usage = turn.usage /\ Checkpoint.paid = FALSE
  BY DEF Checkpoint
<1>3. Parked' = turn.usage
  BY <1>2, InterruptTask DEF Parked
<1>4. SpentIsAccounted'
  BY <1>1, <1>3, InterruptTask, Numbers DEF BookInv, SpentIsAccounted
<1>5. task'.used + Head(task'.actions).usage <= task'.total
  BY <1>1, <1>2, InterruptTask DEF BookInv, Within
<1>6. task'.used + turn'.usage <= task'.total + MaxCost
  <2>1. task.used + turn.usage <= task.total
    BY <1>1 DEF BookInv, Within
  <2> QED
    BY <1>1, <2>1, InterruptTask, Numbers, Bounds
<1> QED
  BY <1>1, <1>4, <1>5, <1>6 DEF BookInv, Within

\* A window that is lost with what it used.
LEMMA LostBooks ==
    ASSUME TypeInv, BookInv, InterruptUnsaved \/ InvocationFails
    PROVE  BookInv'
<1>1. turn'.at = "idle" /\ turn'.usage = 0 /\ turn.at # "idle"
  BY DEF InterruptUnsaved, InvocationFails, Leave, NoTurn
<1>2. task'.used = task.used /\ task'.total = task.total /\ task'.status # "paused"
  BY DEF InterruptUnsaved, InvocationFails, TypeInv, TaskRows
<1>3. task'.used + turn'.usage <= task'.total + MaxCost
  BY <1>1, <1>2, Numbers, Bounds DEF BookInv, Within
<1>4. Parked' = 0 /\ ~Unpaid'
  BY <1>2 DEF Parked, Unpaid
<1>5. books' = [books EXCEPT !.lost = @ + turn.usage]
  BY Zenon DEF InterruptUnsaved, InvocationFails
<1>6. books'.spent = books.spent /\ books'.lost = books.lost + turn.usage
  BY <1>5 DEF TypeInv, Books
<1>7. SpentIsAccounted'
  BY <1>1, <1>2, <1>4, <1>6, Numbers DEF BookInv, SpentIsAccounted
<1> QED
  BY <1>1, <1>3, <1>4, <1>7 DEF BookInv, Within

\* One that is rolled back: its checkpoint waits as before.
LEMMA RolledBooks == TypeInv /\ BookInv /\ (Raise \/ Crash) => BookInv'
<1> SUFFICES ASSUME TypeInv, BookInv, Raise \/ Crash PROVE BookInv'
  OBVIOUS
<1>1. turn.at # "idle" /\ RollsBack /\ item # "none"
  BY DEF Raise, Crash, TypeInv, Linked
<1>2. /\ turn'.at = "idle" /\ turn'.usage = 0 /\ books'.spent = books.spent
      /\ books'.lost = books.lost + turn.usage - Parked
  BY <1>1, RollsBackType DEF NoTurn
<1>3. /\ Parked' = Parked /\ (Unpaid' <=> Unpaid) /\ task'.actions = task.actions
      /\ task'.used = task.used /\ task'.total = task.total
  <2>1. CASE Raise
    BY <1>1, <2>1, RaisesParked DEF Raise
  <2>2. CASE Crash
    BY <2>2 DEF Crash, Parked, Unpaid
  <2> QED
    BY <2>1, <2>2
<1>4. SpentIsAccounted'
  BY <1>1, <1>2, <1>3, Numbers DEF BookInv, SpentIsAccounted
<1>5. task'.used + turn'.usage <= task'.total + MaxCost
  BY <1>2, <1>3, Numbers, Bounds DEF BookInv, Within
<1> QED
  BY <1>2, <1>3, <1>4, <1>5 DEF BookInv, Within

LEMMA BookStep == TypeInv /\ BookInv /\ [Next]_vars => BookInv'
<1> SUFFICES ASSUME TypeInv, BookInv, [Next]_vars PROVE BookInv'
  OBVIOUS
<1>1. CASE Next
  BY <1>1, NextSteps, RequestBooks, RefuseBooks, BeginBooks, CallBooks, AskRefusedBooks,
     AnswerBooks, EndBooks, InterruptBooks, LostBooks, RolledBooks DEF Steps
<1>2. CASE UNCHANGED vars
  BY <1>2 DEF vars, BookInv, SpentIsAccounted, Within, Unpaid, Parked
<1> QED
  BY <1>1, <1>2

LEMMA InitBooks == Init => BookInv
<1> SUFFICES ASSUME Init PROVE BookInv
  OBVIOUS
<1>1. /\ turn.at = "idle" /\ turn.usage = 0 /\ task.used = 0 /\ task.total = Total
      /\ task.status = "draft" /\ books.spent = 0 /\ books.lost = 0
  BY DEF Init, NoTurn
<1> QED
  BY <1>1, Bounds DEF BookInv, SpentIsAccounted, Within, Unpaid, Parked

\* Every token spent is charged, waits in a checkpoint or in the running window, or
\* was lost with a window that failed or was rolled back, however often the same
\* checkpoint is resumed (worker.py:1619-1631, 2004-2024).
THEOREM SpentAccounted == Spec => []SpentIsAccounted
<1>1. BookInv => SpentIsAccounted
  BY DEF BookInv
<1> QED
  BY InitType, StepType, InitBooks, BookStep, <1>1, PTL DEF Spec

\* A task overshoots its budget by one answer at most (core.py:162-204).
THEOREM Overshoot == Spec => []OvershootBounded
<1>1. BookInv => OvershootBounded
  BY DEF BookInv, Within, OvershootBounded
<1> QED
  BY InitType, StepType, InitBooks, BookStep, <1>1, PTL DEF Spec

\* No tool is called for a task that is over its budget (invoke.py:606-619).
THEOREM CallsInBudget == Spec => []CallsWithinBudget
<1>1. TypeInv /\ BookInv => CallsWithinBudget
  BY Numbers DEF BookInv, Within, CallsWithinBudget, Overrun
<1> QED
  BY InitType, StepType, InitBooks, BookStep, <1>1, PTL DEF Spec

-----------------------------------------------------------------------------
(***************************************************************************)
(* Executions.                                                             *)
(***************************************************************************)
\* A batch that still has to be executed, here or after a resume, was executed by
\* windows that were rolled back only; and the running one will be counted among
\* them when it is.
Undone(b) == ran[b] <= undone[b]

ExecInv ==
    /\ \A b \in 1 .. Batches : b > asked => ran[b] = 0
    /\ task.actions # << >> => Head(task.actions).call.batch <= asked
    /\ turn.at \in {"calling", "interrupted"} =>
          /\ asked \in 1 .. Batches /\ Last(turn.called).batch = asked
          /\ ran[asked] = 0
    /\ turn.at = "idle" => turn.ran = {}
    /\ Unpaid => \/ Head(task.actions).call.batch \in turn.ran
                 \/ Undone(Head(task.actions).call.batch)
    /\ turn.at = "resuming" => Undone(Head(turn.carried).call.batch)
    /\ ExecutedOnce

LEMMA RanType ==
    TypeInv => /\ asked \in Nat /\ Batches \in Nat
               /\ \A b \in 1 .. Batches : ran[b] \in Nat /\ undone[b] \in Nat
BY Bounds DEF TypeInv, CountsType

\* The batch of a checkpoint is one of those that are numbered.
LEMMA HeadBatch ==
    ASSUME TypeInv, task.actions # << >>
    PROVE  Head(task.actions).call.batch \in 1 .. Batches
<1>1. task.actions \in Seq(Checkpoints)
  BY DEF TypeInv, TaskRows
<1>2. Head(task.actions) \in Checkpoints
  BY <1>1
<1> QED
  BY <1>2 DEF Checkpoints, Messages

\* A step that executes nothing and leaves no window behind.
LEMMA IdleExec ==
    ASSUME TypeInv, ExecInv, UNCHANGED <<asked, ran, undone>>,
           turn'.at = "idle", turn'.ran = {},
           task'.actions # << >> => Head(task'.actions).call.batch <= asked,
           Unpaid' => Undone(Head(task'.actions).call.batch)
    PROVE  ExecInv'
BY DEF ExecInv, ExecutedOnce, Undone

LEMMA RequestExec ==
    ASSUME TypeInv, ExecInv,
           \/ Start \/ Resume \/ PauseQueued \/ RequestPause
           \/ RefuseForBudget \/ FailsUnloaded
    PROVE  ExecInv'
<1>1. UNCHANGED <<turn, asked, ran, undone>> /\ turn.at = "idle"
  BY DEF Start, Resume, PauseQueued, RequestPause, Request, RefuseForBudget, FailsUnloaded,
         Window
<1>2. Unpaid' => Unpaid /\ Head(task'.actions) = Head(task.actions)
  <2>1. CASE RefuseForBudget
    BY <2>1, RaisesParked DEF RefuseForBudget, Window
  <2>2. CASE Start \/ Resume \/ PauseQueued \/ RequestPause
    BY <2>2, RequestNumbers DEF Unpaid
  <2>3. CASE FailsUnloaded
    BY <2>3 DEF FailsUnloaded, Unpaid, TypeInv, TaskRows
  <2> QED
    BY <2>1, <2>2, <2>3
<1>3. Unpaid' => Undone(Head(task'.actions).call.batch)
  BY <1>1, <1>2 DEF ExecInv
<1>4. task'.actions # << >> => Head(task'.actions).call.batch <= asked
  BY IdleActions DEF ExecInv
<1> QED
  BY <1>1, <1>3, <1>4, IdleExec DEF ExecInv

\* A window that is rolled back takes what it executed with it.
LEMMA RolledExec == TypeInv /\ ExecInv /\ (Raise \/ Crash) => ExecInv'
<1> SUFFICES ASSUME TypeInv, ExecInv, Raise \/ Crash PROVE ExecInv'
  OBVIOUS
<1>1. turn.at # "idle" /\ RollsBack /\ item # "none"
  BY DEF Raise, Crash, TypeInv, Linked
<1>2. /\ turn'.at = "idle" /\ turn'.ran = {}
      /\ \A b \in 1 .. Batches :
            undone'[b] = IF b \in turn.ran THEN undone[b] + 1 ELSE undone[b]
  BY <1>1, RollsBackType DEF NoTurn
<1>3. (Unpaid' <=> Unpaid) /\ task'.actions = task.actions
  <2>1. CASE Raise
    BY <1>1, <2>1, RaisesParked DEF Raise
  <2>2. CASE Crash
    BY <2>2 DEF Crash, Unpaid
  <2> QED
    BY <2>1, <2>2
<1>4. UNCHANGED <<asked, ran>>
  BY DEF Raise, Crash
<1>5. \A b \in 1 .. Batches : undone'[b] >= undone[b]
  BY <1>2, RanType
<1>6. ExecutedOnce'
  BY <1>4, <1>5, <1>2, RanType DEF ExecInv, ExecutedOnce
<1>7. ASSUME Unpaid PROVE ran[Head(task.actions).call.batch]
                           <= undone'[Head(task.actions).call.batch]
  <2> DEFINE b == Head(task.actions).call.batch
  <2>1. b \in 1 .. Batches
    BY <1>7, HeadBatch DEF Unpaid
  <2>2. b \in turn.ran \/ ran[b] <= undone[b]
    BY <1>7 DEF ExecInv, Undone
  <2>3. ran[b] <= 1 + undone[b]
    BY <2>1 DEF ExecInv, ExecutedOnce
  <2> HIDE DEF b
  <2>4. ran[b] <= undone'[b]
    BY <1>2, <2>1, <2>2, <2>3, RanType
  <2> QED
    BY <2>4 DEF b
<1> QED
  BY <1>2, <1>3, <1>4, <1>6, <1>7 DEF ExecInv, Undone

LEMMA LeaveExec ==
    ASSUME TypeInv, ExecInv,
           \/ EndExhausted \/ EndPaused \/ EndDone \/ Interrupt \/ InterruptUnsaved
           \/ InvocationFails
    PROVE  ExecInv'
<1>1. CASE EndExhausted \/ EndPaused \/ EndDone
  <2>1. PICK status \in {"paused", "done", "queued"} : Ends(status)
    BY <1>1, EndEnds
  <2>2. ~Unpaid' /\ turn'.at = "idle" /\ turn'.ran = {}
    BY <2>1, EndsActions, KeptType DEF Unpaid, Ends, NoTurn
  <2>3. Kept # << >> => Head(Kept).call = Head(task.actions).call /\ task.actions # << >>
    BY <2>1, KeptType DEF Ends, TypeInv, Linked, Carried
  <2>4. task'.actions # << >> => Head(task'.actions).call.batch <= asked
    BY <2>1, <2>3, EndsActions DEF ExecInv
  <2> QED
    BY <2>1, <2>2, <2>4, IdleExec DEF Ends
<1>2. CASE Interrupt
  <2>1. UNCHANGED <<asked, ran, undone>> /\ turn.at = "interrupted" /\ turn'.ran = {}
    BY <1>2 DEF Interrupt, Leave, NoTurn
  <2>2. Head(task'.actions).call = Last(turn.called) /\ turn'.at = "idle"
    BY <1>2, InterruptTask DEF Checkpoint
  <2>3. Head(task'.actions).call.batch = asked /\ asked \in 1 .. Batches /\ ran[asked] = 0
    BY <2>1, <2>2 DEF ExecInv
  <2>4. Undone(asked) /\ asked <= asked
    BY <2>3, RanType DEF Undone
  <2> QED
    BY <2>1, <2>2, <2>3, <2>4, IdleExec
<1>3. CASE InterruptUnsaved \/ InvocationFails
  <2>1. UNCHANGED <<asked, ran, undone>> /\ turn'.at = "idle" /\ turn'.ran = {}
    BY <1>3 DEF InterruptUnsaved, InvocationFails, Leave, NoTurn
  <2>2. ~Unpaid'
    BY <1>3 DEF InterruptUnsaved, InvocationFails, Unpaid, TypeInv, TaskRows
  <2>3. task'.actions # << >> => Head(task'.actions).call.batch <= asked
    BY <1>3, IdleActions DEF ExecInv
  <2> QED
    BY <2>1, <2>2, <2>3, IdleExec
<1> QED
  BY <1>1, <1>2, <1>3

LEMMA BeginExec == TypeInv /\ ExecInv /\ Begin => ExecInv'
<1> SUFFICES ASSUME TypeInv, ExecInv, Begin PROVE ExecInv'
  OBVIOUS
<1>1. UNCHANGED <<task, asked, ran, undone>> /\ turn.at = "idle" /\ item # "none"
  BY DEF Begin, Window
<1>2. /\ turn'.at \in {"asking", "resuming"} /\ turn'.carried = Carried
      /\ turn'.at = "resuming" => Carried # << >>
  BY BeginTurn
<1>3. turn'.at = "resuming" => Unpaid /\ Carried = task.actions
  BY <1>1, <1>2, ParkedCarried
<1>4. Unpaid => Undone(Head(task.actions).call.batch)
  BY <1>1 DEF ExecInv
<1> QED
  BY <1>1, <1>2, <1>3, <1>4 DEF ExecInv, ExecutedOnce, Undone, Unpaid

LEMMA CallExec == TypeInv /\ ExecInv /\ (Call \/ CallResumed) => ExecInv'
<1> SUFFICES ASSUME TypeInv, ExecInv, Call \/ CallResumed PROVE ExecInv'
  OBVIOUS
<1>1. PICK call \in Messages :
        /\ \/ turn.at = "resuming" /\ call = Head(turn.carried).call
           \/ turn.at = "calling" /\ call = Last(turn.called)
        /\ turn'.at = "asking" /\ ran' = [ran EXCEPT ![call.batch] = @ + 1]
        /\ turn'.ran = turn.ran \cup {call.batch}
        /\ UNCHANGED <<task, asked, undone>>
  BY CallTurn
<1>2. call.batch \in 1 .. Batches
  BY <1>1 DEF Messages
<1>3. \A b \in 1 .. Batches : ran'[b] = IF b = call.batch THEN ran[b] + 1 ELSE ran[b]
  BY <1>1, <1>2 DEF TypeInv, CountsType
<1>4. Undone(call.batch)
  <2>1. CASE turn.at = "resuming"
    BY <1>1, <2>1 DEF ExecInv
  <2>2. CASE turn.at = "calling"
    <3>1. call.batch = asked /\ ran[asked] = 0
      BY <1>1, <2>2 DEF ExecInv
    <3> QED
      BY <1>2, <3>1, RanType DEF Undone
  <2> QED
    BY <1>1, <2>1, <2>2
<1>5. call.batch <= asked
  <2>1. asked \in Nat /\ call.batch \in Nat
    BY <1>2, RanType
  <2>2. CASE turn.at = "calling"
    BY <1>1, <2>1, <2>2 DEF ExecInv
  <2>3. CASE turn.at = "resuming"
    BY <1>1, <2>3 DEF ExecInv, TypeInv, Linked, Carried
  <2> QED
    BY <1>1, <2>2, <2>3
<1>6. \A b \in 1 .. Batches : b > asked => ran'[b] = 0
  BY <1>2, <1>3, <1>5, RanType DEF ExecInv
<1>7. ExecutedOnce'
  BY <1>1, <1>2, <1>3, <1>4, RanType DEF ExecInv, ExecutedOnce, Undone
<1>8. Unpaid' => \/ Head(task'.actions).call.batch \in turn'.ran
                 \/ Undone(Head(task.actions).call.batch)'
  <2>1. SUFFICES ASSUME Unpaid
                 PROVE  \/ Head(task.actions).call.batch \in turn'.ran
                        \/ ran'[Head(task.actions).call.batch]
                              <= undone'[Head(task.actions).call.batch]
    <3>1. task' = task
      BY <1>1
    <3> QED
      BY <3>1 DEF Unpaid, Undone
  <2> DEFINE b == Head(task.actions).call.batch
  <2>2. b \in 1 .. Batches /\ (b \in turn.ran \/ ran[b] <= undone[b])
    BY <2>1, HeadBatch DEF Unpaid, ExecInv, Undone
  <2> HIDE DEF b
  <2>3. b \in turn'.ran \/ ran'[b] <= undone'[b]
    BY <1>1, <1>3, <2>2
  <2> QED
    BY <2>3 DEF b
<1>9. task'.actions # << >> => Head(task'.actions).call.batch <= asked'
  BY <1>1 DEF ExecInv
<1> QED
  BY <1>1, <1>6, <1>7, <1>8, <1>9 DEF ExecInv

LEMMA AskRefusedExec == TypeInv /\ ExecInv /\ AskRefused => ExecInv'
<1> SUFFICES ASSUME TypeInv, ExecInv, AskRefused PROVE ExecInv'
  OBVIOUS
<1>1. UNCHANGED <<task, asked, ran, undone>> /\ turn'.at = "ending" /\ turn'.ran = turn.ran
  BY DEF AskRefused, TypeInv, Turns
<1> QED
  BY <1>1 DEF ExecInv, ExecutedOnce, Undone, Unpaid

LEMMA AnswerExec == TypeInv /\ ExecInv /\ Answers => ExecInv'
<1> SUFFICES ASSUME TypeInv, ExecInv, Answers PROVE ExecInv'
  OBVIOUS
<1>1. PICK cost \in 1 .. MaxCost :
        /\ Grows(cost)
        /\ asked' \in 0 .. Batches
        /\ turn'.at \in {"calling", "interrupted", "concluding", "ending"}
        /\ \/ turn'.at = "ending" /\ asked' = asked
           \/ asked' = asked + 1 /\ Last(turn'.called) = [batch |-> asked + 1, cost |-> cost]
  BY AnswerGoes
<1>2. UNCHANGED <<task, ran, undone>> /\ turn'.ran = turn.ran
  BY <1>1, PayingType DEF Grows
<1>3. asked' >= asked /\ asked' \in Nat
  BY <1>1, RanType
<1>4. \A b \in 1 .. Batches : b > asked' => ran'[b] = 0
  BY <1>2, <1>3, RanType DEF ExecInv
<1>5. turn'.at \in {"calling", "interrupted"} =>
        /\ asked' \in 1 .. Batches /\ Last(turn'.called).batch = asked'
        /\ ran'[asked'] = 0
  <2>1. SUFFICES ASSUME turn'.at \in {"calling", "interrupted"}
                 PROVE  /\ asked' \in 1 .. Batches /\ Last(turn'.called).batch = asked'
                        /\ ran'[asked'] = 0
    OBVIOUS
  <2>2. asked' = asked + 1 /\ Last(turn'.called).batch = asked + 1
    BY <1>1, <2>1
  <2>3. asked' \in 1 .. Batches /\ asked' > asked
    BY <1>1, <2>2, RanType
  <2> QED
    BY <1>2, <2>2, <2>3 DEF ExecInv
<1>6. task'.actions # << >> => Head(task'.actions).call.batch <= asked'
  <2>1. task.actions # << >> => Head(task.actions).call.batch \in Nat
    <3>1. task.actions \in Seq(Checkpoints)
      BY DEF TypeInv, TaskRows
    <3>2. task.actions # << >> => Head(task.actions) \in Checkpoints
      BY <3>1
    <3> QED
      BY <3>2, Bounds DEF Checkpoints, Messages
  <2> QED
    BY <1>2, <1>3, <2>1, RanType DEF ExecInv
<1> QED
  BY <1>1, <1>2, <1>4, <1>5, <1>6 DEF ExecInv, ExecutedOnce, Undone, Unpaid

LEMMA ExecStep == TypeInv /\ ExecInv /\ [Next]_vars => ExecInv'
<1> SUFFICES ASSUME TypeInv, ExecInv, [Next]_vars PROVE ExecInv'
  OBVIOUS
<1>1. CASE Next
  BY <1>1, NextSteps, RequestExec, BeginExec, CallExec, AskRefusedExec, AnswerExec,
     LeaveExec, RolledExec DEF Steps
<1>2. CASE UNCHANGED vars
  BY <1>2 DEF vars, ExecInv, ExecutedOnce, Unpaid, Undone
<1> QED
  BY <1>1, <1>2

LEMMA InitExec == Init => ExecInv
<1> SUFFICES ASSUME Init PROVE ExecInv
  OBVIOUS
<1>1. /\ turn.at = "idle" /\ turn.ran = {} /\ task.actions = << >>
      /\ \A b \in 1 .. Batches : ran[b] = 0 /\ undone[b] = 0
  BY DEF Init, NoTurn
<1>2. \A b \in 1 .. Batches : ran[b] <= 1 + undone[b]
  BY <1>1
<1> QED
  BY <1>1, <1>2 DEF ExecInv, ExecutedOnce, Unpaid

\* A batch of calls is executed a second time only after a window that executed it
\* was rolled back, by an exception or with its worker: pauses, resumes, refusals,
\* retries and continuations never repeat it (invoke.py:408-452, worker.py:2004-2035).
THEOREM BatchesOnce == Spec => []ExecutedOnce
<1>1. ExecInv => ExecutedOnce
  BY DEF ExecInv
<1> QED
  BY InitType, StepType, InitExec, ExecStep, <1>1, PTL DEF Spec

-----------------------------------------------------------------------------
(***************************************************************************)
(* The cost of a conversation.  CostOf is a fold, whose definition picks   *)
(* one function among those that satisfy its recursion; that one exists    *)
(* and what it says of the first messages are shown by least               *)
(* counterexamples.                                                        *)
(***************************************************************************)
\* What the fold picks first, and the function it computes on the way: the costs
\* of the messages of any part of the first n.
Top(s) == CHOOSE x \in s : \A y \in s : x >= y
Folds(g, talk, n) ==
    g = [s \in SUBSET (1 .. n) |->
            IF s = {} THEN 0 ELSE g[s \ {Top(s)}] + talk[Top(s)].cost]

LEMMA LeastOf ==
    ASSUME NEW T \in SUBSET Nat, T # {}
    PROVE  \E x \in T : \A y \in T : x <= y
<1>1. IsWellFoundedOn(OpToRel(<, Nat), Nat)
  BY NatLessThanWellFounded
<1>2. PICK x \in T : \A y \in T : ~(<<y, x>> \in OpToRel(<, Nat))
  BY <1>1, WFMin, Zenon
<1>3. \A y \in T : ~(y < x)
  BY <1>2 DEF OpToRel
<1> QED
  BY <1>3

LEMMA TopOf ==
    ASSUME NEW n \in Nat, NEW s \in SUBSET (1 .. n), s # {}
    PROVE  Top(s) \in s /\ \A y \in s : Top(s) >= y
<1> DEFINE T == {k \in Nat : \A y \in s : y <= k}
<1>1. n \in T
  OBVIOUS
<1>2. PICK k \in T : \A j \in T : k <= j
  BY <1>1, LeastOf
<1>3. k \in s
  <2>1. ASSUME k \notin s PROVE FALSE
    <3>1. PICK y \in s : y \in 1 .. n /\ y <= k
      BY <1>2
    <3>2. k - 1 \in Nat
      BY <1>2, <3>1
    <3>3. \A z \in s : z <= k - 1
      BY <1>2, <2>1
    <3> QED
      BY <1>2, <3>2, <3>3
  <2> QED
    BY <2>1
<1>4. \A y \in s : k >= y
  BY <1>2
<1> QED
  BY <1>3, <1>4 DEF Top

LEMMA Without ==
    ASSUME NEW n \in Nat, n # 0
    PROVE  (1 .. n) \ {n} = 1 .. n - 1 /\ 1 .. n # {} /\ n \in 1 .. n
<1>1. \A i : i \in (1 .. n) \ {n} <=> i \in 1 .. n - 1
  OBVIOUS
<1>2. n \in 1 .. n
  OBVIOUS
<1> QED
  BY <1>1, <1>2

LEMMA TopIs ==
    ASSUME NEW n \in Nat, NEW s \in SUBSET (1 .. n), n \in s
    PROVE  Top(s) = n
<1>1. Top(s) \in s /\ Top(s) >= n
  BY TopOf
<1>2. Top(s) \in 1 .. n
  BY <1>1
<1> QED
  BY <1>1, <1>2

\* Such a function exists for every length.
LEMMA FoldExists ==
    ASSUME NEW talk, NEW n \in Nat
    PROVE  \E g : Folds(g, talk, n)
<1> DEFINE T == {k \in Nat : ~ \E g : Folds(g, talk, k)}
<1>1. SUFFICES ASSUME T # {} PROVE FALSE
  OBVIOUS
<1>2. PICK k \in T : \A j \in T : k <= j
  BY <1>1, LeastOf
<1>3. k # 0
  <2>1. Folds([s \in SUBSET (1 .. 0) |-> 0], talk, 0)
    <3>1. \A s \in SUBSET (1 .. 0) : s = {}
      OBVIOUS
    <3> QED
      BY <3>1 DEF Folds
  <2> QED
    BY <1>2, <2>1
<1>4. k - 1 \in Nat /\ k \in Nat /\ k - 1 \notin T
  BY <1>2, <1>3
<1>5. PICK g : Folds(g, talk, k - 1)
  BY <1>4
<1> DEFINE h == [s \in SUBSET (1 .. k) |->
                    IF k \in s THEN g[s \ {k}] + talk[k].cost ELSE g[s]]
<1>6. \A s \in SUBSET (1 .. k - 1) :
        g[s] = IF s = {} THEN 0 ELSE g[s \ {Top(s)}] + talk[Top(s)].cost
  BY <1>5, Zenon DEF Folds
<1>7. ASSUME NEW s \in SUBSET (1 .. k)
      PROVE  h[s] = IF s = {} THEN 0 ELSE h[s \ {Top(s)}] + talk[Top(s)].cost
  <2>1. CASE k \in s
    <3>1. Top(s) = k
      BY <1>4, <2>1, TopIs
    <3>2. s \ {k} \in SUBSET (1 .. k) /\ k \notin s \ {k}
      OBVIOUS
    <3>3. h[s \ {k}] = g[s \ {k}]
      BY <3>2
    <3>4. h[s] = g[s \ {k}] + talk[k].cost
      BY <2>1
    <3> HIDE DEF h
    <3> QED
      BY <2>1, <3>1, <3>3, <3>4
  <2>2. CASE k \notin s
    <3>1. s \in SUBSET (1 .. k - 1)
      BY <1>4, <2>2
    <3>2. s \ {Top(s)} \in SUBSET (1 .. k) /\ k \notin s \ {Top(s)}
      BY <2>2
    <3>3. h[s] = g[s] /\ h[s \ {Top(s)}] = g[s \ {Top(s)}]
      BY <2>2, <3>2
    <3> HIDE DEF h
    <3> QED
      BY <1>6, <3>1, <3>3
  <2> QED
    BY <2>1, <2>2
<1>8. Folds(h, talk, k)
  <2>1. h = [s \in SUBSET (1 .. k) |-> h[s]]
    OBVIOUS
  <2> HIDE DEF h
  <2> QED
    BY <1>7, <2>1, Zenon DEF Folds
<1> QED
  BY <1>2, <1>8

\* What it says of the first k messages depends on these alone.
LEMMA FoldPrefix ==
    ASSUME NEW talk, NEW long, NEW n \in Nat, NEW m \in Nat, NEW g, NEW h,
           Folds(g, talk, n), Folds(h, long, m),
           \A i \in 1 .. n : i <= m /\ long[i] = talk[i],
           n <= m
    PROVE  g[1 .. n] = h[1 .. n]
<1> DEFINE T == {k \in 0 .. n : g[1 .. k] # h[1 .. k]}
<1>1. SUFFICES ASSUME T # {} PROVE FALSE
  OBVIOUS
<1>2. T \in SUBSET Nat
  OBVIOUS
<1>3. PICK k \in T : \A j \in T : k <= j
  BY <1>1, <1>2, LeastOf
<1>4. \A s \in SUBSET (1 .. n) :
        g[s] = IF s = {} THEN 0 ELSE g[s \ {Top(s)}] + talk[Top(s)].cost
  BY Zenon DEF Folds
<1>5. \A s \in SUBSET (1 .. m) :
        h[s] = IF s = {} THEN 0 ELSE h[s \ {Top(s)}] + long[Top(s)].cost
  BY Zenon DEF Folds
<1>6. k \in 0 .. n /\ g[1 .. k] # h[1 .. k]
  BY <1>3
<1>7. 1 .. k \in SUBSET (1 .. n) /\ 1 .. k \in SUBSET (1 .. m)
  BY <1>6
<1>8. k # 0
  <2>1. 1 .. 0 = {} /\ 1 .. 0 \in SUBSET (1 .. n) /\ 1 .. 0 \in SUBSET (1 .. m)
    OBVIOUS
  <2>2. g[1 .. 0] = 0 /\ h[1 .. 0] = 0
    BY <1>4, <1>5, <2>1, Zenon
  <2> QED
    BY <1>6, <2>2
<1>9. Top(1 .. k) = k
  BY <1>6, <1>8, TopIs
<1>10. (1 .. k) \ {k} = 1 .. k - 1 /\ 1 .. k # {} /\ long[k] = talk[k]
  <2>1. k \in Nat /\ k \in 1 .. n
    BY <1>6, <1>8
  <2>2. (1 .. k) \ {k} = 1 .. k - 1 /\ 1 .. k # {}
    BY <1>8, <2>1, Without
  <2> QED
    BY <2>1, <2>2
<1>11. /\ g[1 .. k] = g[1 .. k - 1] + talk[k].cost
       /\ h[1 .. k] = h[1 .. k - 1] + long[k].cost
  BY <1>4, <1>5, <1>7, <1>9, <1>10
<1>12. g[1 .. k - 1] = h[1 .. k - 1]
  <2>1. k - 1 \in 0 .. n /\ ~(k <= k - 1)
    BY <1>6, <1>8
  <2> QED
    BY <1>3, <2>1
<1> QED
  BY <1>6, <1>10, <1>11, <1>12

LEMMA CostChosen ==
    ASSUME NEW talk \in Seq(Messages)
    PROVE  \E g : Folds(g, talk, Len(talk)) /\ CostOf(talk) = g[1 .. Len(talk)]
<1> DEFINE g == CHOOSE f : Folds(f, talk, Len(talk))
<1>1. DOMAIN talk = 1 .. Len(talk) /\ Len(talk) \in Nat
  OBVIOUS
<1>2. CostOf(talk) = g[1 .. Len(talk)]
  BY <1>1 DEF CostOf, FoldLeft, MapThenFoldSet, Max, Folds, Top
<1>3. Folds(g, talk, Len(talk))
  BY <1>1, FoldExists, Zenon
<1> QED
  BY <1>2, <1>3, Zenon

LEMMA CostOfNone == CostOf(<< >>) = 0
<1>1. PICK g : Folds(g, << >>, 0) /\ CostOf(<< >>) = g[1 .. 0]
  <2>1. << >> \in Seq(Messages) /\ Len(<< >>) = 0
    OBVIOUS
  <2> QED
    BY <2>1, CostChosen
<1>2. 1 .. 0 = {}
  OBVIOUS
<1>3. g[{}] = 0
  BY <1>1 DEF Folds
<1> QED
  BY <1>1, <1>2, <1>3

LEMMA CostOfAppend ==
    ASSUME NEW talk \in Seq(Messages), NEW call \in Messages
    PROVE  CostOf(Append(talk, call)) = CostOf(talk) + call.cost
<1> DEFINE long == Append(talk, call)
           n == Len(talk)
<1>1. /\ long \in Seq(Messages) /\ Len(long) = n + 1 /\ n \in Nat
      /\ \A i \in 1 .. n : i <= n + 1 /\ long[i] = talk[i]
      /\ long[n + 1] = call
  OBVIOUS
<1> HIDE DEF long, n
<1>2. PICK g : Folds(g, talk, n) /\ CostOf(talk) = g[1 .. n]
  BY CostChosen DEF n
<1>3. PICK h : Folds(h, long, n + 1) /\ CostOf(long) = h[1 .. n + 1]
  BY <1>1, CostChosen
<1>4. n + 1 \in Nat /\ n <= n + 1
  BY <1>1
<1>5. g[1 .. n] = h[1 .. n]
  BY <1>1, <1>2, <1>3, <1>4, FoldPrefix
<1>6. Top(1 .. n + 1) = n + 1
  BY <1>1, <1>4, TopIs
<1>7. (1 .. n + 1) \ {n + 1} = 1 .. n /\ 1 .. n + 1 # {}
  <2>1. n + 1 # 0 /\ n + 1 - 1 = n
    BY <1>1
  <2>2. (1 .. n + 1) \ {n + 1} = 1 .. (n + 1) - 1 /\ 1 .. n + 1 # {}
    BY <1>4, <2>1, Without
  <2>3. 1 .. (n + 1) - 1 = 1 .. n
    BY <1>1, <2>1
  <2> QED
    BY <2>2, <2>3
<1>8. \A s \in SUBSET (1 .. n + 1) :
        h[s] = IF s = {} THEN 0 ELSE h[s \ {Top(s)}] + long[Top(s)].cost
  BY <1>3, Zenon DEF Folds
<1>9. h[1 .. n + 1] = h[1 .. n] + call.cost
  BY <1>1, <1>6, <1>7, <1>8
<1> QED
  BY <1>2, <1>3, <1>5, <1>9 DEF long

\* A batch that waits in a checkpoint is paid for on top of its conversation.
Summed(c) == c.usage = CostOf(c.talk) + c.call.cost

\* So is one the window has asked for, or was resumed with, and not executed yet.
UsageInv ==
    /\ task.actions # << >> => Summed(Head(task.actions))
    /\ UsageIsOfConversation
    /\ turn.at \in {"calling", "interrupted"} =>
          turn.usage = CostOf(turn.talk) + Last(turn.called).cost
    /\ turn.at = "resuming" =>
          turn.usage = CostOf(turn.talk) + Head(turn.carried).call.cost

LEMMA IdleUsage ==
    ASSUME turn'.at = "idle", task'.actions # << >> => Summed(Head(task'.actions))
    PROVE  UsageInv'
BY DEF UsageInv, Summed, UsageIsOfConversation

LEMMA EndUsage ==
    TypeInv /\ UsageInv /\ (EndExhausted \/ EndPaused \/ EndDone) => UsageInv'
<1> SUFFICES ASSUME TypeInv, UsageInv, EndExhausted \/ EndPaused \/ EndDone
             PROVE  UsageInv'
  OBVIOUS
<1>1. PICK status \in {"paused", "done", "queued"} : Ends(status)
  BY EndEnds
<1>2. ASSUME Kept # << >> PROVE Summed(Head(Kept))
  <2>1. turn.carried # << >> /\ Head(Kept) = [Head(turn.carried) EXCEPT !.paid = TRUE]
    BY <1>2, KeptType
  <2>2. turn.carried = task.actions
    BY <1>1, <2>1 DEF Ends, TypeInv, Linked, Carried
  <2>3. Head(task.actions) \in Checkpoints
    BY <2>1, <2>2 DEF TypeInv, TaskRows
  <2>4. /\ Head(Kept).usage = Head(task.actions).usage
        /\ Head(Kept).talk = Head(task.actions).talk
        /\ Head(Kept).call = Head(task.actions).call
    BY <2>1, <2>2, <2>3 DEF Checkpoints
  <2> QED
    BY <2>1, <2>2, <2>4 DEF UsageInv, Summed
<1> QED
  BY <1>1, <1>2, EndsActions, IdleUsage DEF UsageInv

LEMMA BeginUsage == TypeInv /\ UsageInv /\ Begin => UsageInv'
<1> SUFFICES ASSUME TypeInv, UsageInv, Begin PROVE UsageInv'
  OBVIOUS
<1>1. task' = task
  BY DEF Begin
<1>2. CASE Carried = << >>
  <2>1. turn'.at = "asking" /\ turn'.usage = 0 /\ turn'.talk = << >>
    BY <1>2, BeginTurn
  <2> QED
    BY <1>1, <2>1, CostOfNone DEF UsageInv, Summed, UsageIsOfConversation
<1>3. CASE Carried # << >>
  <2>1. Summed(Head(Carried))
    BY <1>3 DEF Carried, UsageInv
  <2>2. turn'.at = "resuming" /\ turn'.usage = Head(Carried).usage
        /\ turn'.talk = Head(Carried).talk /\ turn'.carried = Carried
    BY <1>3, BeginTurn
  <2> QED
    BY <1>1, <2>1, <2>2 DEF UsageInv, Summed, UsageIsOfConversation
<1> QED
  BY <1>2, <1>3

LEMMA CallUsage == TypeInv /\ UsageInv /\ (Call \/ CallResumed) => UsageInv'
<1> SUFFICES ASSUME TypeInv, UsageInv, Call \/ CallResumed PROVE UsageInv'
  OBVIOUS
<1>1. PICK call \in Messages :
        /\ \/ turn.at = "resuming" /\ call = Head(turn.carried).call
           \/ turn.at = "calling" /\ call = Last(turn.called)
        /\ turn'.at = "asking" /\ turn'.talk = Append(turn.talk, call)
        /\ turn'.usage = turn.usage /\ task' = task
  BY CallTurn
<1>2. turn.usage = CostOf(turn.talk) + call.cost
  BY <1>1 DEF UsageInv
<1>3. CostOf(turn'.talk) = CostOf(turn.talk) + call.cost
  <2>1. turn.talk \in Seq(Messages)
    BY DEF TypeInv, Turns
  <2> QED
    BY <1>1, <2>1, CostOfAppend
<1> QED
  BY <1>1, <1>2, <1>3 DEF UsageInv, Summed, UsageIsOfConversation

LEMMA AnswerUsage == TypeInv /\ UsageInv /\ Answers => UsageInv'
<1> SUFFICES ASSUME TypeInv, UsageInv, Answers PROVE UsageInv'
  OBVIOUS
<1>1. PICK cost \in 1 .. MaxCost :
        /\ Grows(cost)
        /\ turn'.at \in {"calling", "interrupted", "concluding", "ending"}
        /\ turn'.at \in {"calling", "interrupted"} =>
              /\ turn.at = "asking"
              /\ Last(turn'.called) = [batch |-> asked + 1, cost |-> cost]
  BY AnswerGoes
<1>2. task' = task /\ turn'.usage = turn.usage + cost /\ turn'.talk = turn.talk
  BY <1>1 DEF Grows
<1>3. ASSUME turn'.at \in {"calling", "interrupted"}
      PROVE  turn'.usage = CostOf(turn'.talk) + Last(turn'.called).cost
  <2>1. turn.usage = CostOf(turn.talk) /\ Last(turn'.called).cost = cost
    BY <1>1, <1>3 DEF UsageInv, UsageIsOfConversation
  <2> QED
    BY <1>2, <2>1
<1> QED
  BY <1>1, <1>2, <1>3 DEF UsageInv, Summed, UsageIsOfConversation

LEMMA UsageStep == TypeInv /\ UsageInv /\ [Next]_vars => UsageInv'
<1> SUFFICES ASSUME TypeInv, UsageInv, [Next]_vars PROVE UsageInv'
  OBVIOUS
<1>1. CASE \/ Start \/ Resume \/ PauseQueued \/ RequestPause \/ FailsUnloaded
           \/ RefuseForBudget \/ InterruptUnsaved \/ InvocationFails \/ Raise \/ Crash
  BY <1>1, IdleActions, IdleUsage DEF UsageInv
<1>2. CASE Interrupt
  <2>1. /\ Checkpoint.usage = turn.usage /\ Checkpoint.talk = turn.talk
        /\ Checkpoint.call = Last(turn.called)
    BY DEF Checkpoint
  <2>2. Summed(Checkpoint)
    BY <1>2, <2>1 DEF UsageInv, Summed, Interrupt
  <2> QED
    BY <1>2, <2>2, InterruptTask, IdleUsage
<1>3. CASE AskRefused
  <2>1. task' = task /\ turn'.at = "ending"
    BY <1>3 DEF AskRefused, TypeInv, Turns
  <2> QED
    BY <2>1 DEF UsageInv, Summed, UsageIsOfConversation
<1>4. CASE UNCHANGED vars
  BY <1>4 DEF vars, UsageInv, Summed, UsageIsOfConversation
<1> QED
  BY <1>1, <1>2, <1>3, <1>4, NextSteps, EndUsage, BeginUsage, CallUsage, AnswerUsage
     DEF Steps

LEMMA InitUsage == Init => UsageInv
BY DEF Init, UsageInv, UsageIsOfConversation, NoTurn

\* When the model is asked, the usage the window will charge is that of every answer
\* of the conversation, those from before a checkpoint too (invoke.py:427-430,
\* 545-547).
THEOREM UsageCounted == Spec => []UsageIsOfConversation
<1>1. UsageInv => UsageIsOfConversation
  BY DEF UsageInv
<1> QED
  BY InitType, StepType, InitUsage, UsageStep, <1>1, PTL DEF Spec
=============================================================================
