--------------------------- MODULE WorkQueueProofs ---------------------------
(***************************************************************************)
(* The work queue for any number of workers, items, tasks, retries and     *)
(* disturbances, whether or not work outlives its lease and Redis answers: *)
(*   - the rows and the workers keep their types;                          *)
(*   - no item is marked completed without an execution that committed;    *)
(*   - a task is executed by one worker at a time, but while an execution  *)
(*     of it runs whose lock lapsed;                                       *)
(*   - the rows implement AtLeastOnceQueue.                                *)
(***************************************************************************)
EXTENDS WorkQueue, TLAPS

\* What a worker is about to report was earned.
OutcomeEarned ==
    \A w \in Workers :
        /\ outcome[w] = "ok" => job[w] \in executed
        /\ outcome[w] = "ignored" => job[w] \in Unsupported
        /\ outcome[w] = "none" <=> pc[w] \in {"idle", "selected", "claimed", "running"}

\* Whoever executes a task holds its lock, until it gave the lock back or a
\* lock of the task lapsed.
ExecutorHoldsLock ==
    \A t \in Tasks, w \in Workers :
        Executing(w, t) /\ t \notin lapsed => lock[t] = w

\* A cancel under way read items of its task.
CancelsOwn == \A t \in Tasks : \A i \in cancelling[t] : TaskOf[i] = t

\* A claim that found a row leased is about a row somebody claimed before.
SeenWasClaimed ==
    \A w \in Workers :
        pc[w] = "selected" /\ seen[w].status = "leased"
            => item[job[w]].status \notin {"absent", "queued"}

TypeInv == TypeOK /\ SeenWasClaimed /\ CancelsOwn
EarnedInv == TypeOK /\ OutcomeEarned /\ CompletedMeansExecuted
LockInv == TypeOK /\ ExecutorHoldsLock

-----------------------------------------------------------------------------
(***************************************************************************)
(* Type correctness.                                                       *)
(***************************************************************************)
LEMMA NextAttempt == \A n \in Attempts : Next1(n) \in Attempts
BY WorkQueueAssumption DEF WorkQueueAssumption, Next1, Attempts

LEMMA InitType == Init => TypeInv
<1> SUFFICES ASSUME Init PROVE TypeInv
  OBVIOUS
<1>1. NoRow \in Rows
  BY WorkQueueAssumption
  DEF WorkQueueAssumption, NoRow, Rows, Statuses, Terminal, Leases, Attempts
<1>2. 1 \in Attempts /\ 0 \in 0 .. MaxDisturb
  BY WorkQueueAssumption DEF WorkQueueAssumption, Attempts
<1> QED
  BY <1>1, <1>2 DEF Init, TypeInv, SeenWasClaimed, CancelsOwn, TypeOK, Phases, Outcomes, NoRow

LEMMA DisturbType == TypeOK /\ Disturb => disturbed' \in 0 .. MaxDisturb
BY WorkQueueAssumption DEF WorkQueueAssumption, TypeOK, Disturb

LEMMA RacesType == \A is : TypeOK /\ Races(is) => disturbed' \in 0 .. MaxDisturb
BY DisturbType DEF TypeOK, Races

LEMMA LapsedType ==
    ASSUME NEW w \in Workers, TypeOK, LeavesTask(w)
    PROVE  lapsed' \subseteq Tasks
BY DEF TypeOK, LeavesTask

LEMMA TurnOverType ==
    ASSUME NEW w \in Workers, TypeOK, TurnOver(w)
    PROVE  /\ pc' \in [Workers -> Phases]
           /\ job' \in [Workers -> Items \cup {None}]
           /\ seen' \in [Workers -> Rows]
           /\ attempt' \in [Workers -> Attempts]
           /\ outcome' \in [Workers -> Outcomes]
           /\ \A u \in Workers : job'[u] = None <=> pc'[u] = "idle"
<1>1. NoRow \in Rows /\ 1 \in Attempts
  BY WorkQueueAssumption
  DEF WorkQueueAssumption, NoRow, Rows, Statuses, Terminal, Leases, Attempts
<1> QED
  BY <1>1 DEF TypeOK, TurnOver, Phases, Outcomes

\* Rows keep their type, and leave "queued" for good.
RowsMove ==
    /\ item' \in [Items -> Rows]
    /\ \A i \in Items :
          /\ item'[i].status \in {"absent", "queued"}
                => item'[i].lease = "none" /\ item'[i].attempt = 1
          /\ item[i].status \notin {"absent", "queued"}
                => item'[i].status \notin {"absent", "queued"}

LEMMA RowsStay == TypeOK /\ UNCHANGED item => RowsMove
BY DEF TypeOK, RowsMove

LEMMA CreateRows ==
    ASSUME NEW i \in Items, TypeOK, Create(i)
    PROVE  RowsMove
BY DEF TypeOK, RowsMove, Create, Rows, Statuses, Terminal

LEMMA CancelRows ==
    ASSUME TypeOK, NEW is \in SUBSET Items, item' = Cancelled(is)
    PROVE  RowsMove
BY DEF TypeOK, RowsMove, Cancelled, Rows, Statuses, Terminal

LEMMA ClaimRows ==
    ASSUME NEW w \in Workers, TypeInv, Claim(w)
    PROVE  RowsMove
<1> DEFINE i == job[w]
           again == seen[w].status \in {"leased", "reclaimable"} \/ seen[w].lease # "none"
           n == IF again THEN Next1(seen[w].attempt) ELSE seen[w].attempt
           row == [item[i] EXCEPT
                     !.status = IF seen[w].status = "leased" THEN @ ELSE "leased",
                     !.lease = "live",
                     !.attempt = IF again THEN n ELSE @]
<1>1. i \in Items /\ item[i] \in Rows /\ seen[w] \in Rows
  BY DEF TypeInv, TypeOK, Claim
<1>2. n \in Attempts
  BY <1>1, NextAttempt DEF Rows
<1>3. row.status \notin {"absent", "queued"}
  BY <1>1 DEF TypeInv, SeenWasClaimed, Claim, Rows
<1>4. row \in Rows
  BY <1>1, <1>2 DEF Rows, Statuses, Leases
<1>5. item' = [item EXCEPT ![i] = row]
  BY <1>1 DEF Claim, TypeInv, TypeOK, Rows
<1> HIDE DEF row, i
<1> QED
  BY <1>1, <1>3, <1>4, <1>5 DEF TypeInv, TypeOK, RowsMove

LEMMA ReportRows ==
    ASSUME NEW w \in Workers, TypeOK, Report(w)
    PROVE  RowsMove
<1> DEFINE i == job[w]
           how == IF outcome[w] \in {"failed", "retryable"} THEN "failed" ELSE "completed"
           row == IF GivesBack(w) THEN Reclaimed(item[i])
                  ELSE [item[i] EXCEPT !.status = how]
<1>1. i \in Items /\ item[i] \in Rows
  BY DEF TypeOK, Report
<1>2. row \in Rows /\ row.status \notin {"absent", "queued"}
  BY <1>1 DEF Reclaimed, Rows, Statuses, Terminal, Leases
<1>3. item' = [item EXCEPT ![i] = row]
  BY <1>1 DEF Report, TypeOK
<1> HIDE DEF row, i
<1> QED
  BY <1>1, <1>2, <1>3 DEF TypeOK, RowsMove

LEMMA ExpireRows ==
    ASSUME NEW i \in Items, TypeOK, ExpireLease(i)
    PROVE  RowsMove
BY DEF TypeOK, RowsMove, ExpireLease, Rows, Leases

\* What SeenWasClaimed needs of a step that selects nothing.
LEMMA SeenKept ==
    ASSUME TypeInv, RowsMove,
           \A u \in Workers : pc'[u] = "selected" =>
               pc[u] = "selected" /\ job'[u] = job[u] /\ seen'[u] = seen[u]
    PROVE  SeenWasClaimed'
BY DEF TypeInv, TypeOK, SeenWasClaimed, RowsMove

LEMMA CancelType ==
    ASSUME NEW t \in Tasks, TypeInv, Cancel(t) \/ CancelReads(t) \/ CancelWrites(t)
    PROVE  TypeInv'
<1>1. Cancellable(t) \in SUBSET Items /\ \A i \in Cancellable(t) : TaskOf[i] = t
  BY DEF Cancellable
<1>2. cancelling[t] \in SUBSET Items
  BY DEF TypeInv, TypeOK
<1>3. RowsMove
  <2>1. CASE Cancel(t)
    BY <2>1, <1>1, CancelRows DEF Cancel, TypeInv
  <2>2. CASE CancelReads(t)
    BY <2>2, RowsStay DEF CancelReads, TypeInv
  <2>3. CASE CancelWrites(t)
    BY <2>3, <1>2, CancelRows DEF CancelWrites, TypeInv
  <2> QED
    BY <2>1, <2>2, <2>3
<1>4. disturbed' \in 0 .. MaxDisturb
  BY DisturbType, RacesType DEF TypeInv, Cancel, CancelReads, CancelWrites
<1>5. cancelling' \in [Tasks -> SUBSET Items] /\ CancelsOwn'
  <2>1. CASE Cancel(t)
    BY <2>1 DEF Cancel, TypeInv, TypeOK, CancelsOwn
  <2>2. CASE CancelReads(t)
    BY <2>2, <1>1 DEF CancelReads, TypeInv, TypeOK, CancelsOwn
  <2>3. CASE CancelWrites(t)
    BY <2>3 DEF CancelWrites, TypeInv, TypeOK, CancelsOwn
  <2> QED
    BY <2>1, <2>2, <2>3
<1>6. UNCHANGED <<lock, workerVars, histories>>
  BY DEF Cancel, CancelReads, CancelWrites
<1>7. TypeOK'
  BY <1>3, <1>4, <1>5, <1>6 DEF TypeInv, TypeOK, RowsMove, workerVars, histories
<1> QED
  BY <1>3, <1>5, <1>6, <1>7, SeenKept DEF TypeInv, workerVars

\* What a step of a worker needs besides the types of what it changes.
LEMMA WorkerType ==
    ASSUME TypeInv, RowsMove, TypeOK', UNCHANGED cancelling,
           \A u \in Workers : pc'[u] = "selected" =>
               pc[u] = "selected" /\ job'[u] = job[u] /\ seen'[u] = seen[u]
    PROVE  TypeInv'
BY SeenKept DEF TypeInv, CancelsOwn

LEMMA NextType == TypeInv /\ [Next]_vars => TypeInv'
<1> SUFFICES ASSUME TypeInv, [Next]_vars PROVE TypeInv'
  OBVIOUS
<1> USE DEF workerVars, histories
<1>1. ASSUME NEW i \in Items, Create(i) PROVE TypeInv'
  BY <1>1, CreateRows, WorkerType DEF TypeInv, TypeOK, RowsMove, Create
<1>2. ASSUME NEW i \in Items, ExpireLease(i) PROVE TypeInv'
  BY <1>2, ExpireRows, WorkerType, DisturbType
  DEF TypeInv, TypeOK, RowsMove, ExpireLease
<1>3. ASSUME NEW t \in Tasks, Cancel(t) \/ CancelReads(t) \/ CancelWrites(t) PROVE TypeInv'
  BY <1>3, CancelType
<1>4. ASSUME NEW t \in Tasks, ControllerLocks(t) PROVE TypeInv'
  BY <1>4, RowsStay, WorkerType, DisturbType
  DEF TypeInv, TypeOK, RowsMove, ControllerLocks
<1>5. ASSUME NEW t \in Tasks, ControllerUnlocks(t) PROVE TypeInv'
  BY <1>5, RowsStay, WorkerType DEF TypeInv, TypeOK, RowsMove, ControllerUnlocks
<1>6. ASSUME NEW t \in Tasks, ExpireLock(t) PROVE TypeInv'
  BY <1>6, RowsStay, WorkerType, DisturbType DEF TypeInv, TypeOK, RowsMove, ExpireLock
<1>7. ASSUME NEW w \in Workers, Select(w) PROVE TypeInv'
  <2>1. PICK i \in Items :
           /\ Oldest(i)
           /\ job' = [job EXCEPT ![w] = i]
           /\ seen' = [seen EXCEPT ![w] = item[i]]
           /\ Races({i})
    BY <1>7 DEF Select
  <2>2. TypeOK'
    BY <1>7, <2>1, RacesType, WorkQueueAssumption
    DEF WorkQueueAssumption, TypeInv, TypeOK, Select, Phases
  <2>3. SeenWasClaimed'
    BY <1>7, <2>1 DEF TypeInv, TypeOK, SeenWasClaimed, Select
  <2> QED
    BY <1>7, <2>2, <2>3 DEF TypeInv, CancelsOwn, Select
<1>8. ASSUME NEW w \in Workers, Claim(w) PROVE TypeInv'
  <2>1. RowsMove
    BY <1>8, ClaimRows
  <2>2. attempt' \in [Workers -> Attempts] /\ NoRow \in Rows
    BY <1>8, NextAttempt, WorkQueueAssumption
    DEF WorkQueueAssumption, Claim, TypeInv, TypeOK, Rows, NoRow, Statuses,
        Terminal, Leases, Attempts
  <2>3. pc' = [pc EXCEPT ![w] = "claimed"] /\ seen' = [seen EXCEPT ![w] = NoRow]
        /\ pc[w] = "selected"
        /\ UNCHANGED <<lock, job, outcome, cancelling, histories, disturbed>>
    BY <1>8 DEF Claim
  <2>4. TypeOK'
    BY <2>1, <2>2, <2>3 DEF TypeInv, TypeOK, RowsMove, Phases
  <2> QED
    BY <2>1, <2>3, <2>4, WorkerType DEF TypeInv, TypeOK
<1>9. ASSUME NEW w \in Workers, Lock(w) PROVE TypeInv'
  <2>1. TypeOK'
    BY <1>9 DEF TypeInv, TypeOK, Lock, Phases
  <2> QED
    BY <1>9, <2>1, RowsStay, WorkerType DEF TypeInv, TypeOK, Lock
<1>10. ASSUME NEW w \in Workers, LockMiss(w) \/ Ignore(w) PROVE TypeInv'
  <2>1. TypeOK'
    <3>1. disturbed' \in 0 .. MaxDisturb
      BY <1>10, DisturbType DEF TypeInv, TypeOK, LockMiss, Ignore
    <3> QED
      BY <1>10, <3>1 DEF TypeInv, TypeOK, LockMiss, Ignore, Phases, Outcomes
  <2> QED
    BY <1>10, <2>1, RowsStay, WorkerType DEF TypeInv, TypeOK, LockMiss, Ignore
<1>11. ASSUME NEW w \in Workers, Finish(w) PROVE TypeInv'
  <2>1. TypeOK'
    BY <1>11 DEF TypeInv, TypeOK, Finish, Phases, Outcomes
  <2> QED
    BY <1>11, <2>1, RowsStay, WorkerType DEF TypeInv, TypeOK, Finish
<1>12. ASSUME NEW w \in Workers, CheckLock(w) \/ DeleteLock(w) PROVE TypeInv'
  <2>1. lapsed' \subseteq Tasks
    BY <1>12, LapsedType DEF TypeInv, TypeOK, CheckLock, DeleteLock
  <2>2. /\ pc' \in [Workers -> Phases]
        /\ lock' \in [Tasks -> Workers \cup {Controller, None}]
        /\ \A u \in Workers : pc'[u] = "selected" => pc[u] = "selected"
        /\ \A u \in Workers : pc'[u] = "idle" <=> pc[u] = "idle"
    BY <1>12 DEF TypeInv, TypeOK, CheckLock, DeleteLock, Phases
  <2>3. UNCHANGED <<item, job, seen, attempt, outcome, cancelling, executed, disturbed>>
    BY <1>12 DEF CheckLock, DeleteLock
  <2>4. TypeOK'
    BY <2>1, <2>2, <2>3 DEF TypeInv, TypeOK
  <2> QED
    BY <2>2, <2>3, <2>4, RowsStay, WorkerType DEF TypeInv
<1>16. ASSUME NEW w \in Workers, LockInMemory(w) \/ ReleaseInMemory(w) PROVE TypeInv'
  <2>1. disturbed' \in 0 .. MaxDisturb
    BY <1>16, DisturbType DEF TypeInv, LockInMemory, ReleaseInMemory
  <2>2. lapsed' \subseteq Tasks
    <3>1. CASE LockInMemory(w)
      <4>1. job[w] \in Items
        BY <3>1 DEF TypeInv, TypeOK, LockInMemory
      <4>2. TaskOf[job[w]] \in Tasks
        BY <4>1, WorkQueueAssumption DEF WorkQueueAssumption
      <4> QED
        BY <3>1, <4>2 DEF LockInMemory, TypeInv, TypeOK
    <3>2. CASE ReleaseInMemory(w)
      BY <3>2, LapsedType DEF TypeInv, ReleaseInMemory
    <3> QED
      BY <1>16, <3>1, <3>2
  <2>3. /\ pc' \in [Workers -> Phases]
        /\ \A u \in Workers : pc'[u] = "selected" => pc[u] = "selected"
        /\ \A u \in Workers : pc'[u] = "idle" <=> pc[u] = "idle"
    BY <1>16 DEF TypeInv, TypeOK, LockInMemory, ReleaseInMemory, Phases
  <2>4. UNCHANGED <<item, lock, job, seen, attempt, outcome, cancelling, executed>>
    BY <1>16 DEF LockInMemory, ReleaseInMemory
  <2>5. TypeOK'
    BY <2>1, <2>2, <2>3, <2>4 DEF TypeInv, TypeOK
  <2> QED
    BY <2>3, <2>4, <2>5, RowsStay, WorkerType DEF TypeInv
<1>13. ASSUME NEW w \in Workers, Report(w) PROVE TypeInv'
  <2>1. RowsMove /\ TurnOver(w) /\ UNCHANGED <<lock, cancelling, histories>>
    BY <1>13, ReportRows DEF Report, TypeInv
  <2>2. disturbed' \in 0 .. MaxDisturb
    BY <1>13, RacesType DEF Report, TypeInv
  <2>3. TypeOK'
    BY <2>1, <2>2, TurnOverType DEF TypeInv, TypeOK, RowsMove
  <2> QED
    BY <2>1, <2>3, WorkerType DEF TypeInv, TypeOK, TurnOver
<1>14. ASSUME NEW w \in Workers, Crash(w) PROVE TypeInv'
  <2>1. TurnOver(w) /\ Disturb /\ UNCHANGED <<item, lock, cancelling, executed>>
    BY <1>14 DEF Crash
  <2>2. lapsed' \subseteq Tasks
    BY <1>14, LapsedType DEF Crash, TypeInv
  <2>3. TypeOK'
    BY <2>1, <2>2, TurnOverType, DisturbType DEF TypeInv, TypeOK
  <2> QED
    BY <2>1, <2>3, RowsStay, WorkerType DEF TypeInv, TypeOK, TurnOver
<1>15. CASE UNCHANGED vars
  BY <1>15 DEF vars, TypeInv, TypeOK, SeenWasClaimed, CancelsOwn
<1> QED
  BY <1>1, <1>2, <1>3, <1>4, <1>5, <1>6, <1>7, <1>8, <1>9, <1>10, <1>11,
     <1>12, <1>13, <1>14, <1>15, <1>16 DEF Next, WorkerStep

LEMMA SpecTypeInv == Spec => []TypeInv
BY InitType, NextType, PTL DEF Spec

\* The rows and the workers keep their types.
THEOREM TypeCorrect == Spec => []TypeOK
BY SpecTypeInv, PTL DEF TypeInv

-----------------------------------------------------------------------------
(***************************************************************************)
(* A completed item was executed.  CompletedMeansExecuted alone is not     *)
(* inductive: Report relies on what the worker carries from Finish.        *)
(***************************************************************************)
LEMMA InitEarned == Init => EarnedInv
BY InitType
DEF Init, EarnedInv, TypeInv, OutcomeEarned, CompletedMeansExecuted, NoRow

\* Steps that complete no item and leave what the workers carry.
LEMMA EarnedKept ==
    ASSUME EarnedInv, TypeOK',
           executed \subseteq executed',
           UNCHANGED <<job, outcome>>,
           \A w \in Workers :
               pc'[w] \in {"idle", "selected", "claimed", "running"}
                  <=> pc[w] \in {"idle", "selected", "claimed", "running"},
           \A i \in Items : item'[i].status = "completed" => item[i].status = "completed"
    PROVE  EarnedInv'
BY DEF EarnedInv, OutcomeEarned, CompletedMeansExecuted

LEMMA EarnedWorker ==
    ASSUME NEW w \in Workers, EarnedInv, TypeOK', WorkerStep(w)
    PROVE  EarnedInv'
<1> USE DEF EarnedInv, TypeOK, histories
<1>1. CASE Select(w)
  BY <1>1 DEF Select, OutcomeEarned, CompletedMeansExecuted
<1>2. CASE Claim(w)
  <2>1. ASSUME NEW i \in Items, item'[i].status = "completed"
        PROVE  item[i].status = "completed"
    <3>1. CASE i # job[w]
      BY <1>2, <2>1, <3>1 DEF Claim
    <3>2. CASE i = job[w]
      BY <1>2, <2>1, <3>2 DEF Claim, Rows
    <3> QED
      BY <3>1, <3>2
  <2> QED
    BY <1>2, <2>1, EarnedKept DEF Claim
<1>3. CASE Lock(w)
  BY <1>3, EarnedKept DEF Lock
<1>4. CASE LockMiss(w)
  BY <1>4 DEF LockMiss, OutcomeEarned, CompletedMeansExecuted
<1>5. CASE Ignore(w)
  BY <1>5 DEF Ignore, OutcomeEarned, CompletedMeansExecuted
<1>6. CASE Finish(w)
  BY <1>6 DEF Finish, OutcomeEarned, CompletedMeansExecuted
<1>7. CASE CheckLock(w)
  BY <1>7, EarnedKept DEF CheckLock
<1>8. CASE DeleteLock(w)
  BY <1>8, EarnedKept DEF DeleteLock
<1>10. CASE LockInMemory(w)
  BY <1>10, EarnedKept DEF LockInMemory
<1>11. CASE ReleaseInMemory(w)
  BY <1>11, EarnedKept DEF ReleaseInMemory
<1>9. CASE Report(w)
  <2>1. OutcomeEarned'
    BY <1>9 DEF Report, TurnOver, OutcomeEarned
  <2>2. ASSUME NEW i \in Items \ Unsupported, item'[i].status = "completed"
        PROVE  i \in executed
    <3>1. CASE i # job[w]
      BY <2>2, <3>1, <1>9 DEF Report, CompletedMeansExecuted
    <3>2. CASE i = job[w]
      <4>1. item[i] \in Rows /\ outcome[w] \in Outcomes \ {"none"}
        BY <1>9 DEF Report, OutcomeEarned
      <4>2. ~GivesBack(w) /\ outcome[w] \notin {"failed", "retryable"}
        BY <2>2, <3>2, <4>1, <1>9 DEF Report, Reclaimed, Rows
      <4>3. outcome[w] \in {"ok", "ignored"}
        BY <4>1, <4>2 DEF GivesBack, Outcomes
      <4> QED
        BY <4>3, <3>2 DEF OutcomeEarned
    <3> QED
      BY <3>1, <3>2
  <2> QED
    BY <2>1, <2>2, <1>9 DEF Report, CompletedMeansExecuted
<1> QED
  BY <1>1, <1>2, <1>3, <1>4, <1>5, <1>6, <1>7, <1>8, <1>9, <1>10, <1>11 DEF WorkerStep

LEMMA NextEarned == EarnedInv /\ TypeOK' /\ [Next]_vars => EarnedInv'
<1> SUFFICES ASSUME EarnedInv, TypeOK', [Next]_vars PROVE EarnedInv'
  OBVIOUS
<1> USE DEF workerVars, histories
<1>1. ASSUME NEW i \in Items, Create(i) \/ ExpireLease(i) PROVE EarnedInv'
  <2>1. \A j \in Items : item'[j].status = "completed" => item[j].status = "completed"
    BY <1>1 DEF EarnedInv, TypeOK, Rows, Create, ExpireLease
  <2> QED
    BY <1>1, <2>1, EarnedKept DEF Create, ExpireLease
<1>2. ASSUME NEW t \in Tasks, Cancel(t) \/ CancelReads(t) \/ CancelWrites(t)
      PROVE  EarnedInv'
  <2>1. item' = item \/ \E is : item' = Cancelled(is)
    BY <1>2 DEF Cancel, CancelReads, CancelWrites
  <2>2. \A j \in Items : item'[j].status = "completed" => item[j].status = "completed"
    BY <2>1 DEF EarnedInv, TypeOK, Rows, Cancelled
  <2> QED
    BY <1>2, <2>2, EarnedKept DEF Cancel, CancelReads, CancelWrites
<1>3. ASSUME NEW t \in Tasks,
             ControllerLocks(t) \/ ControllerUnlocks(t) \/ ExpireLock(t)
      PROVE  EarnedInv'
  BY <1>3, EarnedKept DEF ControllerLocks, ControllerUnlocks, ExpireLock
<1>4. ASSUME NEW w \in Workers, WorkerStep(w) PROVE EarnedInv'
  BY <1>4, EarnedWorker
<1>5. ASSUME NEW w \in Workers, Crash(w) PROVE EarnedInv'
  BY <1>5 DEF Crash, TurnOver, EarnedInv, TypeOK, OutcomeEarned, CompletedMeansExecuted
<1>6. CASE UNCHANGED vars
  BY <1>6, EarnedKept DEF vars
<1> QED
  BY <1>1, <1>2, <1>3, <1>4, <1>5, <1>6 DEF Next

\* However claims race and leases expire, an item of an activity the worker
\* executes is completed only after one of its executions committed.
THEOREM CompletedWasExecuted == Spec => []CompletedMeansExecuted
<1>1. EarnedInv => CompletedMeansExecuted
  BY DEF EarnedInv
<1> QED
  BY <1>1, InitEarned, NextEarned, TypeCorrect, PTL DEF Spec

-----------------------------------------------------------------------------
(***************************************************************************)
(* One execution of a task at a time.  That executions overlap only in a   *)
(* lapse is not inductive: a lock may be free while somebody executes      *)
(* unless the executor's lock can neither expire nor be deleted by an      *)
(* earlier holder, so holding it is carried from Lock to DeleteLock.       *)
(***************************************************************************)
LEMMA InitLockInv == Init => LockInv
BY InitType DEF Init, LockInv, TypeInv, ExecutorHoldsLock, Executing

\* Steps that start and end no execution and leave the locks alone.
LEMMA HoldingKept ==
    ASSUME LockInv, UNCHANGED <<lock, lapsed>>,
           \A w \in Workers :
              pc'[w] \in {"running", "releasing", "deleting"} =>
                  pc[w] \in {"running", "releasing", "deleting"} /\ job'[w] = job[w]
    PROVE  ExecutorHoldsLock'
BY DEF LockInv, ExecutorHoldsLock, Executing

\* An execution ends, and with it its lock if that was the one of the task.
LEMMA HoldingLeft ==
    ASSUME LockInv, NEW w \in Workers, LeavesTask(w), UNCHANGED job,
           Executing(w, TaskOf[job[w]]), job[w] \in Items,
           pc' = [pc EXCEPT ![w] = "reporting"],
           lock' \in {lock, [lock EXCEPT ![TaskOf[job[w]]] = None]}
    PROVE  ExecutorHoldsLock'
<1> DEFINE t == TaskOf[job[w]]
<1>1. t \in Tasks
  BY WorkQueueAssumption DEF WorkQueueAssumption
<1>2. ASSUME NEW s \in Tasks, NEW u \in Workers, Executing(u, s)', s \notin lapsed'
      PROVE  lock'[s] = u
  <2>1. u # w /\ Executing(u, s)
    BY <1>2 DEF Executing, LockInv, TypeOK
  <2>2. s \notin lapsed /\ s # t
    <3>1. CASE s = t
      <4>1. lapsed' = lapsed
        BY <2>1, <3>1 DEF LeavesTask
      <4>2. lock[t] = u /\ lock[t] = w
        BY <1>2, <2>1, <3>1, <4>1 DEF LockInv, ExecutorHoldsLock
      <4> QED
        BY <2>1, <4>2
    <3>2. CASE s # t
      BY <1>2, <3>2 DEF LeavesTask
    <3> QED
      BY <3>1, <3>2
  <2>3. lock'[s] = lock[s]
    BY <2>2 DEF LockInv, TypeOK
  <2> QED
    BY <2>1, <2>2, <2>3 DEF LockInv, ExecutorHoldsLock
<1> QED
  BY <1>2 DEF ExecutorHoldsLock

LEMMA HoldingCrash ==
    ASSUME LockInv, NEW w \in Workers, Crash(w)
    PROVE  ExecutorHoldsLock'
<1>1. /\ \A u \in Workers \ {w} : pc'[u] = pc[u] /\ job'[u] = job[u]
      /\ pc'[w] = "idle" /\ lock' = lock /\ LeavesTask(w)
  BY DEF Crash, TurnOver, LockInv, TypeOK
<1>2. ASSUME NEW s \in Tasks, NEW u \in Workers, Executing(u, s)', s \notin lapsed'
      PROVE  lock'[s] = u
  <2>1. u # w /\ Executing(u, s)
    BY <1>1, <1>2 DEF Executing
  <2>2. s \notin lapsed
    <3>1. CASE s = TaskOf[job[w]]
      BY <1>1, <1>2, <2>1, <3>1 DEF LeavesTask
    <3>2. CASE s # TaskOf[job[w]]
      BY <1>1, <1>2, <3>2 DEF LeavesTask
    <3> QED
      BY <3>1, <3>2
  <2> QED
    BY <1>1, <2>1, <2>2 DEF LockInv, ExecutorHoldsLock
<1> QED
  BY <1>2 DEF ExecutorHoldsLock

LEMMA NextLockInv ==
    ASSUME LockInv, TypeOK', [Next]_vars
    PROVE  LockInv'
<1> SUFFICES ExecutorHoldsLock'
  BY DEF LockInv
<1> USE DEF workerVars, histories
<1>1. ASSUME NEW i \in Items, Create(i) \/ ExpireLease(i) PROVE ExecutorHoldsLock'
  BY <1>1, HoldingKept DEF Create, ExpireLease
<1>2. ASSUME NEW t \in Tasks, Cancel(t) \/ CancelReads(t) \/ CancelWrites(t)
      PROVE  ExecutorHoldsLock'
  BY <1>2, HoldingKept DEF Cancel, CancelReads, CancelWrites
<1>3. ASSUME NEW t \in Tasks,
             \/ ControllerLocks(t) \/ ControllerUnlocks(t)
             \/ ExpireLock(t)
      PROVE  ExecutorHoldsLock'
  <2>1. /\ UNCHANGED <<pc, job>>
        /\ \A s \in Tasks \ {t} : lock'[s] = lock[s]
        /\ lapsed \subseteq lapsed'
    BY <1>3 DEF ControllerLocks, ControllerUnlocks, ExpireLock, LockInv, TypeOK
  <2>2. \A w \in Workers : Executing(w, t) => t \in lapsed'
    <3> SUFFICES ASSUME NEW w \in Workers, Executing(w, t), t \notin lapsed' PROVE FALSE
      OBVIOUS
    <3>1. lock[t] = w /\ w # None /\ w # Controller
      BY <2>1, WorkQueueAssumption DEF WorkQueueAssumption, LockInv, ExecutorHoldsLock
    <3>2. ExpireLock(t)
      BY <1>3, <3>1 DEF ControllerLocks, ControllerUnlocks
    <3> QED
      BY <3>1, <3>2 DEF ExpireLock, Guarded
  <2> QED
    BY <2>1, <2>2 DEF LockInv, ExecutorHoldsLock, Executing
<1>4. ASSUME NEW w \in Workers,
             Select(w) \/ Claim(w) \/ LockMiss(w) \/ Ignore(w) \/ Finish(w)
      PROVE  ExecutorHoldsLock'
  <2>1. UNCHANGED <<lock, lapsed>>
    BY <1>4 DEF Select, Claim, LockMiss, Ignore, Finish
  <2>2. \A u \in Workers :
           pc'[u] \in {"running", "releasing", "deleting"} =>
               pc[u] \in {"running", "releasing", "deleting"} /\ job'[u] = job[u]
    BY <1>4 DEF Select, Claim, LockMiss, Ignore, Finish, LockInv, TypeOK
  <2> QED
    BY <2>1, <2>2, HoldingKept
<1>5. ASSUME NEW w \in Workers, Lock(w) PROVE ExecutorHoldsLock'
  <2> DEFINE t == TaskOf[job[w]]
  <2>1. /\ t \in Tasks /\ lock[t] = None /\ lock' = [lock EXCEPT ![t] = w]
        /\ pc' = [pc EXCEPT ![w] = "running"] /\ UNCHANGED <<job, lapsed>>
    BY <1>5, WorkQueueAssumption DEF Lock, WorkQueueAssumption, LockInv, TypeOK
  <2>2. \A u \in Workers : Executing(u, t) => t \in lapsed
    BY <2>1, WorkQueueAssumption DEF WorkQueueAssumption, LockInv, ExecutorHoldsLock
  <2> HIDE DEF t
  <2>3. ASSUME NEW s \in Tasks, NEW u \in Workers, Executing(u, s)', s \notin lapsed'
        PROVE  lock'[s] = u
    <3>1. CASE u = w
      <4>1. s = t
        BY <2>1, <2>3, <3>1 DEF Executing, t
      <4> QED
        BY <2>1, <3>1, <4>1 DEF LockInv, TypeOK
    <3>2. CASE u # w
      <4>1. Executing(u, s)
        BY <2>1, <2>3, <3>2 DEF Executing, LockInv, TypeOK
      <4>2. s # t /\ s \notin lapsed
        BY <2>1, <2>2, <2>3, <4>1
      <4> QED
        BY <2>1, <4>1, <4>2 DEF LockInv, TypeOK, ExecutorHoldsLock
    <3> QED
      BY <3>1, <3>2
  <2> QED
    BY <2>3 DEF ExecutorHoldsLock
<1>6. ASSUME NEW w \in Workers, LockInMemory(w) PROVE ExecutorHoldsLock'
  <2>1. /\ pc' = [pc EXCEPT ![w] = "running"] /\ UNCHANGED <<job, lock>>
        /\ lapsed' = lapsed \cup {TaskOf[job[w]]}
    BY <1>6 DEF LockInMemory
  <2>2. ASSUME NEW s \in Tasks, NEW u \in Workers, Executing(u, s)', s \notin lapsed'
        PROVE  lock'[s] = u
    <3>1. u # w
      BY <2>1, <2>2 DEF Executing
    <3>2. Executing(u, s) /\ s \notin lapsed
      BY <2>1, <2>2, <3>1 DEF Executing, LockInv, TypeOK
    <3> QED
      BY <2>1, <3>2 DEF LockInv, ExecutorHoldsLock
  <2> QED
    BY <2>2 DEF ExecutorHoldsLock
<1>7. ASSUME NEW w \in Workers, CheckLock(w) \/ DeleteLock(w) \/ ReleaseInMemory(w)
      PROVE  ExecutorHoldsLock'
  <2>1. job[w] \in Items /\ Executing(w, TaskOf[job[w]]) /\ UNCHANGED job
    BY <1>7 DEF CheckLock, DeleteLock, ReleaseInMemory, LockInv, TypeOK, Executing
  <2>2. CASE CheckLock(w) /\ pc' = [pc EXCEPT ![w] = "deleting"] /\ UNCHANGED lapsed
    <3>1. UNCHANGED lock /\ pc[w] = "releasing"
      BY <2>2 DEF CheckLock
    <3> QED
      BY <2>1, <2>2, <3>1, HoldingKept DEF LockInv, TypeOK
  <2>3. CASE pc' = [pc EXCEPT ![w] = "reporting"] /\ LeavesTask(w)
    <3>1. lock' \in {lock, [lock EXCEPT ![TaskOf[job[w]]] = None]}
      BY <1>7 DEF CheckLock, DeleteLock, ReleaseInMemory
    <3> QED
      BY <2>1, <2>3, <3>1, HoldingLeft
  <2> QED
    BY <1>7, <2>2, <2>3 DEF CheckLock, DeleteLock, ReleaseInMemory
<1>8. ASSUME NEW w \in Workers, Report(w) PROVE ExecutorHoldsLock'
  <2>1. /\ UNCHANGED <<lock, lapsed>>
        /\ \A u \in Workers \ {w} : pc'[u] = pc[u] /\ job'[u] = job[u]
        /\ pc'[w] = "idle"
    BY <1>8 DEF Report, TurnOver, LockInv, TypeOK
  <2> QED
    BY <2>1, HoldingKept
<1>9. ASSUME NEW w \in Workers, Crash(w) PROVE ExecutorHoldsLock'
  BY <1>9, HoldingCrash
<1>10. CASE UNCHANGED vars
  BY <1>10, HoldingKept DEF vars
<1> QED
  BY <1>1, <1>2, <1>3, <1>4, <1>5, <1>6, <1>7, <1>8, <1>9, <1>10 DEF Next, WorkerStep

LEMMA LockExclusive == LockInv => TaskExclusive
<1> SUFFICES ASSUME LockInv, NEW u \in Workers, NEW w \in Workers,
                    pc[u] = "running", pc[w] = "running",
                    TaskOf[job[u]] = TaskOf[job[w]], TaskOf[job[u]] \notin lapsed
             PROVE  u = w
  BY DEF TaskExclusive
<1>1. TaskOf[job[u]] \in Tasks
  BY WorkQueueAssumption DEF WorkQueueAssumption, LockInv, TypeOK
<1> QED
  BY <1>1 DEF LockInv, ExecutorHoldsLock, Executing

\* Two workers execute the same task at the same time only while an execution
\* of it runs whose lock ended under it or was never in Redis, however processes
\* crash, claims race and locks expire.
THEOREM OneExecutionPerTask == Spec => []TaskExclusive
<1>1. LockInv /\ TypeOK' /\ [Next]_vars => LockInv'
  BY NextLockInv
<1> QED
  BY <1>1, InitLockInv, LockExclusive, TypeCorrect, PTL DEF Spec

-----------------------------------------------------------------------------
(***************************************************************************)
(* The queue implements AtLeastOnceQueue.  What is in hand there is what a *)
(* worker selected or claimed here; locks, leases and expiries are         *)
(* stutters.                                                               *)
(***************************************************************************)
OpenStatuses == {"queued", "leased", "reclaimable"}

LEMMA StateIs ==
    ASSUME TypeOK
    PROVE  \A i \in Items :
              /\ item[i].status = "absent" => state[i] = "absent"
              /\ item[i].status \in OpenStatuses => state[i] = "open"
              /\ item[i].status \in Terminal => state[i] = item[i].status
              /\ item[i].status \in Statuses
BY DEF TypeOK, Rows, state, StateOf, Statuses, Terminal, OpenStatuses

LEMMA StateNext ==
    ASSUME TypeOK'
    PROVE  \A i \in Items :
              /\ item'[i].status = "absent" => state'[i] = "absent"
              /\ item'[i].status \in OpenStatuses => state'[i] = "open"
              /\ item'[i].status \in Terminal => state'[i] = item'[i].status
              /\ item'[i].status \in Statuses
BY DEF TypeOK, Rows, state, StateOf, Statuses, Terminal, OpenStatuses

LEMMA StateFunction ==
    /\ state = [i \in Items |-> state[i]]
    /\ state' = [i \in Items |-> state'[i]]
BY DEF state

\* Rows that keep their status keep their state.
LEMMA StateKept ==
    ASSUME \A i \in Items : item'[i].status = item[i].status
    PROVE  state' = state
BY DEF state, StateOf

\* One row is written.
LEMMA StateWritten ==
    ASSUME NEW i \in Items, \A j \in Items \ {i} : item'[j] = item[j]
    PROVE  state' = [state EXCEPT ![i] = state'[i]]
BY DEF state, StateOf

\* Who has which item in hand changes only in Select, Claim, Report and Crash.
LEMMA HandsKept ==
    ASSUME UNCHANGED job,
           \A w \in Workers : pc'[w] = "selected" <=> pc[w] = "selected"
    PROVE  UNCHANGED <<reads, claims>>
BY DEF reads, claims

LEMMA CancelsKept == UNCHANGED cancelling => UNCHANGED cancels
BY DEF cancels

\* A worker that is back in its loop has nothing in hand.
LEMMA HandsDropped ==
    ASSUME TypeOK, NEW w \in Workers, TurnOver(w), job[w] \in Items
    PROVE  /\ reads' = [i \in Items |-> reads[i] \ {w}]
           /\ claims' = [i \in Items |-> claims[i] \ {w}]
           /\ pc[w] # "selected" =>
                reads' = reads /\ claims' = [claims EXCEPT ![job[w]] = @ \ {w}]
<1>1. /\ \A u \in Workers \ {w} : pc'[u] = pc[u] /\ job'[u] = job[u]
      /\ pc'[w] = "idle" /\ job'[w] = None /\ None \notin Items
  BY WorkQueueAssumption DEF WorkQueueAssumption, TurnOver, TypeOK
<1>2. \A i \in Items : reads'[i] = reads[i] \ {w} /\ claims'[i] = claims[i] \ {w}
  BY <1>1 DEF reads, claims
<1>3. reads' = [i \in Items |-> reads[i] \ {w}]
  BY <1>2 DEF reads
<1>4. claims' = [i \in Items |-> claims[i] \ {w}]
  BY <1>2 DEF claims
<1>5. ASSUME pc[w] # "selected"
      PROVE  reads' = reads /\ claims' = [claims EXCEPT ![job[w]] = @ \ {w}]
  <2>1. \A i \in Items : w \notin reads[i]
    BY <1>5 DEF reads
  <2>2. \A i \in Items : claims'[i] = IF i = job[w] THEN claims[i] \ {w} ELSE claims[i]
    <3>1. SUFFICES ASSUME NEW i \in Items
          PROVE  claims'[i] = IF i = job[w] THEN claims[i] \ {w} ELSE claims[i]
      OBVIOUS
    <3>2. claims'[i] = claims[i] \ {w}
      BY <1>2
    <3>3. i # job[w] => claims[i] \ {w} = claims[i]
      <4>1. i # job[w] => w \notin claims[i]
        BY DEF claims
      <4> QED
        BY <4>1
    <3> QED
      BY <3>2, <3>3
  <2>3. reads' = reads
    BY <1>2, <2>1 DEF reads
  <2>4. claims' = [claims EXCEPT ![job[w]] = @ \ {w}]
    BY <2>2 DEF claims
  <2> QED
    BY <2>3, <2>4
<1> QED
  BY <1>3, <1>4, <1>5

LEMMA CreateAccepts ==
    ASSUME TypeOK, TypeOK', NEW i \in Items, Create(i)
    PROVE  Promise!Accept(i)
<1> USE DEF workerVars, histories
<1>1. /\ item[i].status = "absent" /\ item' = [item EXCEPT ![i].status = "queued"]
      /\ UNCHANGED <<pc, job, cancelling, executed>>
  BY DEF Create
<1>2. /\ item'[i].status = "queued"
      /\ \A j \in Items \ {i} : item'[j] = item[j]
  BY <1>1 DEF TypeOK, Rows
<1>3. state[i] = "absent" /\ state'[i] = "open"
  BY <1>1, <1>2, StateIs, StateNext DEF OpenStatuses
<1>4. state' = [state EXCEPT ![i] = "open"]
  BY <1>2, <1>3, StateWritten
<1> QED
  BY <1>1, <1>3, <1>4, HandsKept, CancelsKept DEF Promise!Accept

LEMMA SelectReads ==
    ASSUME TypeOK, TypeOK', NEW w \in Workers, Select(w)
    PROVE  \E i \in Items : Promise!Read(w, i)
<1> USE DEF workerVars, histories
<1>1. PICK i \in Items : Oldest(i) /\ job' = [job EXCEPT ![w] = i]
  BY DEF Select
<1>2. /\ pc[w] = "idle" /\ job[w] = None /\ None \notin Items
      /\ pc' = [pc EXCEPT ![w] = "selected"]
      /\ UNCHANGED <<item, cancelling, executed>>
  BY WorkQueueAssumption DEF Select, TypeOK, WorkQueueAssumption
<1>3. state[i] = "open"
  BY <1>1, StateIs DEF Oldest, Claimable, OpenStatuses
<1>4. /\ \A u \in Workers \ {w} : pc'[u] = pc[u] /\ job'[u] = job[u]
      /\ pc'[w] = "selected" /\ job'[w] = i
  BY <1>1, <1>2 DEF TypeOK
<1>5. reads' = [reads EXCEPT ![i] = @ \cup {w}]
  <2>1. \A j \in Items : reads'[j] = IF j = i THEN reads[j] \cup {w} ELSE reads[j]
    BY <1>2, <1>4 DEF reads
  <2> QED
    BY <2>1 DEF reads
<1>6. claims' = claims
  <2>1. \A j \in Items : claims'[j] = claims[j]
    BY <1>2, <1>4 DEF claims
  <2> QED
    BY <2>1 DEF claims
<1>7. Promise!Read(w, i)
  BY <1>2, <1>3, <1>5, <1>6, StateKept, CancelsKept DEF Promise!Read
<1> QED
  BY <1>7

\* A claim writes no other row; the row it writes is open, or as it was.
LEMMA ClaimedRow ==
    ASSUME TypeOK, NEW w \in Workers, Claim(w), job[w] \in Items
    PROVE  /\ item'[job[w]].status \in {item[job[w]].status, "leased"}
           /\ \A j \in Items : j # job[w] => item'[j] = item[j]
<1> DEFINE i == job[w]
<1>1. PICK s, a :
         /\ item' = [item EXCEPT ![i].status = s, ![i].lease = "live", ![i].attempt = a]
         /\ s \in {item[i].status, "leased"}
  BY DEF Claim
<1>2. item \in [Items -> Rows] /\ i \in Items
  BY DEF TypeOK
<1> HIDE DEF i
<1>3. item'[i].status = s
  BY <1>1, <1>2 DEF Rows
<1>4. \A j \in Items : j # i => item'[j] = item[j]
  BY <1>1, <1>2
<1> QED
  BY <1>1, <1>3, <1>4 DEF i

LEMMA ClaimClaims ==
    ASSUME TypeOK, TypeOK', NEW w \in Workers, Claim(w)
    PROVE  \E i \in Items : Promise!Claim(w, i)
<1> USE DEF workerVars, histories
<1>1. PICK i \in Items : i = job[w]
  BY DEF TypeOK, Claim
<1>2. /\ pc[w] = "selected" /\ pc' = [pc EXCEPT ![w] = "claimed"]
      /\ UNCHANGED <<job, cancelling, executed>>
  BY DEF Claim
<1>3. /\ item'[i].status \in {item[i].status, "leased"}
      /\ \A j \in Items \ {i} : item'[j] = item[j]
  BY <1>1, ClaimedRow
<1>4. state' \in {state, [state EXCEPT ![i] = "open"]}
  <2>1. CASE item'[i].status = item[i].status
    BY <1>3, <2>1, StateKept
  <2>2. CASE item'[i].status = "leased"
    <3>1. state'[i] = "open"
      BY <2>2, StateNext DEF OpenStatuses
    <3> QED
      BY <1>3, <3>1, StateWritten
  <2> QED
    BY <1>3, <2>1, <2>2
<1>5. \A u \in Workers \ {w} : pc'[u] = pc[u]
  BY <1>2 DEF TypeOK
<1>6. pc'[w] = "claimed"
  BY <1>2 DEF TypeOK
<1>7. reads' = [reads EXCEPT ![i] = @ \ {w}] /\ w \in reads[i]
  <2>1. \A j \in Items : reads'[j] = IF j = i THEN reads[j] \ {w} ELSE reads[j]
    BY <1>1, <1>2, <1>5, <1>6 DEF reads
  <2>2. reads' = [reads EXCEPT ![i] = @ \ {w}]
    BY <2>1 DEF reads
  <2>3. w \in reads[i]
    BY <1>1, <1>2 DEF reads
  <2> QED
    BY <2>2, <2>3
<1>8. claims' = [claims EXCEPT ![i] = @ \cup {w}]
  <2>1. \A j \in Items : claims'[j] = IF j = i THEN claims[j] \cup {w} ELSE claims[j]
    BY <1>1, <1>2, <1>5, <1>6 DEF claims
  <2> QED
    BY <2>1 DEF claims
<1>9. Promise!Claim(w, i)
  BY <1>2, <1>4, <1>7, <1>8, CancelsKept DEF Promise!Claim
<1> QED
  BY <1>9

LEMMA FinishExecutes ==
    ASSUME TypeOK, NEW w \in Workers, Finish(w)
    PROVE  (\E i \in Items : Promise!Execute(w, i)) \/ UNCHANGED Promise!vars
<1> USE DEF workerVars, histories
<1>1. PICK i \in Items : i = job[w]
  BY DEF TypeOK, Finish
<1>2. /\ pc[w] = "running" /\ pc' = [pc EXCEPT ![w] = "releasing"]
      /\ UNCHANGED <<item, job, cancelling>>
      /\ executed' = executed \cup {i} \/ executed' = executed
  BY <1>1 DEF Finish
<1>3. \A u \in Workers : pc'[u] = "selected" <=> pc[u] = "selected"
  BY <1>2 DEF TypeOK
<1>4. UNCHANGED <<state, reads, claims, cancels>>
  BY <1>2, <1>3, StateKept, HandsKept, CancelsKept
<1>5. w \in claims[i]
  BY <1>1, <1>2 DEF claims
<1>6. CASE executed' = executed \cup {i}
  <2>1. Promise!Execute(w, i)
    BY <1>4, <1>5, <1>6 DEF Promise!Execute
  <2> QED
    BY <2>1
<1>7. CASE executed' = executed
  BY <1>4, <1>7 DEF Promise!vars
<1> QED
  BY <1>2, <1>6, <1>7

LEMMA ReportReturns ==
    ASSUME EarnedInv, TypeOK', NEW w \in Workers, Report(w)
    PROVE  \E i \in Items, how \in {"open", "completed", "failed"} :
              Promise!Return(w, i, how)
<1> USE DEF workerVars, histories
<1> TypeOK
  BY DEF EarnedInv
<1>1. PICK i \in Items : i = job[w]
  BY DEF TypeOK, Report
<1>2. /\ pc[w] = "reporting" /\ TurnOver(w) /\ UNCHANGED <<cancelling, executed>>
      /\ item' = [item EXCEPT ![i] =
            IF GivesBack(w) THEN Reclaimed(@)
            ELSE [@ EXCEPT !.status = IF outcome[w] \in {"failed", "retryable"}
                                      THEN "failed" ELSE "completed"]]
  BY <1>1 DEF Report
<1>3. \A j \in Items \ {i} : item'[j] = item[j]
  BY <1>2 DEF TypeOK
<1>4. item[i] \in Rows
  BY DEF TypeOK
<1>5. reads' = reads /\ claims' = [claims EXCEPT ![i] = @ \ {w}] /\ w \in claims[i]
  BY <1>1, <1>2, HandsDropped DEF claims
<1>6. PICK how \in {"open", "completed", "failed"} :
         state'[i] = how /\ (how = "completed" => i \in executed \cup Unsupported)
  <2>1. CASE GivesBack(w)
    <3>1. item'[i].status = "reclaimable"
      BY <1>2, <1>4, <2>1 DEF TypeOK, Rows, Reclaimed
    <3> QED
      BY <3>1, StateNext DEF OpenStatuses
  <2>2. CASE ~GivesBack(w) /\ outcome[w] \in {"failed", "retryable"}
    <3>1. item'[i].status = "failed"
      BY <1>2, <1>4, <2>2 DEF TypeOK, Rows
    <3> QED
      BY <3>1, StateNext DEF Terminal
  <2>3. CASE ~GivesBack(w) /\ outcome[w] \notin {"failed", "retryable"}
    <3>1. item'[i].status = "completed"
      BY <1>2, <1>4, <2>3 DEF TypeOK, Rows
    <3>2. outcome[w] \in {"ok", "ignored"}
      BY <1>2, <2>3 DEF GivesBack, Outcomes, TypeOK, EarnedInv, OutcomeEarned
    <3>3. i \in executed \cup Unsupported
      BY <1>1, <3>2 DEF EarnedInv, OutcomeEarned
    <3> QED
      BY <3>1, <3>3, StateNext DEF Terminal
  <2> QED
    BY <2>1, <2>2, <2>3
<1>7. state' = [state EXCEPT ![i] = how]
  BY <1>3, <1>6, StateWritten
<1>8. Promise!Return(w, i, how)
  BY <1>2, <1>5, <1>6, <1>7, CancelsKept DEF Promise!Return
<1> QED
  BY <1>8

\* Cancelling some rows, and writing no other.
LEMMA StateCancelled ==
    ASSUME TypeOK, TypeOK', NEW is \in SUBSET Items, item' = Cancelled(is)
    PROVE  state' = [i \in Items |-> IF i \in is THEN "cancelled" ELSE state[i]]
<1>1. \A i \in is : item'[i].status = "cancelled"
  BY DEF Cancelled, TypeOK, Rows
<1>2. \A i \in is : state'[i] = "cancelled"
  BY <1>1, StateNext DEF Terminal
<1>3. \A i \in Items \ is : state'[i] = state[i]
  BY DEF Cancelled, state, StateOf
<1> QED
  BY <1>2, <1>3, StateFunction

LEMMA CancelCancels ==
    ASSUME TypeInv, TypeOK', NEW t \in Tasks, Cancel(t) \/ CancelReads(t) \/ CancelWrites(t)
    PROVE  \E is \in SUBSET Items : Promise!ReadToCancel(is) \/ Promise!Cancel(is)
<1> USE DEF workerVars, histories
<1> TypeOK
  BY DEF TypeInv
<1>1. Cancellable(t) \in SUBSET Items /\ \A i \in Cancellable(t) : state[i] = "open"
  BY StateIs DEF Cancellable, OpenStatuses
<1>2. UNCHANGED <<reads, claims, executed>>
  BY HandsKept DEF Cancel, CancelReads, CancelWrites
<1>3. CASE Cancel(t)
  <2>1. item' = Cancelled(Cancellable(t)) /\ UNCHANGED cancelling
    BY <1>3 DEF Cancel
  <2>2. state' = [i \in Items |-> IF i \in Cancellable(t) THEN "cancelled" ELSE state[i]]
    BY <1>1, <2>1, StateCancelled
  <2>3. Promise!Cancel(Cancellable(t))
    BY <1>1, <1>2, <2>1, <2>2, CancelsKept DEF Promise!Cancel
  <2> QED
    BY <1>1, <2>3
<1>4. CASE CancelReads(t)
  <2>1. /\ cancelling[t] = {} /\ item' = item
        /\ cancelling' = [cancelling EXCEPT ![t] = Cancellable(t)]
    BY <1>4 DEF CancelReads
  <2>2. /\ cancelling'[t] = Cancellable(t)
        /\ \A s \in Tasks \ {t} : cancelling'[s] = cancelling[s]
    BY <2>1 DEF TypeOK
  <2>3. cancels' = cancels \cup Cancellable(t)
    BY <2>1, <2>2 DEF cancels
  <2>4. Promise!ReadToCancel(Cancellable(t))
    BY <1>1, <1>2, <2>1, <2>3, StateKept DEF Promise!ReadToCancel
  <2> QED
    BY <1>1, <2>4
<1>5. CASE CancelWrites(t)
  <2>1. /\ item' = Cancelled(cancelling[t])
        /\ cancelling' = [cancelling EXCEPT ![t] = {}]
    BY <1>5 DEF CancelWrites
  <2>2. cancelling[t] \in SUBSET Items /\ cancelling[t] \subseteq cancels
    BY DEF TypeOK, cancels
  <2>3. state' = [i \in Items |-> IF i \in cancelling[t] THEN "cancelled" ELSE state[i]]
    BY <2>1, <2>2, StateCancelled
  <2>4. /\ cancelling'[t] = {}
        /\ \A s \in Tasks \ {t} : cancelling'[s] = cancelling[s]
    BY <2>1 DEF TypeOK
  <2>5. \A s \in Tasks \ {t} : cancelling[s] \cap cancelling[t] = {}
    BY DEF TypeInv, CancelsOwn
  <2>6. cancels' = cancels \ cancelling[t]
    BY <2>4, <2>5 DEF cancels
  <2>7. Promise!Cancel(cancelling[t])
    BY <1>2, <2>2, <2>3, <2>6 DEF Promise!Cancel
  <2> QED
    BY <2>2, <2>7
<1> QED
  BY <1>3, <1>4, <1>5

LEMMA CrashDrops ==
    ASSUME TypeOK, NEW w \in Workers, Crash(w)
    PROVE  Promise!Drop(w)
<1>1. /\ TurnOver(w) /\ UNCHANGED <<item, cancelling, executed>> /\ job[w] \in Items
  BY DEF Crash, TypeOK
<1> QED
  BY <1>1, HandsDropped, StateKept, CancelsKept DEF Promise!Drop

LEMMA QueueStep ==
    ASSUME TypeInv, EarnedInv, TypeOK', [Next]_vars
    PROVE  [Promise!Next]_(Promise!vars)
<1> USE DEF workerVars, histories
<1> TypeOK
  BY DEF TypeInv
<1>1. ASSUME NEW i \in Items, Create(i) PROVE Promise!Next
  BY <1>1, CreateAccepts DEF Promise!Next
<1>2. ASSUME NEW i \in Items, ExpireLease(i) PROVE UNCHANGED Promise!vars
  <2>1. \A j \in Items : item'[j].status = item[j].status
    BY <1>2 DEF ExpireLease, TypeOK, Rows
  <2> QED
    BY <1>2, <2>1, StateKept, HandsKept, CancelsKept DEF ExpireLease, Promise!vars
<1>3. ASSUME NEW t \in Tasks, Cancel(t) \/ CancelReads(t) \/ CancelWrites(t)
      PROVE  Promise!Next
  BY <1>3, CancelCancels DEF Promise!Next
<1>4. ASSUME NEW t \in Tasks, ControllerLocks(t) \/ ControllerUnlocks(t) \/ ExpireLock(t)
      PROVE  UNCHANGED Promise!vars
  BY <1>4, StateKept, HandsKept, CancelsKept
  DEF ControllerLocks, ControllerUnlocks, ExpireLock, Promise!vars
<1>5. ASSUME NEW w \in Workers, Select(w) \/ Claim(w) PROVE Promise!Next
  BY <1>5, SelectReads, ClaimClaims DEF Promise!Next
<1>6. ASSUME NEW w \in Workers, Finish(w) PROVE Promise!Next \/ UNCHANGED Promise!vars
  BY <1>6, FinishExecutes DEF Promise!Next
<1>7. ASSUME NEW w \in Workers, Report(w) PROVE Promise!Next
  BY <1>7, ReportReturns DEF Promise!Next
<1>8. ASSUME NEW w \in Workers,
             \/ Lock(w) \/ LockInMemory(w) \/ LockMiss(w) \/ Ignore(w)
             \/ CheckLock(w) \/ DeleteLock(w) \/ ReleaseInMemory(w)
      PROVE  UNCHANGED Promise!vars
  <2>1. UNCHANGED <<item, job, cancelling, executed>>
    BY <1>8 DEF Lock, LockInMemory, LockMiss, Ignore, CheckLock, DeleteLock,
                ReleaseInMemory
  <2>2. \A u \in Workers : pc'[u] = "selected" <=> pc[u] = "selected"
    BY <1>8 DEF TypeOK, Lock, LockInMemory, LockMiss, Ignore, CheckLock, DeleteLock,
                ReleaseInMemory
  <2> QED
    BY <2>1, <2>2, StateKept, HandsKept, CancelsKept DEF Promise!vars
<1>9. ASSUME NEW w \in Workers, Crash(w) PROVE Promise!Next
  BY <1>9, CrashDrops DEF Promise!Next
<1>10. CASE UNCHANGED vars
  BY <1>10, StateKept, HandsKept, CancelsKept DEF vars, Promise!vars
<1> QED
  BY <1>1, <1>2, <1>3, <1>4, <1>5, <1>6, <1>7, <1>8, <1>9, <1>10 DEF Next, WorkerStep

\* The rows implement the queue the enqueuers can rely on, for any workers,
\* items, crashes, races and retries.
THEOREM QueueImplements == Spec => ImplementsAtLeastOnce
<1>1. EarnedInv /\ TypeOK' /\ [Next]_vars => EarnedInv'
  BY NextEarned
<1>2. Init => Promise!Init
  <2> SUFFICES ASSUME Init PROVE Promise!Init
    OBVIOUS
  <2>1. state = [i \in Items |-> "absent"] /\ cancels = {} /\ executed = {}
    BY DEF Init, state, StateOf, NoRow, cancels
  <2>2. reads = [i \in Items |-> {}] /\ claims = [i \in Items |-> {}]
    BY WorkQueueAssumption DEF WorkQueueAssumption, Init, reads, claims
  <2> QED
    BY <2>1, <2>2 DEF Promise!Init
<1>3. TypeInv /\ EarnedInv /\ TypeOK' /\ [Next]_vars => [Promise!Next]_(Promise!vars)
  BY QueueStep
<1> QED
  BY <1>1, <1>2, <1>3, InitEarned, SpecTypeInv, TypeCorrect, PTL
  DEF Spec, ImplementsAtLeastOnce, Promise!Spec
=============================================================================
