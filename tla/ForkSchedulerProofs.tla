------------------------- MODULE ForkSchedulerProofs -------------------------
(***************************************************************************)
(* The forks of a task, for any children, dependencies, limits, aborted    *)
(* and repeated executions:                                                *)
(*   - the rows keep their types and their numbering;                      *)
(*   - the open forks stay within the limit, and no two work on one child; *)
(*   - a child is launched only after what it depends on was executed;     *)
(*   - launching ends, within a bound of the children, the limit and the   *)
(*     crashes.                                                            *)
(*                                                                         *)
(* The first four rest on one invariant of the rows, Good, which a launch  *)
(* and every other change of the rows keeps; the last on what may still be *)
(* launched because of each queued item.                                   *)
(***************************************************************************)
EXTENDS ForkScheduler, FiniteSetTheorems, WellFoundedInduction, TLAPS

Limit == IF MaxForks > Reserve THEN MaxForks - Reserve ELSE 0

\* The rows of n runs, when the children in done were executed.  The last
\* part is what a copy of the tree knows.
Good(rows, n, done) ==
    /\ rows \in [Runs -> Rows]
    /\ \A r \in Runs : rows[r].status # "absent" <=> r <= n
    /\ \A r \in Runs : rows[r].status = "absent" => rows[r] = NoRun
    /\ Cardinality(Active(rows)) <= Limit
    /\ \A q, r \in Active(rows) : rows[q].child = rows[r].child => q = r
    /\ \A r \in Runs : rows[r].status # "absent" => DependsOn[rows[r].child] \subseteq done
    /\ \A r \in Runs : \A x \in Children : rows[r].tree[x] = "completed" => x \in done

\* The numbers given to the batch L after n runs.
Numbers(n, L) == (n + 1) .. (n + Cardinality(L))

Inv ==
    /\ Good(run, count, executed)
    /\ count \in 0 .. MaxRuns
    /\ executed \subseteq Children
    /\ smooth \in BOOLEAN
    /\ crashes \in 0 .. MaxCrash

-----------------------------------------------------------------------------
(***************************************************************************)
(* Sets of runs, and the rows a launch leaves.                             *)
(***************************************************************************)
LEMMA LimitType == Limit \in Nat
BY ForkAssumption DEF ForkAssumption, Limit

LEMMA NoRunType == NoRun \in Rows /\ Unstarted \in Trees
<1>1. NoChild \in Children
  BY ForkAssumption DEF ForkAssumption, NoChild
<1>2. Unstarted \in Trees
  BY DEF Unstarted, Trees
<1> QED
  BY <1>1, <1>2 DEF NoRun, Rows, RunStatuses, ItemStatuses

LEMMA FiniteRuns ==
    ASSUME NEW rows
    PROVE  IsFiniteSet(Active(rows)) /\ Cardinality(Active(rows)) \in Nat
<1>1. IsFiniteSet(Runs)
  BY FS_Interval, ForkAssumption DEF Runs, ForkAssumption
<1>2. Active(rows) \in SUBSET Runs
  BY DEF Active
<1> QED
  BY <1>1, <1>2, FS_Subset, FS_CardinalityType

LEMMA FewerActive ==
    ASSUME NEW rows, NEW rows2, Active(rows2) \subseteq Active(rows)
    PROVE  Cardinality(Active(rows2)) <= Cardinality(Active(rows))
BY FiniteRuns, FS_Subset

\* A batch is finite and fits into the slots.
LEMMA BatchFits ==
    ASSUME NEW rows, NEW tree, NEW L \in Batches(Ready(rows, tree), Slots(rows))
    PROVE  /\ IsFiniteSet(L) /\ Cardinality(L) \in Nat
           /\ Cardinality(L) <= Slots(rows)
           /\ L \subseteq Ready(rows, tree)
<1>1. L \in SUBSET Ready(rows, tree) /\ Cardinality(L) <= Slots(rows)
  BY DEF Batches
<1>2. L \in SUBSET Children
  BY <1>1 DEF Ready
<1>3. IsFiniteSet(L)
  BY <1>2, ForkAssumption, FS_Subset DEF ForkAssumption
<1>4. Cardinality(L) \in Nat
  BY <1>3, FS_CardinalityType
<1> QED
  BY <1>1, <1>3, <1>4

LEMMA IntervalCount ==
    ASSUME NEW n \in Nat, NEW m \in Nat
    PROVE  IsFiniteSet((n + 1) .. (n + m)) /\ Cardinality((n + 1) .. (n + m)) = m
<1>1. n + 1 \in Int /\ n + m \in Int
  OBVIOUS
<1>2. /\ IsFiniteSet((n + 1) .. (n + m))
      /\ Cardinality((n + 1) .. (n + m))
            = IF n + 1 > n + m THEN 0 ELSE (n + m) - (n + 1) + 1
  BY <1>1, FS_Interval
<1> QED
  BY <1>2

LEMMA NumbersCount ==
    ASSUME NEW L, Cardinality(L) \in Nat, NEW n \in Nat
    PROVE  IsFiniteSet(Numbers(n, L)) /\ Cardinality(Numbers(n, L)) = Cardinality(L)
BY IntervalCount DEF Numbers

\* The numbers a launch gives out are all used.
LEMMA NumbersUsed ==
    ASSUME NEW L, IsFiniteSet(L), L \subseteq Nat, Cardinality(L) \in Nat,
           NEW n \in Nat,
           NEW new \in [L -> Numbers(n, L)],
           \A x, y \in L : x < y => new[x] < new[y]
    PROVE  /\ \A x, y \in L : new[x] = new[y] => x = y
           /\ \A r \in Numbers(n, L) : \E x \in L : new[x] = r
<1> DEFINE N == Numbers(n, L)
<1>1. \A x, y \in L : new[x] = new[y] => x = y
  <2> SUFFICES ASSUME NEW x \in L, NEW y \in L, new[x] = new[y] PROVE x = y
    OBVIOUS
  <2>1. x \in Nat /\ y \in Nat /\ new[x] \in Int /\ new[y] \in Int
    BY DEF Numbers
  <2>2. ~(x < y) /\ ~(y < x)
    BY <2>1
  <2> QED
    BY <2>1, <2>2
<1>2. new \in Injection(L, N)
  BY <1>1 DEF Injection, IsInjective
<1>3. IsFiniteSet(N) /\ Cardinality(N) = Cardinality(L)
  BY NumbersCount
<1>4. new \in Surjection(L, N)
  BY <1>2, <1>3, FS_Injection
<1> QED
  BY <1>1, <1>4 DEF Surjection

\* What the rows are after a launch.
LEMMA LaunchedRows ==
    ASSUME NEW rows \in [Runs -> Rows], NEW tree \in Trees, count \in Nat,
           NEW L \in Batches(Ready(rows, tree), Slots(rows)), Launch(rows, L, tree)
    PROVE  /\ count' = count + Cardinality(L) /\ count' \in 0 .. MaxRuns
           /\ \A r \in Runs \ Numbers(count, L) : run'[r] = rows[r]
           /\ \A r \in Numbers(count, L) : \E x \in L : run'[r] = Launched(x, tree)
           /\ \A q, r \in Numbers(count, L) : run'[q].child = run'[r].child => q = r
           /\ run' \in [Runs -> Rows]
<1>1. /\ IsFiniteSet(L) /\ Cardinality(L) \in Nat
      /\ L \subseteq Children /\ L \subseteq Nat
  <2>1. Ready(rows, tree) \subseteq Children
    BY DEF Ready
  <2>2. Children \subseteq Nat
    BY ForkAssumption DEF ForkAssumption
  <2> QED
    BY <2>1, <2>2, BatchFits
<1>2. PICK new \in [L -> Numbers(count, L)] :
        /\ \A x, y \in L : x < y => new[x] < new[y]
        /\ count + Cardinality(L) <= MaxRuns
        /\ count' = count + Cardinality(L)
        /\ run' = [r \in Runs |-> IF \E x \in L : new[x] = r
                                  THEN Launched(CHOOSE x \in L : new[x] = r, tree)
                                  ELSE rows[r]]
  BY DEF Launch, Numbers
<1>3. /\ \A x, y \in L : new[x] = new[y] => x = y
      /\ \A r \in Numbers(count, L) : \E x \in L : new[x] = r
  <2>1. \A n \in Nat : \A nw \in [L -> Numbers(n, L)] :
        (\A x, y \in L : x < y => nw[x] < nw[y])
        => /\ \A x, y \in L : nw[x] = nw[y] => x = y
           /\ \A r \in Numbers(n, L) : \E x \in L : nw[x] = r
    BY <1>1, NumbersUsed
  <2> QED
    BY <2>1, <1>2
<1>4. Numbers(count, L) \subseteq Runs
  BY <1>1, <1>2, ForkAssumption DEF Numbers, Runs, ForkAssumption
<1>5. \A r \in Runs \ Numbers(count, L) : run'[r] = rows[r]
  BY <1>2
<1>6. ASSUME NEW r \in Numbers(count, L)
      PROVE  \E x \in L : new[x] = r /\ run'[r] = Launched(x, tree)
  <2>1. PICK x \in L : new[x] = r
    BY <1>3
  <2>2. (CHOOSE y \in L : new[y] = r) = x
    BY <2>1, <1>3
  <2> QED
    BY <1>2, <1>4, <2>1, <2>2
<1>7. \A x \in L : Launched(x, tree) \in Rows /\ Launched(x, tree).child = x
  BY <1>1 DEF Launched, Rows, RunStatuses, ItemStatuses
<1>8. \A q, r \in Numbers(count, L) : run'[q].child = run'[r].child => q = r
  BY <1>6, <1>7
<1>9. run' \in [Runs -> Rows]
  BY <1>2, <1>4, <1>5, <1>6, <1>7
<1>10. count' \in 0 .. MaxRuns
  BY <1>1, <1>2, ForkAssumption DEF ForkAssumption
<1> QED
  <2>1. count' = count + Cardinality(L)
    BY <1>2
  <2>2. \A r \in Numbers(count, L) : \E x \in L : run'[r] = Launched(x, tree)
    BY <1>6
  <2> QED
    BY <2>1, <2>2, <1>5, <1>8, <1>9, <1>10

-----------------------------------------------------------------------------
(***************************************************************************)
(* Changes that keep the rows good.                                        *)
(***************************************************************************)
\* Statuses and items change, no run becomes active.
LEMMA ChangeGood ==
    ASSUME NEW rows, NEW rows2, NEW n, NEW done, NEW done2,
           Good(rows, n, done), done \subseteq done2,
           rows2 \in [Runs -> Rows],
           \A r \in Runs : rows[r].status = "absent" => rows2[r] = rows[r],
           \A r \in Runs : rows2[r].status = "absent" => rows[r].status = "absent",
           \A r \in Runs : rows2[r].child = rows[r].child /\ rows2[r].tree = rows[r].tree,
           Active(rows2) \subseteq Active(rows)
    PROVE  Good(rows2, n, done2)
<1>1. Cardinality(Active(rows2)) <= Limit
  <2>1. Cardinality(Active(rows2)) <= Cardinality(Active(rows))
    BY FewerActive
  <2>2. Cardinality(Active(rows)) <= Limit
    BY DEF Good
  <2> QED
    BY <2>1, <2>2, FiniteRuns, LimitType
<1>2. \A r \in Runs : rows2[r].status # "absent" <=> r <= n
  BY DEF Good
<1>3. \A r \in Runs : rows2[r].status = "absent" => rows2[r] = NoRun
  BY DEF Good
<1>4. \A q, r \in Active(rows2) : rows2[q].child = rows2[r].child => q = r
  BY DEF Good, Active
<1>5. \A r \in Runs : rows2[r].status # "absent" => DependsOn[rows2[r].child] \subseteq done2
  BY DEF Good
<1>6. \A r \in Runs : \A x \in Children : rows2[r].tree[x] = "completed" => x \in done2
  BY DEF Good
<1> QED
  BY <1>1, <1>2, <1>3, <1>4, <1>5, <1>6 DEF Good

\* A batch planned from these rows and from a tree that knows of nothing but
\* completed executions.
LEMMA LaunchGood ==
    ASSUME NEW rows, NEW tree \in Trees, NEW done, count \in Nat,
           Good(rows, count, done),
           \A x \in Children : tree[x] = "completed" => x \in done,
           NEW L \in Batches(Ready(rows, tree), Slots(rows)), Launch(rows, L, tree)
    PROVE  Good(run', count', done) /\ count' \in 0 .. MaxRuns
<1> DEFINE N == Numbers(count, L)
<1>1. rows \in [Runs -> Rows]
  BY DEF Good
<1>2. /\ count' = count + Cardinality(L) /\ count' \in 0 .. MaxRuns
      /\ \A r \in Runs \ N : run'[r] = rows[r]
      /\ \A r \in N : \E x \in L : run'[r] = Launched(x, tree)
      /\ \A q, r \in N : run'[q].child = run'[r].child => q = r
      /\ run' \in [Runs -> Rows]
  BY <1>1, LaunchedRows
<1>3. /\ IsFiniteSet(L) /\ Cardinality(L) \in Nat
      /\ Cardinality(L) <= Slots(rows) /\ L \subseteq Ready(rows, tree)
  BY BatchFits
<1>4. N \subseteq Runs
  BY <1>2, <1>3, ForkAssumption DEF Numbers, Runs, ForkAssumption
<1>5. \A r \in N : /\ run'[r].status = "initializing"
                   /\ run'[r].child \in L
                   /\ run'[r].tree = tree
  <2> SUFFICES ASSUME NEW r \in N
               PROVE  /\ run'[r].status = "initializing"
                      /\ run'[r].child \in L
                      /\ run'[r].tree = tree
    OBVIOUS
  <2>1. PICK x \in L : run'[r] = Launched(x, tree)
    BY <1>2
  <2> QED
    BY <2>1 DEF Launched
<1>6. Active(run') \subseteq Active(rows) \cup N
  BY <1>2 DEF Active
<1>7. Cardinality(Active(run')) <= Limit
  <2>1. IsFiniteSet(N) /\ Cardinality(N) = Cardinality(L)
    <3>1. \A n \in Nat : /\ IsFiniteSet(Numbers(n, L))
                         /\ Cardinality(Numbers(n, L)) = Cardinality(L)
      BY <1>3, NumbersCount
    <3> QED
      BY <3>1
  <2>2. Cardinality(Active(rows) \cup N) <= Cardinality(Active(rows)) + Cardinality(L)
    <3>1. Cardinality(Active(rows) \cup N)
            = Cardinality(Active(rows)) + Cardinality(N) - Cardinality(Active(rows) \cap N)
      BY <2>1, FiniteRuns, FS_Union
    <3>2. Cardinality(Active(rows) \cap N) \in Nat
      BY <2>1, FS_Subset, FS_CardinalityType
    <3> QED
      BY <2>1, <3>1, <3>2, <1>3, FiniteRuns
  <2>3. /\ IsFiniteSet(Active(rows) \cup N)
        /\ Cardinality(Active(run')) <= Cardinality(Active(rows) \cup N)
        /\ Cardinality(Active(rows) \cup N) \in Nat
        /\ Cardinality(Active(run')) \in Nat
    BY <1>6, <2>1, FiniteRuns, FS_Union, FS_Subset, FS_CardinalityType
  <2>4. Cardinality(Active(run')) <= Cardinality(Active(rows)) + Slots(rows)
    <3>1. Slots(rows) \in Nat
      BY FiniteRuns, ForkAssumption DEF Slots, ForkAssumption
    <3> QED
      BY <2>2, <2>3, <1>3, <3>1, FiniteRuns
  <2>5. CASE MaxForks - Cardinality(Active(rows)) - Reserve > 0
    <3>1. Slots(rows) = MaxForks - Cardinality(Active(rows)) - Reserve
      BY <2>5 DEF Slots
    <3> QED
      BY <2>4, <2>5, <3>1, <2>3, FiniteRuns, ForkAssumption DEF Limit, ForkAssumption
  <2>6. CASE ~(MaxForks - Cardinality(Active(rows)) - Reserve > 0)
    <3>1. Slots(rows) = 0
      BY <2>6 DEF Slots
    <3>2. Cardinality(Active(rows)) <= Limit
      BY DEF Good
    <3> QED
      BY <2>4, <3>1, <3>2, <2>3, FiniteRuns, LimitType
  <2> QED
    BY <2>5, <2>6
<1>8. \A q, r \in Active(run') : run'[q].child = run'[r].child => q = r
  <2> SUFFICES ASSUME NEW q \in Active(run'), NEW r \in Active(run'),
                      run'[q].child = run'[r].child
               PROVE  q = r
    OBVIOUS
  <2>1. \A s \in N, p \in Active(rows) : run'[s].child # rows[p].child
    BY <1>3, <1>5 DEF Ready
  <2>2. \A s \in Active(run') \ N : s \in Active(rows) /\ run'[s] = rows[s]
    BY <1>2, <1>6 DEF Active
  <2>3. CASE q \in N /\ r \in N
    BY <2>3, <1>2
  <2>4. CASE q \in N /\ r \notin N
    BY <2>1, <2>2, <2>4
  <2>5. CASE q \notin N /\ r \in N
    BY <2>1, <2>2, <2>5
  <2>6. CASE q \notin N /\ r \notin N
    BY <2>2, <2>6 DEF Good
  <2> QED
    BY <2>3, <2>4, <2>5, <2>6
<1>9. \A r \in Runs : run'[r].status # "absent" => DependsOn[run'[r].child] \subseteq done
  <2>1. \A x \in Ready(rows, tree) : DependsOn[x] \subseteq done
    BY ForkAssumption DEF Ready, ForkAssumption
  <2> QED
    BY <2>1, <1>2, <1>3, <1>5 DEF Good
<1>10. \A r \in Runs : \A x \in Children : run'[r].tree[x] = "completed" => x \in done
  BY <1>2, <1>5 DEF Good
<1>11. \A r \in Runs : run'[r].status # "absent" <=> r <= count'
  <2> SUFFICES ASSUME NEW r \in Runs PROVE run'[r].status # "absent" <=> r <= count'
    OBVIOUS
  <2>1. r \in Nat /\ r >= 1
    BY DEF Runs
  <2>2. CASE r \in N
    BY <2>1, <2>2, <1>2, <1>3, <1>5 DEF Numbers
  <2>3. CASE r \notin N
    <3>1. run'[r] = rows[r] /\ (rows[r].status # "absent" <=> r <= count)
      BY <2>3, <1>2 DEF Good
    <3>2. r <= count <=> r <= count'
      BY <2>1, <2>3, <1>2, <1>3 DEF Numbers
    <3> QED
      BY <3>1, <3>2
  <2> QED
    BY <2>2, <2>3
<1>12. \A r \in Runs : run'[r].status = "absent" => run'[r] = NoRun
  BY <1>2, <1>5 DEF Good
<1> QED
  BY <1>2, <1>7, <1>8, <1>9, <1>10, <1>11, <1>12 DEF Good

-----------------------------------------------------------------------------
(***************************************************************************)
(* The invariant.                                                          *)
(***************************************************************************)
LEMMA InitInv == Init => Inv
<1> SUFFICES ASSUME Init PROVE Inv
  OBVIOUS
<1>1. run \in [Runs -> Rows] /\ \A r \in Runs : run[r] = NoRun
  BY NoRunType DEF Init
<1>2. Active(run) = {}
  BY <1>1 DEF Active, NoRun
<1>3. Cardinality(Active(run)) <= Limit
  BY <1>2, FS_EmptySet, LimitType
<1>4. \A r \in Runs : r >= 1 /\ r \in Nat
  BY DEF Runs
<1>5. \A r \in Runs : \A x \in Children : run[r].tree[x] # "completed"
  BY <1>1 DEF NoRun, Unstarted
<1>6. Good(run, count, executed)
  BY <1>1, <1>2, <1>3, <1>4, <1>5 DEF Good, Init, NoRun
<1> QED
  BY <1>6, ForkAssumption DEF Init, Inv, ForkAssumption

LEMMA NextInv == Inv /\ [Next]_vars => Inv'
<1> SUFFICES ASSUME Inv, [Next]_vars PROVE Inv'
  OBVIOUS
<1> USE DEF Inv
<1>1. count \in Nat /\ run \in [Runs -> Rows]
  BY ForkAssumption DEF ForkAssumption, Good
<1>10. \A q \in Runs : run[q].status = "absent" => run[q].item = "none"
  <2>1. NoRun.item = "none"
    BY DEF NoRun
  <2> QED
    BY <2>1 DEF Good
<1>2. CASE LaunchFirst
  <2>1. PICK L \in Batches(Ready(run, Unstarted), Slots(run)) : Launch(run, L, Unstarted)
    BY <1>2 DEF LaunchFirst
  <2>2. \A x \in Children : Unstarted[x] = "completed" => x \in executed
    BY DEF Unstarted
  <2>3. Good(run', count', executed) /\ count' \in 0 .. MaxRuns
    BY <1>1, <2>1, <2>2, LaunchGood, NoRunType
  <2> QED
    BY <1>2, <2>3 DEF LaunchFirst
<1>3. ASSUME NEW r \in Runs, ExecuteAndMerge(r) PROVE Inv'
  <2>1. PICK status \in {"completed", "failed"}, replan \in BOOLEAN :
          LET rows == [run EXCEPT ![r].status = "completed", ![r].item = "executed"]
              tree == Merged(r, status) IN
          /\ IF replan THEN run' = rows /\ UNCHANGED count
             ELSE \E L \in Batches(Ready(rows, tree), Slots(rows)) :
                     Launch(rows, L, tree)
          /\ executed' = IF status = "completed"
                         THEN executed \cup {run[r].child} ELSE executed
          /\ smooth' = (smooth /\ status = "completed" /\ ~replan)
    BY <1>3 DEF ExecuteAndMerge
  <2> DEFINE rows == [run EXCEPT ![r].status = "completed", ![r].item = "executed"]
             tree == Merged(r, status)
  <2>2. run[r].item = "queued" /\ run[r].status # "absent" /\ run[r].child \in Children
    BY <1>1, <1>3 DEF ExecuteAndMerge, Waiting, Good, NoRun, Rows
  <2>3. executed \subseteq executed' /\ executed' \subseteq Children
    BY <2>1, <2>2
  <2>4. rows \in [Runs -> Rows]
    BY <1>1 DEF Rows, RunStatuses, ItemStatuses
  <2>5. Good(rows, count, executed')
    <3>1. Active(rows) \subseteq Active(run)
      BY <1>1 DEF Active
    <3>2. \A q \in Runs : rows[q].child = run[q].child /\ rows[q].tree = run[q].tree
      BY <1>1 DEF Rows
    <3>3. \A q \in Runs : run[q].status = "absent" => rows[q] = run[q]
      BY <1>1, <2>2
    <3>4. \A q \in Runs : rows[q].status = "absent" => run[q].status = "absent"
      BY <1>1 DEF Rows
    <3> HIDE DEF rows
    <3>5. \A n : Good(run, n, executed) => Good(rows, n, executed')
      BY <2>3, <2>4, <3>1, <3>2, <3>3, <3>4, ChangeGood
    <3> QED
      BY <3>5
  <2>6. tree \in Trees
    BY <1>1, <2>2 DEF Merged, Rows, Trees
  <2>7. \A x \in Children : tree[x] = "completed" => x \in executed'
    BY <1>1, <2>1, <2>2, <2>3 DEF Merged, Rows, Trees, Good
  <2>8. CASE replan
    <3>1. run' = rows /\ count' = count
      BY <2>1, <2>8
    <3>2. Good(run', count', executed')
      BY <2>5, <3>1
    <3> QED
      BY <1>3, <2>1, <2>3, <3>1, <3>2 DEF ExecuteAndMerge
  <2>9. CASE ~replan
    <3>1. PICK L \in Batches(Ready(rows, tree), Slots(rows)) : Launch(rows, L, tree)
      BY <2>1, <2>9
    <3>2. Good(run', count', executed') /\ count' \in 0 .. MaxRuns
      <4> HIDE DEF rows, tree
      <4> QED
        BY <1>1, <2>5, <2>6, <2>7, <3>1, LaunchGood
    <3> QED
      BY <1>3, <2>1, <2>3, <3>2 DEF ExecuteAndMerge
  <2> QED
    BY <2>8, <2>9
\* Every other step changes statuses and items only.
<1>4. ASSUME run' \in [Runs -> Rows],
             \A q \in Runs : /\ run'[q].child = run[q].child
                             /\ run'[q].tree = run[q].tree
                             /\ run[q].status = "absent" => run'[q] = run[q]
                             /\ run'[q].status = "absent" => run[q].status = "absent"
                             /\ run'[q].status = "initializing"
                                   => run[q].status = "initializing",
             count' = count, executed' = executed,
             smooth' \in BOOLEAN, crashes' \in 0 .. MaxCrash
      PROVE  Inv'
  <2>1. Active(run') \subseteq Active(run)
    BY <1>4 DEF Active
  <2>2. Good(run', count, executed)
    BY <1>4, <2>1, ChangeGood
  <2> QED
    BY <1>4, <2>2
<1>5. ASSUME NEW r \in Runs, ExecuteUnmerged(r) PROVE Inv'
  <2>1. PICK status \in {"completed", "failed", "paused"} :
          run' = [run EXCEPT ![r].status = status, ![r].item = "executed"]
    BY <1>5 DEF ExecuteUnmerged
  <2>2. run[r].status # "absent"
    BY <1>5, <1>10 DEF ExecuteUnmerged, Waiting
  <2>3. run' \in [Runs -> Rows]
    BY <1>1, <2>1 DEF Rows, RunStatuses, ItemStatuses
  <2>4. \A q \in Runs : q # r => run'[q] = run[q]
    BY <1>1, <2>1
  <2>5. /\ run'[r].child = run[r].child /\ run'[r].tree = run[r].tree
        /\ run'[r].status \in {"completed", "failed", "paused"}
    BY <1>1, <2>1 DEF Rows
  <2>6. UNCHANGED <<count, executed, crashes>> /\ smooth' \in BOOLEAN
    BY <1>5 DEF ExecuteUnmerged
  <2> QED
    BY <1>4, <2>2, <2>3, <2>4, <2>5, <2>6
<1>6. ASSUME NEW r \in Runs, Abort(r) PROVE Inv'
  <2>1. run' = [q \in Runs |->
                 [run[q] EXCEPT !.status = IF q \in Latest THEN "failed" ELSE @,
                                !.item = IF q = r THEN "executed" ELSE @]]
    BY <1>6 DEF Abort
  <2>2. run[r].status # "absent"
    BY <1>6, <1>10 DEF Abort, Waiting
  <2>3. run' \in [Runs -> Rows]
    BY <1>1, <2>1 DEF Rows, RunStatuses, ItemStatuses
  <2>4. \A q \in Runs : run[q].status = "absent" => q \notin Latest /\ q # r
    BY <2>2 DEF Latest
  <2>5. \A q \in Runs : run[q].status = "absent" => run'[q] = run[q]
    BY <1>1, <2>1, <2>4 DEF Rows
  <2>6. \A q \in Runs : /\ run'[q].child = run[q].child
                        /\ run'[q].tree = run[q].tree
                        /\ run'[q].status \in {run[q].status, "failed"}
    BY <1>1, <2>1 DEF Rows
  <2>7. UNCHANGED <<count, executed, crashes>> /\ smooth' \in BOOLEAN
    BY <1>6 DEF Abort
  <2> QED
    BY <1>4, <2>3, <2>5, <2>6, <2>7
<1>7. ASSUME NEW r \in Runs, Crash(r) PROVE Inv'
  <2>1. run' = [run EXCEPT ![r].item = "queued"]
    BY <1>7 DEF Crash
  <2>2. run[r].status # "absent"
    <3>1. run[r].item = "executed"
      BY <1>7 DEF Crash
    <3> QED
      BY <1>10, <3>1
  <2>3. run' \in [Runs -> Rows]
    BY <1>1, <2>1 DEF Rows, ItemStatuses
  <2>4. \A q \in Runs : /\ run'[q].child = run[q].child
                        /\ run'[q].tree = run[q].tree
                        /\ run[q].status = "absent" => run'[q] = run[q]
                        /\ run'[q].status = run[q].status
    BY <1>1, <2>1, <2>2 DEF Rows
  <2>5. count' = count /\ executed' = executed /\ smooth' \in BOOLEAN
    BY <1>7 DEF Crash
  <2>6. crashes' \in 0 .. MaxCrash
    BY <1>7, ForkAssumption DEF Crash, ForkAssumption
  <2> QED
    BY <1>4, <2>3, <2>4, <2>5, <2>6
<1>8. CASE CancelItems
  <2>1. run' = [q \in Runs |-> [run[q] EXCEPT !.item =
                                  IF @ = "queued" THEN "cancelled" ELSE @]]
    BY <1>8 DEF CancelItems
  <2>2. run' \in [Runs -> Rows]
    BY <1>1, <2>1 DEF Rows, ItemStatuses
  <2>3. \A q \in Runs : run[q].status = "absent" => run'[q] = run[q]
    BY <1>1, <1>10, <2>1 DEF Rows
  <2>4. \A q \in Runs : /\ run'[q].child = run[q].child
                        /\ run'[q].tree = run[q].tree
                        /\ run'[q].status = run[q].status
    BY <1>1, <2>1 DEF Rows
  <2>5. UNCHANGED <<count, executed, crashes>> /\ smooth' \in BOOLEAN
    BY <1>8 DEF CancelItems
  <2> QED
    BY <1>4, <2>2, <2>3, <2>4, <2>5
<1>9. CASE UNCHANGED vars
  BY <1>9 DEF vars, Good, Active
<1> QED
  BY <1>2, <1>3, <1>5, <1>6, <1>7, <1>8, <1>9 DEF Next, Execute

LEMMA AlwaysInv == Spec => []Inv
BY InitInv, NextInv, PTL DEF Spec

-----------------------------------------------------------------------------
(***************************************************************************)
(* The theorems.                                                           *)
(***************************************************************************)
\* The rows, their numbering, the history and the bounds keep their types.
THEOREM TypeCorrect == Spec => []TypeOK
<1>1. Inv => TypeOK
  BY DEF Inv, Good, TypeOK
<1> QED
  BY <1>1, AlwaysInv, PTL

\* No order of executions, aborts, repeated executions and cancelled items
\* opens more forks than the policy allows.
THEOREM ForksWithinLimit == Spec => []ForkLimit
<1>1. Inv => ForkLimit
  BY DEF Inv, Good, ForkLimit, Limit
<1> QED
  BY <1>1, AlwaysInv, PTL

\* Two open forks never work on one child.
THEOREM ForkPerChild == Spec => []OneForkPerChild
<1>1. Inv => OneForkPerChild
  BY DEF Inv, Good, OneForkPerChild
<1> QED
  BY <1>1, AlwaysInv, PTL

\* A child is launched only after executions of all it depends on completed.
THEOREM DependenciesFirst == Spec => []DependenciesExecuted
<1>1. Inv => DependenciesExecuted
  BY DEF Inv, Good, DependenciesExecuted
<1> QED
  BY <1>1, AlwaysInv, PTL

-----------------------------------------------------------------------------
(***************************************************************************)
(* How many runs there can be.  A copy of the tree with k pending children *)
(* can plan a batch of k at most, and the copies of those that merge into  *)
(* it have one pending child less.                                         *)
(***************************************************************************)
Size == Cardinality(Children)

\* The children of k that a batch has room for.
Fits(k) == IF k <= Limit THEN k ELSE Limit

\* The runs that come of a copy with k pending children.
Launches[k \in 0 .. Size] ==
    IF k = 0 THEN 0 ELSE Fits(k) * (1 + Launches[k - 1])

\* The first batch, and the executions that crashes repeat.
Enough == Launches[Size] + MaxCrash * Launches[Size - 1]

LEMMA LeastOf ==
    ASSUME NEW T \in SUBSET Nat, T # {}
    PROVE  \E x \in T : \A y \in T : x <= y
<1>1. IsWellFoundedOn(OpToRel(<, Nat), Nat)
  BY NatLessThanWellFounded
<1>2. PICK x \in T : \A y \in T : ~(<<y, x>> \in OpToRel(<, Nat))
  BY <1>1, WFMin, Zenon
<1>3. \A y \in T : ~(y < x)
  BY <1>2 DEF OpToRel
<1> QED
  BY <1>3

LEMMA TimesType ==
    ASSUME NEW a \in Nat, NEW b \in Nat
    PROVE  a * b \in Nat
OBVIOUS

LEMMA TimesGrow ==
    ASSUME NEW a \in Nat, NEW b \in Nat, NEW c \in Nat, NEW d \in Nat, a <= b, c <= d
    PROVE  a * c <= b * d
<1>1. PICK e \in Nat : b = a + e
  <2>1. b - a \in Nat /\ b = a + (b - a)
    OBVIOUS
  <2> QED
    BY <2>1
<1>2. PICK f \in Nat : d = c + f
  <2>1. d - c \in Nat /\ d = c + (d - c)
    OBVIOUS
  <2> QED
    BY <2>1
<1>3. (a + e) * (c + f) = a * c + a * f + e * c + e * f
  OBVIOUS
<1>4. a * c \in Nat /\ a * f \in Nat /\ e * c \in Nat /\ e * f \in Nat
  BY TimesType
<1>5. a * c <= a * c + a * f + e * c + e * f
  BY <1>4
<1> QED
  BY <1>1, <1>2, <1>3, <1>5

LEMMA SizeType == Size \in Nat /\ Size # 0 /\ IsFiniteSet(Children)
BY ForkAssumption, FS_CardinalityType, FS_EmptySet DEF ForkAssumption, Size

LEMMA FitsType ==
    ASSUME NEW k \in Nat
    PROVE  Fits(k) \in Nat /\ Fits(k) <= k /\ Fits(k) <= Limit
           /\ \A m \in Nat : m <= k /\ m <= Limit => m <= Fits(k)
           /\ Fits(k) <= Fits(k + 1)
BY LimitType DEF Fits

Recurs(f, j) ==
    f = [k \in 0 .. j |-> IF k = 0 THEN 0 ELSE Fits(k) * (1 + f[k - 1])]

LEMMA RecursFound ==
    ASSUME NEW n \in Nat
    PROVE  \E f : Recurs(f, n)
<1> DEFINE T == {j \in Nat : ~ \E f : Recurs(f, j)}
<1>1. SUFFICES ASSUME T # {} PROVE FALSE
  OBVIOUS
<1>2. PICK j \in T : \A i \in T : j <= i
  BY <1>1, LeastOf
<1>3. j # 0
  <2>1. Recurs([k \in 0 .. 0 |-> 0], 0)
    BY DEF Recurs
  <2> QED
    BY <1>2, <2>1
<1>4. j \in Nat /\ j - 1 \in Nat /\ j - 1 \notin T
  BY <1>2, <1>3
<1>5. PICK f : Recurs(f, j - 1)
  BY <1>4
<1> DEFINE g == [k \in 0 .. j |-> IF k = j THEN Fits(j) * (1 + f[j - 1]) ELSE f[k]]
<1>6. \A k \in 0 .. j - 1 : f[k] = IF k = 0 THEN 0 ELSE Fits(k) * (1 + f[k - 1])
  BY <1>5, Zenon DEF Recurs
<1>7. ASSUME NEW k \in 0 .. j
      PROVE  g[k] = IF k = 0 THEN 0 ELSE Fits(k) * (1 + g[k - 1])
  <2>1. CASE k = j
    <3>1. g[j] = Fits(j) * (1 + f[j - 1]) /\ g[j - 1] = f[j - 1]
      BY <1>4
    <3> HIDE DEF g
    <3> QED
      BY <1>3, <2>1, <3>1
  <2>2. CASE k = 0
    <3>1. g[0] = f[0] /\ 0 \in 0 .. j - 1
      BY <1>3, <1>4
    <3> HIDE DEF g
    <3> QED
      BY <1>6, <2>2, <3>1
  <2>3. CASE k # j /\ k # 0
    <3>1. g[k] = f[k] /\ g[k - 1] = f[k - 1] /\ k \in 0 .. j - 1
      BY <1>4, <2>3
    <3> HIDE DEF g
    <3> QED
      BY <1>6, <2>3, <3>1
  <2> QED
    BY <2>1, <2>2, <2>3
<1>8. Recurs(g, j)
  <2>1. g = [k \in 0 .. j |-> g[k]]
    OBVIOUS
  <2> HIDE DEF g
  <2> QED
    BY <1>7, <2>1, Zenon DEF Recurs
<1> QED
  BY <1>2, <1>8

LEMMA LaunchesIs ==
    /\ Launches[0] = 0
    /\ \A k \in 1 .. Size : Launches[k] = Fits(k) * (1 + Launches[k - 1])
<1>1. Launches = CHOOSE f : Recurs(f, Size)
  BY DEF Launches, Recurs
<1>2. Recurs(Launches, Size)
  BY <1>1, RecursFound, SizeType, Zenon
<1>3. \A k \in 0 .. Size :
        Launches[k] = IF k = 0 THEN 0 ELSE Fits(k) * (1 + Launches[k - 1])
  BY <1>2, Zenon DEF Recurs
<1> QED
  BY <1>3, SizeType

LEMMA LaunchesType == \A k \in 0 .. Size : Launches[k] \in Nat
<1> DEFINE T == {k \in 0 .. Size : Launches[k] \notin Nat}
<1>1. SUFFICES ASSUME T # {} PROVE FALSE
  OBVIOUS
<1>2. T \in SUBSET Nat
  BY SizeType
<1>3. PICK k \in T : \A j \in T : k <= j
  BY <1>1, <1>2, LeastOf
<1>4. k # 0
  BY <1>3, LaunchesIs
<1>5. k \in 1 .. Size /\ k - 1 \in 0 .. Size /\ ~(k <= k - 1)
  BY <1>3, <1>4, SizeType
<1>6. Launches[k - 1] \in Nat
  BY <1>3, <1>5
<1>7. Fits(k) * (1 + Launches[k - 1]) \in Nat
  <2>1. Fits(k) \in Nat /\ 1 + Launches[k - 1] \in Nat
    BY <1>5, <1>6, FitsType
  <2> QED
    BY <2>1, TimesType
<1> QED
  BY <1>3, <1>5, <1>7, LaunchesIs

LEMMA LaunchesGrow == \A k \in 1 .. Size : Launches[k - 1] <= Launches[k]
<1> DEFINE T == {k \in 1 .. Size : ~(Launches[k - 1] <= Launches[k])}
<1>1. SUFFICES ASSUME T # {} PROVE FALSE
  OBVIOUS
<1>2. T \in SUBSET Nat
  BY SizeType
<1>3. PICK k \in T : \A j \in T : k <= j
  BY <1>1, <1>2, LeastOf
<1>4. k \in 1 .. Size /\ ~(Launches[k - 1] <= Launches[k])
  BY <1>3
<1>5. k # 1
  <2>1. Launches[1] \in Nat /\ Launches[0] = 0
    BY SizeType, LaunchesType, LaunchesIs
  <2> QED
    BY <1>4, <2>1
<1>6. k - 1 \in 1 .. Size /\ ~(k <= k - 1) /\ k - 2 \in 0 .. Size
  BY <1>4, <1>5, SizeType
<1>7. Launches[k - 2] <= Launches[k - 1]
  <2>1. k - 1 \notin T
    BY <1>3, <1>6
  <2>2. (k - 1) - 1 = k - 2
    BY <1>6
  <2> QED
    BY <1>6, <2>1, <2>2
<1>8. /\ Launches[k - 1] = Fits(k - 1) * (1 + Launches[k - 2])
      /\ Launches[k] = Fits(k) * (1 + Launches[k - 1])
  <2>1. (k - 1) - 1 = k - 2
    BY <1>6
  <2> QED
    BY <1>4, <1>6, <2>1, LaunchesIs
<1>9. /\ Fits(k - 1) \in Nat /\ Fits(k) \in Nat /\ Fits(k - 1) <= Fits(k)
      /\ 1 + Launches[k - 2] \in Nat /\ 1 + Launches[k - 1] \in Nat
      /\ 1 + Launches[k - 2] <= 1 + Launches[k - 1]
  <2>1. k - 1 \in Nat /\ (k - 1) + 1 = k /\ k \in Nat /\ k - 1 \in 0 .. Size
    BY <1>4, <1>6
  <2>2. Fits(k - 1) \in Nat /\ Fits(k - 1) <= Fits((k - 1) + 1) /\ Fits(k) \in Nat
    BY <2>1, FitsType
  <2>3. Launches[k - 2] \in Nat /\ Launches[k - 1] \in Nat
    BY <1>6, <2>1, LaunchesType
  <2> QED
    BY <1>7, <2>1, <2>2, <2>3
<1> QED
  BY <1>4, <1>8, <1>9, TimesGrow

LEMMA LaunchesMost == \A k \in 0 .. Size - 1 : Launches[k] <= Launches[Size - 1]
<1> DEFINE T == {j \in 0 .. Size - 1 : ~(Launches[Size - 1 - j] <= Launches[Size - 1])}
<1>1. SUFFICES ASSUME T # {} PROVE FALSE
  <2>1. ASSUME NEW k \in 0 .. Size - 1 PROVE Launches[k] <= Launches[Size - 1]
    <3>1. Size - 1 - k \in 0 .. Size - 1 /\ Size - 1 - (Size - 1 - k) = k
      BY SizeType
    <3> QED
      BY <1>1, <3>1
  <2> QED
    BY <2>1
<1>2. T \in SUBSET Nat
  BY SizeType
<1>3. PICK j \in T : \A i \in T : j <= i
  BY <1>1, <1>2, LeastOf
<1>4. j \in 0 .. Size - 1 /\ ~(Launches[Size - 1 - j] <= Launches[Size - 1])
  BY <1>3
<1>5. Launches[Size - 1] \in Nat
  BY SizeType, LaunchesType
<1>6. j # 0
  <2>1. Size - 1 - 0 = Size - 1
    BY SizeType
  <2> QED
    BY <1>4, <1>5, <2>1
<1>7. /\ j - 1 \in 0 .. Size - 1 /\ ~(j <= j - 1)
      /\ Size - j \in 1 .. Size /\ Size - 1 - (j - 1) = Size - j
      /\ (Size - j) - 1 = Size - 1 - j /\ Size - 1 - j \in 0 .. Size
  BY <1>4, <1>6, SizeType
<1>8. Launches[Size - j] <= Launches[Size - 1]
  <2>1. j - 1 \notin T
    BY <1>3, <1>7
  <2> QED
    BY <1>7, <2>1
<1>9. Launches[Size - 1 - j] <= Launches[Size - j]
  <2>1. Launches[(Size - j) - 1] <= Launches[Size - j]
    BY <1>7, LaunchesGrow
  <2> QED
    BY <1>7, <2>1
<1>10. Launches[Size - j] \in Nat /\ Launches[Size - 1 - j] \in Nat
  BY <1>7, SizeType, LaunchesType
<1> QED
  BY <1>4, <1>5, <1>8, <1>9, <1>10

\* A batch and all that comes of it.
LEMMA LaunchesFit ==
    ASSUME NEW k \in 1 .. Size, NEW m \in Nat, m <= k, m <= Limit
    PROVE  m + m * Launches[k - 1] <= Launches[k]
<1>1. k \in Nat /\ k - 1 \in 0 .. Size
  BY SizeType
<1>2. Launches[k - 1] \in Nat /\ 1 + Launches[k - 1] \in Nat
  BY <1>1, LaunchesType
<1>3. Fits(k) \in Nat /\ m <= Fits(k)
  BY <1>1, FitsType
<1>4. m * (1 + Launches[k - 1]) <= Fits(k) * (1 + Launches[k - 1])
  BY <1>2, <1>3, TimesGrow
<1>5. m * (1 + Launches[k - 1]) = m + m * Launches[k - 1]
  BY <1>2
<1> QED
  BY <1>4, <1>5, LaunchesIs

-----------------------------------------------------------------------------
\* What is known of a copy: how many children are pending in it, its own among
\* them; and the runs that may still come of an item.
Pending(tree) == {x \in Children : tree[x] = "pending"}
Own(rows) == \A r \in Runs : rows[r].tree[rows[r].child] = "pending"
Due(row) ==
    IF row.item = "queued" THEN Launches[Cardinality(Pending(row.tree)) - 1] ELSE 0

LEMMA PendingType ==
    ASSUME NEW tree
    PROVE  IsFiniteSet(Pending(tree)) /\ Cardinality(Pending(tree)) \in 0 .. Size
<1>1. Pending(tree) \in SUBSET Children
  BY DEF Pending
<1>2. IsFiniteSet(Pending(tree)) /\ Cardinality(Pending(tree)) <= Cardinality(Children)
  BY <1>1, SizeType, FS_Subset
<1>3. Cardinality(Pending(tree)) \in Nat
  BY <1>2, FS_CardinalityType
<1> QED
  BY <1>2, <1>3, SizeType DEF Size

\* One pending child less.
LEMMA PendingLess ==
    ASSUME NEW tree, NEW tree2, NEW x \in Children, tree[x] = "pending",
           Pending(tree2) = Pending(tree) \ {x}
    PROVE  /\ Cardinality(Pending(tree)) \in 1 .. Size
           /\ Cardinality(Pending(tree2)) = Cardinality(Pending(tree)) - 1
<1>1. x \in Pending(tree)
  BY DEF Pending
<1>2. Cardinality(Pending(tree) \ {x}) = Cardinality(Pending(tree)) - 1
  BY <1>1, PendingType, FS_RemoveElement
<1>3. Cardinality(Pending(tree2)) \in 0 .. Size /\ Cardinality(Pending(tree)) \in 0 .. Size
  BY PendingType
<1> QED
  BY <1>2, <1>3

LEMMA DueType ==
    ASSUME NEW row \in Rows, row.tree[row.child] = "pending"
    PROVE  Due(row) \in Nat /\ Due(row) <= Launches[Size - 1]
<1>1. row.child \in Children
  BY DEF Rows
<1>2. Cardinality(Pending(row.tree)) \in 1 .. Size
  <2> DEFINE tree2 == [row.tree EXCEPT ![row.child] = "failed"]
  <2>1. row.tree \in [Children -> {"pending", "completed", "failed"}]
    BY DEF Rows, Trees
  <2>2. Pending(tree2) = Pending(row.tree) \ {row.child}
    BY <1>1, <2>1 DEF Pending
  <2> HIDE DEF tree2
  <2> QED
    BY <1>1, <2>2, PendingLess
<1> DEFINE k == Cardinality(Pending(row.tree)) - 1
<1>3. k \in 0 .. Size - 1 /\ k \in 0 .. Size /\ Size - 1 \in 0 .. Size
  BY <1>2, SizeType
<1>4. Launches[k] \in Nat /\ Launches[k] <= Launches[Size - 1] /\ Launches[Size - 1] \in Nat
  BY <1>3, LaunchesType, LaunchesMost
<1>5. Due(row) = IF row.item = "queued" THEN Launches[k] ELSE 0
  BY DEF Due
<1> QED
  BY <1>4, <1>5

\* S[r] is as much as may come of the first r runs, or more.
Covers(S, rows) ==
    /\ S \in [0 .. MaxRuns -> Nat]
    /\ \A r \in Runs : S[r - 1] + Due(rows[r]) <= S[r]

LEMMA MaxRunsType == MaxRuns \in Nat
BY ForkAssumption DEF ForkAssumption

LEMMA CoverGrows ==
    ASSUME NEW rows, NEW S, Covers(S, rows), \A q \in Runs : Due(rows[q]) \in Nat,
           NEW r \in Runs
    PROVE  \A k \in r .. MaxRuns : S[r] <= S[k]
<1> DEFINE T == {k \in r .. MaxRuns : ~(S[r] <= S[k])}
<1>1. SUFFICES ASSUME T # {} PROVE FALSE
  OBVIOUS
<1>2. r \in Nat /\ r >= 1 /\ r \in 0 .. MaxRuns
  BY MaxRunsType DEF Runs
<1>3. T \in SUBSET Nat
  BY <1>2, MaxRunsType
<1>4. PICK k \in T : \A j \in T : k <= j
  BY <1>1, <1>3, LeastOf
<1>5. k \in r .. MaxRuns /\ ~(S[r] <= S[k])
  BY <1>4
<1>6. S[r] \in Nat
  BY <1>2 DEF Covers
<1>7. k # r
  BY <1>5, <1>6
<1>8. k - 1 \in r .. MaxRuns /\ ~(k <= k - 1) /\ k \in Runs /\ k - 1 \in 0 .. MaxRuns
      /\ k \in 0 .. MaxRuns
  BY <1>2, <1>5, <1>7, MaxRunsType DEF Runs
<1>9. S[r] <= S[k - 1]
  <2>1. k - 1 \notin T
    BY <1>4, <1>8
  <2> QED
    BY <1>8, <2>1
<1>10. S[k - 1] + Due(rows[k]) <= S[k] /\ S[k] \in Nat /\ S[k - 1] \in Nat
  BY <1>8 DEF Covers
<1>11. Due(rows[k]) \in Nat
  BY <1>8
<1> QED
  BY <1>5, <1>6, <1>9, <1>10, <1>11

\* Nothing more may come of run r, and of no other more than before.
LEMMA CoverFreed ==
    ASSUME NEW rows, NEW rows2, NEW S, Covers(S, rows), NEW r \in Runs,
           \A q \in Runs : Due(rows[q]) \in Nat,
           \A q \in Runs : q # r => Due(rows2[q]) = Due(rows[q]),
           Due(rows2[r]) = 0
    PROVE  \E S2 : Covers(S2, rows2) /\ S2[MaxRuns] + Due(rows[r]) = S[MaxRuns]
<1> DEFINE d == Due(rows[r])
           S2 == [k \in 0 .. MaxRuns |-> IF k < r THEN S[k] ELSE S[k] - d]
<1>1. r \in Nat /\ r >= 1 /\ r <= MaxRuns /\ MaxRuns \in Nat /\ r - 1 \in 0 .. MaxRuns
      /\ r \in 0 .. MaxRuns
  BY MaxRunsType DEF Runs
<1>2. d \in Nat
  OBVIOUS
<1>3. \A k \in 0 .. MaxRuns : S[k] \in Nat
  BY DEF Covers
<1>4. S[r] >= d
  <2>1. S[r - 1] + d <= S[r]
    BY DEF Covers
  <2>2. S[r - 1] \in Nat /\ S[r] \in Nat
    BY <1>1, <1>3
  <2> QED
    BY <1>2, <2>1, <2>2
<1>5. \A k \in r .. MaxRuns : S[k] >= d
  <2>1. \A k \in r .. MaxRuns : S[r] <= S[k]
    BY CoverGrows
  <2>2. \A k \in r .. MaxRuns : k \in 0 .. MaxRuns
    BY <1>1
  <2> QED
    BY <1>1, <1>2, <1>3, <1>4, <2>1, <2>2
<1> HIDE DEF d
<1>6. S2 \in [0 .. MaxRuns -> Nat]
  <2>1. ASSUME NEW k \in 0 .. MaxRuns PROVE (IF k < r THEN S[k] ELSE S[k] - d) \in Nat
    <3>1. ~(k < r) => k \in r .. MaxRuns
      BY <1>1
    <3> QED
      BY <1>2, <1>3, <1>5, <3>1
  <2> QED
    BY <2>1
<1>7. ASSUME NEW q \in Runs PROVE S2[q - 1] + Due(rows2[q]) <= S2[q]
  <2>1. q \in Nat /\ q >= 1 /\ q \in 0 .. MaxRuns /\ q - 1 \in 0 .. MaxRuns
    BY MaxRunsType DEF Runs
  <2>2. S[q - 1] + Due(rows[q]) <= S[q] /\ S[q] \in Nat /\ S[q - 1] \in Nat
        /\ Due(rows[q]) \in Nat
    BY <1>3, <2>1 DEF Covers
  <2>3. /\ S2[q] = IF q < r THEN S[q] ELSE S[q] - d
        /\ S2[q - 1] = IF q - 1 < r THEN S[q - 1] ELSE S[q - 1] - d
    BY <2>1
  <2> HIDE DEF S2
  <2>4. CASE q < r
    BY <1>1, <2>1, <2>2, <2>3, <2>4
  <2>5. CASE q = r
    <3>1. S2[q] = S[q] - d /\ S2[q - 1] = S[q - 1] /\ Due(rows[q]) = d
      BY <1>1, <2>1, <2>3, <2>5 DEF d
    <3>2. Due(rows2[q]) = 0
      BY <2>5
    <3> QED
      BY <1>2, <2>2, <3>1, <3>2
  <2>6. CASE q > r
    <3>1. S2[q] = S[q] - d /\ S2[q - 1] = S[q - 1] - d
      BY <1>1, <2>1, <2>3, <2>6
    <3>2. Due(rows2[q]) = Due(rows[q])
      BY <1>1, <2>1, <2>6
    <3> QED
      BY <1>2, <2>2, <3>1, <3>2
  <2> QED
    BY <1>1, <2>1, <2>4, <2>5, <2>6
<1>8. S2[MaxRuns] + d = S[MaxRuns]
  <2>1. S2[MaxRuns] = S[MaxRuns] - d /\ S[MaxRuns] \in Nat
    BY <1>1, <1>3
  <2> HIDE DEF S2
  <2> QED
    BY <1>2, <2>1
<1>9. Covers(S2, rows2)
  <2> HIDE DEF S2
  <2> QED
    BY <1>6, <1>7 DEF Covers
<1> QED
  <2> HIDE DEF S2
  <2> QED
    BY <1>8, <1>9 DEF d

\* Nothing more may come of any run but r, and d more of that.
LEMMA CoverRaised ==
    ASSUME NEW rows, NEW rows2, NEW S, Covers(S, rows), NEW r \in Runs, NEW d \in Nat,
           \A q \in Runs : Due(rows[q]) \in Nat /\ Due(rows2[q]) \in Nat,
           \A q \in Runs : q # r => Due(rows2[q]) <= Due(rows[q]),
           Due(rows2[r]) <= d
    PROVE  \E S2 : Covers(S2, rows2) /\ S2[MaxRuns] = S[MaxRuns] + d
<1> DEFINE S2 == [k \in 0 .. MaxRuns |-> IF k < r THEN S[k] ELSE S[k] + d]
<1>1. r \in Nat /\ r >= 1 /\ r <= MaxRuns /\ MaxRuns \in Nat
  BY MaxRunsType DEF Runs
<1>2. \A k \in 0 .. MaxRuns : S[k] \in Nat
  BY DEF Covers
<1>3. S2 \in [0 .. MaxRuns -> Nat]
  BY <1>2
<1>4. ASSUME NEW q \in Runs PROVE S2[q - 1] + Due(rows2[q]) <= S2[q]
  <2>1. q \in Nat /\ q >= 1 /\ q \in 0 .. MaxRuns /\ q - 1 \in 0 .. MaxRuns
    BY MaxRunsType DEF Runs
  <2>2. S[q - 1] + Due(rows[q]) <= S[q] /\ S[q] \in Nat /\ S[q - 1] \in Nat
        /\ Due(rows[q]) \in Nat /\ Due(rows2[q]) \in Nat
    BY <1>2, <2>1 DEF Covers
  <2>3. /\ S2[q] = IF q < r THEN S[q] ELSE S[q] + d
        /\ S2[q - 1] = IF q - 1 < r THEN S[q - 1] ELSE S[q - 1] + d
    BY <2>1
  <2> HIDE DEF S2
  <2>4. CASE q = r
    <3>1. S2[q] = S[q] + d /\ S2[q - 1] = S[q - 1] /\ Due(rows2[q]) <= d
      BY <1>1, <2>1, <2>3, <2>4
    <3> QED
      BY <2>2, <3>1
  <2>5. CASE q # r
    <3>1. S2[q] - S2[q - 1] = S[q] - S[q - 1] /\ S2[q] \in Nat /\ S2[q - 1] \in Nat
      BY <1>1, <2>1, <2>2, <2>3, <2>5
    <3>2. Due(rows2[q]) <= Due(rows[q])
      BY <2>5
    <3> QED
      BY <2>2, <3>1, <3>2
  <2> QED
    BY <2>4, <2>5
<1>5. S2[MaxRuns] = S[MaxRuns] + d
  BY <1>1
<1> HIDE DEF S2
<1>6. Covers(S2, rows2)
  BY <1>3, <1>4 DEF Covers
<1> QED
  BY <1>5, <1>6

\* A batch of m runs is launched after n, and d may come of each.
Extended(rows, rows2, n, m, d) ==
    /\ n + m <= MaxRuns
    /\ \A q \in Runs : Due(rows[q]) \in Nat /\ Due(rows2[q]) \in Nat
    /\ \A q \in Runs \ ((n + 1) .. (n + m)) : Due(rows2[q]) = Due(rows[q])
    /\ \A q \in (n + 1) .. (n + m) : Due(rows2[q]) <= d

LEMMA CoverExtended ==
    ASSUME NEW rows, NEW rows2, NEW S, Covers(S, rows), NEW n \in Nat, NEW m \in Nat,
           NEW d \in Nat, Extended(rows, rows2, n, m, d)
    PROVE  \E S2 : Covers(S2, rows2) /\ S2[MaxRuns] = S[MaxRuns] + m * d
<1>0. /\ n + m <= MaxRuns
      /\ \A q \in Runs : Due(rows[q]) \in Nat /\ Due(rows2[q]) \in Nat
      /\ \A q \in Runs \ ((n + 1) .. (n + m)) : Due(rows2[q]) = Due(rows[q])
      /\ \A q \in (n + 1) .. (n + m) : Due(rows2[q]) <= d
  BY DEF Extended
<1> DEFINE c(k) == IF k <= n THEN 0 ELSE IF k <= n + m THEN k - n ELSE m
           e(k) == c(k) * d
           S2 == [k \in 0 .. MaxRuns |-> S[k] + e(k)]
<1>1. MaxRuns \in Nat
  BY MaxRunsType
<1>2. \A k \in 0 .. MaxRuns : S[k] \in Nat
  BY DEF Covers
<1>3. \A k \in 0 .. MaxRuns : c(k) \in Nat
  BY <1>1
<1>4. \A k \in 0 .. MaxRuns : e(k) \in Nat
  <2> HIDE DEF c
  <2> QED
    BY <1>3, TimesType
<1>5. ASSUME NEW q \in Runs
      PROVE  IF q \in (n + 1) .. (n + m) THEN e(q) = e(q - 1) + d ELSE e(q) = e(q - 1)
  <2>1. q \in Nat /\ q >= 1 /\ q \in 0 .. MaxRuns /\ q - 1 \in 0 .. MaxRuns
    BY <1>1 DEF Runs
  <2>2. CASE q \in (n + 1) .. (n + m)
    <3>1. c(q) = c(q - 1) + 1
      BY <1>0, <2>1, <2>2
    <3>2. c(q - 1) \in Nat
      BY <1>3, <2>1
    <3> HIDE DEF c
    <3>3. (c(q - 1) + 1) * d = c(q - 1) * d + d
      BY <3>2
    <3> QED
      BY <2>2, <3>1, <3>3
  <2>3. CASE q \notin (n + 1) .. (n + m)
    <3>1. c(q) = c(q - 1)
      BY <1>0, <2>1, <2>3
    <3> HIDE DEF c
    <3> QED
      BY <2>3, <3>1
  <2> QED
    BY <2>2, <2>3
<1>6. e(MaxRuns) = m * d
  <2>1. c(MaxRuns) = m
    BY <1>0, <1>1
  <2> HIDE DEF c
  <2> QED
    BY <2>1
<1> HIDE DEF c, e
<1>7. S2 \in [0 .. MaxRuns -> Nat]
  BY <1>2, <1>4
<1>8. ASSUME NEW q \in Runs PROVE S2[q - 1] + Due(rows2[q]) <= S2[q]
  <2>1. q \in 0 .. MaxRuns /\ q - 1 \in 0 .. MaxRuns
    BY <1>1 DEF Runs
  <2>2. S[q - 1] + Due(rows[q]) <= S[q] /\ S[q] \in Nat /\ S[q - 1] \in Nat
        /\ Due(rows[q]) \in Nat /\ Due(rows2[q]) \in Nat /\ e(q) \in Nat /\ e(q - 1) \in Nat
    BY <1>0, <1>2, <1>4, <2>1 DEF Covers
  <2>3. S2[q] = S[q] + e(q) /\ S2[q - 1] = S[q - 1] + e(q - 1)
    BY <2>1
  <2> HIDE DEF S2
  <2>4. CASE q \in (n + 1) .. (n + m)
    <3>1. e(q) = e(q - 1) + d /\ Due(rows2[q]) <= d
      BY <1>0, <1>5, <2>4
    <3> QED
      BY <2>2, <2>3, <3>1
  <2>5. CASE q \notin (n + 1) .. (n + m)
    <3>1. e(q) = e(q - 1) /\ Due(rows2[q]) = Due(rows[q])
      BY <1>0, <1>5, <2>5
    <3> QED
      BY <2>2, <2>3, <3>1
  <2> QED
    BY <2>4, <2>5
<1>9. S2[MaxRuns] = S[MaxRuns] + m * d
  BY <1>1, <1>6
<1> HIDE DEF S2
<1>10. Covers(S2, rows2)
  BY <1>7, <1>8 DEF Covers
<1> QED
  BY <1>9, <1>10

LEMMA OwnDue ==
    ASSUME NEW rows \in [Runs -> Rows], Own(rows)
    PROVE  \A q \in Runs : Due(rows[q]) \in Nat /\ Due(rows[q]) <= Launches[Size - 1]
<1> SUFFICES ASSUME NEW q \in Runs
             PROVE  Due(rows[q]) \in Nat /\ Due(rows[q]) <= Launches[Size - 1]
  OBVIOUS
<1>1. rows[q] \in Rows /\ rows[q].tree[rows[q].child] = "pending"
  BY DEF Own
<1> QED
  BY <1>1, DueType

\* What comes of a batch is no more than its copy of the tree allows.
LEMMA LaunchCovered ==
    ASSUME NEW rows \in [Runs -> Rows], NEW tree \in Trees, count \in Nat, Own(rows),
           NEW L \in Batches(Ready(rows, tree), Slots(rows)), Launch(rows, L, tree),
           NEW S, Covers(S, rows)
    PROVE  /\ Own(run')
           /\ \E S2 : /\ Covers(S2, run')
                      /\ count' + S2[MaxRuns]
                            <= count + S[MaxRuns] + Launches[Cardinality(Pending(tree))]
<1> DEFINE m == Cardinality(L)
           p == Cardinality(Pending(tree))
           New == (count + 1) .. (count + m)
<1>1. /\ count' = count + m /\ count' \in 0 .. MaxRuns
      /\ \A r \in Runs \ New : run'[r] = rows[r]
      /\ \A r \in New : \E x \in L : run'[r] = Launched(x, tree)
      /\ run' \in [Runs -> Rows]
  BY LaunchedRows DEF Numbers
<1>2. m \in Nat /\ m <= Slots(rows) /\ L \subseteq Ready(rows, tree)
  BY BatchFits
<1>3. count + m <= MaxRuns /\ MaxRuns \in Nat
  BY <1>1, <1>2, MaxRunsType
<1>4. New \subseteq Runs
  BY <1>2, <1>3 DEF Runs
<1>5. ASSUME NEW r \in New
      PROVE  /\ run'[r].tree = tree /\ run'[r].item = "queued"
             /\ tree[run'[r].child] = "pending"
  <2>1. PICK x \in L : run'[r] = Launched(x, tree)
    BY <1>1
  <2>2. tree[x] = "pending"
    BY <1>2 DEF Ready
  <2> QED
    BY <2>1, <2>2 DEF Launched
<1>6. Own(run')
  BY <1>1, <1>5 DEF Own
<1>7. p \in 0 .. Size
  BY PendingType
<1>8. m <= p
  <2>1. L \subseteq Pending(tree)
    BY <1>2 DEF Ready, Pending
  <2> QED
    BY <2>1, PendingType, FS_Subset
<1>9. m <= Limit
  <2>1. Slots(rows) <= Limit
    BY FiniteRuns, ForkAssumption DEF Slots, Limit, ForkAssumption
  <2>2. Slots(rows) \in Nat
    BY FiniteRuns, ForkAssumption DEF Slots, ForkAssumption
  <2> QED
    BY <1>2, <2>1, <2>2, LimitType
<1>10. \A q \in Runs : Due(rows[q]) \in Nat /\ Due(run'[q]) \in Nat
  <2>1. \A q \in Runs : Due(rows[q]) \in Nat
    BY OwnDue
  <2>2. \A new \in [Runs -> Rows] : Own(new) => \A q \in Runs : Due(new[q]) \in Nat
    BY OwnDue
  <2> QED
    BY <1>1, <1>6, <2>1, <2>2
<1>11. \A q \in Runs \ New : Due(run'[q]) = Due(rows[q])
  BY <1>1
<1>12. \A q \in New : Due(run'[q]) = Launches[p - 1]
  BY <1>5 DEF Due
<1>13. S[MaxRuns] \in Nat
  BY <1>3 DEF Covers
<1> HIDE DEF m, p
<1>14. CASE m = 0
  <2>1. New = {}
    BY <1>14
  <2>2. Covers(S, run')
    BY <1>11, <2>1 DEF Covers
  <2>3. Launches[p] \in Nat
    BY <1>7, LaunchesType
  <2>4. count' + S[MaxRuns] <= count + S[MaxRuns] + Launches[p]
    BY <1>1, <1>13, <1>14, <2>3
  <2> QED
    BY <1>6, <2>2, <2>4 DEF p
<1>15. CASE m # 0
  <2>1. p \in 1 .. Size /\ p - 1 \in 0 .. Size
    BY <1>2, <1>7, <1>8, <1>15, SizeType
  <2>2. Launches[p - 1] \in Nat /\ Launches[p] \in Nat
    BY <1>7, <2>1, LaunchesType
  <2>3. m + m * Launches[p - 1] <= Launches[p]
    BY <1>2, <1>8, <1>9, <2>1, LaunchesFit
  <2>4. PICK S2 : Covers(S2, run') /\ S2[MaxRuns] = S[MaxRuns] + m * Launches[p - 1]
    <3>1. \A q \in New : Due(run'[q]) <= Launches[p - 1]
      BY <1>12, <2>2
    <3>2. Extended(rows, run', count, m, Launches[p - 1])
      BY <1>3, <1>10, <1>11, <3>1 DEF Extended
    <3>3. \A rows2 : \A h, e, d \in Nat :
             Extended(rows, rows2, h, e, d)
             => \E S2 : Covers(S2, rows2) /\ S2[MaxRuns] = S[MaxRuns] + e * d
      BY CoverExtended
    <3> QED
      BY <1>2, <2>2, <3>2, <3>3
  <2>5. m * Launches[p - 1] \in Nat
    BY <1>2, <2>2, TimesType
  <2>6. count' + S2[MaxRuns] <= count + S[MaxRuns] + Launches[p]
    BY <1>1, <1>2, <1>13, <2>2, <2>3, <2>4, <2>5
  <2> QED
    BY <1>6, <2>4, <2>6 DEF p
<1> QED
  BY <1>14, <1>15

-----------------------------------------------------------------------------
\* What was launched, what may come of the items and of the crashes to come is
\* within the bound, once the first batch is there.
Affordable(rows, n, c) ==
    \E S : /\ Covers(S, rows)
           /\ n + S[MaxRuns] + (MaxCrash - c) * Launches[Size - 1] <= Enough

BoundInv == Own(run) /\ (count = 0 \/ Affordable(run, count, crashes))

\* The numbers the bound is made of.
LEMMA BoundNumbers ==
    Inv => /\ MaxRuns \in Nat /\ MaxCrash \in Nat /\ count \in Nat
           /\ crashes \in 0 .. MaxCrash /\ run \in [Runs -> Rows]
           /\ Launches[Size] \in Nat /\ Launches[Size - 1] \in Nat /\ Enough \in Nat
<1> SUFFICES ASSUME Inv
             PROVE  /\ MaxRuns \in Nat /\ MaxCrash \in Nat /\ count \in Nat
                    /\ crashes \in 0 .. MaxCrash /\ run \in [Runs -> Rows]
                    /\ Launches[Size] \in Nat /\ Launches[Size - 1] \in Nat
                    /\ Enough \in Nat
  OBVIOUS
<1>1. MaxRuns \in Nat /\ MaxCrash \in Nat
  BY ForkAssumption DEF ForkAssumption
<1>2. Size \in 0 .. Size /\ Size - 1 \in 0 .. Size
  BY SizeType
<1>3. Launches[Size] \in Nat /\ Launches[Size - 1] \in Nat
  BY <1>2, LaunchesType
<1>4. MaxCrash * Launches[Size - 1] \in Nat
  BY <1>1, <1>3, TimesType
<1>5. Enough \in Nat
  BY <1>3, <1>4 DEF Enough
<1> QED
  BY <1>1, <1>3, <1>5 DEF Inv, Good

LEMMA ItemRuns ==
    ASSUME Inv, NEW r \in Runs, run[r].item # "none"
    PROVE  run[r].status # "absent" /\ count # 0
<1>1. run[r].status # "absent"
  BY DEF Inv, Good, NoRun
<1>2. r <= count /\ r >= 1 /\ r \in Nat /\ count \in Nat
  BY <1>1, BoundNumbers DEF Inv, Good, Runs
<1> QED
  BY <1>1, <1>2

LEMMA FirstBound == Inv /\ BoundInv /\ LaunchFirst => BoundInv'
<1> SUFFICES ASSUME Inv, BoundInv, LaunchFirst PROVE BoundInv'
  OBVIOUS
<1>1. /\ count = 0 /\ crashes' = crashes
      /\ \E L \in Batches(Ready(run, Unstarted), Slots(run)) : Launch(run, L, Unstarted)
  BY DEF LaunchFirst
<1>2. PICK L \in Batches(Ready(run, Unstarted), Slots(run)) : Launch(run, L, Unstarted)
  BY <1>1
<1> DEFINE Zero == [k \in 0 .. MaxRuns |-> 0]
<1>3. Covers(Zero, run)
  <2>1. ASSUME NEW q \in Runs PROVE Zero[q - 1] + Due(run[q]) <= Zero[q]
    <3>1. run[q].item = "none"
      BY <1>1, ItemRuns
    <3>2. Due(run[q]) = 0
      BY <3>1 DEF Due
    <3>3. Zero[q - 1] = 0 /\ Zero[q] = 0
      BY BoundNumbers DEF Runs
    <3> QED
      BY <3>2, <3>3
  <2>2. Zero \in [0 .. MaxRuns -> Nat]
    OBVIOUS
  <2> HIDE DEF Zero
  <2> QED
    BY <2>1, <2>2 DEF Covers
<1>4. Zero[MaxRuns] = 0
  BY BoundNumbers
<1> HIDE DEF Zero
<1>5. Cardinality(Pending(Unstarted)) = Size
  <2>1. Pending(Unstarted) = Children
    BY DEF Pending, Unstarted
  <2> QED
    BY <2>1 DEF Size
<1>6. Unstarted \in Trees /\ run \in [Runs -> Rows] /\ count \in Nat /\ Own(run)
  BY NoRunType, BoundNumbers DEF BoundInv
<1>7. /\ Own(run')
      /\ \E S2 : /\ Covers(S2, run')
                 /\ count' + S2[MaxRuns]
                       <= count + Zero[MaxRuns] + Launches[Cardinality(Pending(Unstarted))]
  BY <1>2, <1>3, <1>6, LaunchCovered
<1>8. PICK S2 : Covers(S2, run') /\ count' + S2[MaxRuns] <= 0 + 0 + Launches[Size]
  BY <1>1, <1>4, <1>5, <1>7
<1>9. /\ count' \in Nat /\ S2[MaxRuns] \in Nat
  <2>1. count' \in 0 .. MaxRuns
    BY <1>2, <1>6, LaunchedRows
  <2> QED
    BY <1>8, <2>1, BoundNumbers DEF Covers
<1>10. (MaxCrash - crashes) * Launches[Size - 1] <= MaxCrash * Launches[Size - 1]
  <2>1. MaxCrash - crashes \in Nat /\ MaxCrash - crashes <= MaxCrash
        /\ Launches[Size - 1] <= Launches[Size - 1]
    BY BoundNumbers
  <2> QED
    BY <2>1, BoundNumbers, TimesGrow
<1>11. (MaxCrash - crashes) * Launches[Size - 1] \in Nat
       /\ MaxCrash * Launches[Size - 1] \in Nat
  <2>1. MaxCrash - crashes \in Nat
    BY BoundNumbers
  <2> QED
    BY <2>1, BoundNumbers, TimesType
<1>12. count' + S2[MaxRuns] + (MaxCrash - crashes) * Launches[Size - 1] <= Enough
  BY <1>8, <1>9, <1>10, <1>11, BoundNumbers DEF Enough
<1>13. Affordable(run', count', crashes')
  BY <1>1, <1>8, <1>12 DEF Affordable
<1> QED
  BY <1>7, <1>13 DEF BoundInv

\* The rows after an execution that completed, before a batch is launched.
Done(r) == [run EXCEPT ![r].status = "completed", ![r].item = "executed"]

LEMMA DoneRows ==
    ASSUME Inv, Own(run), NEW r \in Runs
    PROVE  /\ Done(r) \in [Runs -> Rows] /\ Own(Done(r))
           /\ Due(Done(r)[r]) = 0
           /\ \A q \in Runs : q # r => Due(Done(r)[q]) = Due(run[q])
<1>1. run \in [Runs -> Rows]
  BY BoundNumbers
<1>2. Done(r) \in [Runs -> Rows]
  BY <1>1 DEF Done, Rows, RunStatuses, ItemStatuses
<1>3. \A q \in Runs : q # r => Done(r)[q] = run[q]
  BY <1>1 DEF Done
<1>4. /\ Done(r)[r].item = "executed" /\ Done(r)[r].tree = run[r].tree
      /\ Done(r)[r].child = run[r].child
  BY <1>1 DEF Done, Rows
<1>5. Own(Done(r))
  BY <1>3, <1>4 DEF Own
<1>6. Due(Done(r)[r]) = 0
  BY <1>4 DEF Due
<1>7. \A q \in Runs : q # r => Due(Done(r)[q]) = Due(run[q])
  BY <1>3
<1> QED
  BY <1>2, <1>5, <1>6, <1>7

LEMMA MergeBound ==
    ASSUME Inv, BoundInv, NEW r \in Runs, ExecuteAndMerge(r)
    PROVE  BoundInv'
<1>1. PICK status \in {"completed", "failed"}, replan \in BOOLEAN :
        IF replan THEN run' = Done(r) /\ UNCHANGED count
        ELSE \E L \in Batches(Ready(Done(r), Merged(r, status)), Slots(Done(r))) :
                Launch(Done(r), L, Merged(r, status))
  BY DEF ExecuteAndMerge, Done
<1>2. run[r].item = "queued" /\ crashes' = crashes
  BY DEF ExecuteAndMerge, Waiting
<1>3. count # 0 /\ Own(run) /\ Affordable(run, count, crashes)
  BY <1>2, ItemRuns DEF BoundInv
<1> DEFINE reserve == (MaxCrash - crashes) * Launches[Size - 1]
           tree == Merged(r, status)
           p == Cardinality(Pending(run[r].tree))
<1>4. PICK S : Covers(S, run) /\ count + S[MaxRuns] + reserve <= Enough
  BY <1>3 DEF Affordable
<1>5. /\ Done(r) \in [Runs -> Rows] /\ Own(Done(r)) /\ Due(Done(r)[r]) = 0
      /\ \A q \in Runs : q # r => Due(Done(r)[q]) = Due(run[q])
  BY <1>3, DoneRows
<1>6. PICK S1 : Covers(S1, Done(r)) /\ S1[MaxRuns] + Due(run[r]) = S[MaxRuns]
  <2>1. \A q \in Runs : Due(run[q]) \in Nat
    BY <1>3, BoundNumbers, OwnDue
  <2>2. \A rows, rows2 :
          /\ Covers(S, rows) /\ (\A q \in Runs : Due(rows[q]) \in Nat)
          /\ (\A q \in Runs : q # r => Due(rows2[q]) = Due(rows[q]))
          /\ Due(rows2[r]) = 0
          => \E S2 : Covers(S2, rows2) /\ S2[MaxRuns] + Due(rows[r]) = S[MaxRuns]
    BY CoverFreed
  <2> QED
    BY <1>4, <1>5, <2>1, <2>2
<1>7. /\ run[r].tree \in Trees /\ run[r].child \in Children
      /\ run[r].tree[run[r].child] = "pending"
  BY <1>3, BoundNumbers DEF Rows, Own
<1>8. tree \in Trees /\ p \in 1 .. Size /\ Cardinality(Pending(tree)) = p - 1
  <2>1. tree = [run[r].tree EXCEPT ![run[r].child] = status]
    BY DEF Merged
  <2> HIDE DEF tree
  <2>2. tree \in Trees
    BY <1>7, <2>1 DEF Trees
  <2>3. Pending(tree) = Pending(run[r].tree) \ {run[r].child}
    BY <1>7, <2>1 DEF Pending, Trees
  <2> QED
    BY <1>7, <2>2, <2>3, PendingLess
<1>9. Due(run[r]) = Launches[p - 1] /\ Launches[p - 1] \in Nat
  <2>1. p - 1 \in 0 .. Size
    BY <1>8, SizeType
  <2> QED
    BY <1>2, <2>1, LaunchesType DEF Due
<1>10. reserve \in Nat /\ S1[MaxRuns] \in Nat /\ S[MaxRuns] \in Nat /\ count \in Nat
       /\ Enough \in Nat
  <2>1. MaxCrash - crashes \in Nat /\ Launches[Size - 1] \in Nat /\ MaxRuns \in 0 .. MaxRuns
    BY BoundNumbers
  <2> QED
    BY <1>4, <1>6, <2>1, TimesType, BoundNumbers DEF Covers
<1> HIDE DEF tree, p
<1>11. /\ Own(run')
       /\ \E S2 : Covers(S2, run') /\ count' \in Nat /\ S2[MaxRuns] \in Nat
                  /\ count' + S2[MaxRuns] <= count + S1[MaxRuns] + Launches[p - 1]
  <2>1. CASE replan
    <3>1. run' = Done(r) /\ count' = count
      BY <1>1, <2>1
    <3>2. count + S1[MaxRuns] <= count + S1[MaxRuns] + Launches[p - 1]
      BY <1>9, <1>10
    <3> QED
      BY <1>5, <1>6, <1>10, <3>1, <3>2, Zenon
  <2>2. CASE ~replan
    <3>1. PICK L \in Batches(Ready(Done(r), tree), Slots(Done(r))) : Launch(Done(r), L, tree)
      BY <1>1, <2>2 DEF tree
    <3>2. \A rows \in [Runs -> Rows], t \in Trees :
            Own(rows) /\ Covers(S1, rows) =>
            \A B \in Batches(Ready(rows, t), Slots(rows)) : Launch(rows, B, t) =>
              /\ Own(run')
              /\ count' \in 0 .. MaxRuns
              /\ \E S2 : /\ Covers(S2, run')
                         /\ count' + S2[MaxRuns]
                               <= count + S1[MaxRuns] + Launches[Cardinality(Pending(t))]
      BY <1>10, LaunchCovered, LaunchedRows
    <3>3. /\ Own(run') /\ count' \in 0 .. MaxRuns
          /\ \E S2 : /\ Covers(S2, run')
                     /\ count' + S2[MaxRuns]
                           <= count + S1[MaxRuns] + Launches[Cardinality(Pending(tree))]
      BY <1>5, <1>6, <1>8, <3>1, <3>2
    <3>4. PICK S2 : /\ Covers(S2, run')
                    /\ count' + S2[MaxRuns] <= count + S1[MaxRuns] + Launches[p - 1]
      BY <1>8, <3>3
    <3>5. count' \in Nat /\ S2[MaxRuns] \in Nat
      BY <3>3, <3>4, BoundNumbers DEF Covers
    <3> QED
      BY <3>3, <3>4, <3>5
  <2> QED
    BY <2>1, <2>2
<1>12. PICK S2 : Covers(S2, run') /\ count' \in Nat /\ S2[MaxRuns] \in Nat
                 /\ count' + S2[MaxRuns] <= count + S1[MaxRuns] + Launches[p - 1]
  BY <1>11
<1>13. count' + S2[MaxRuns] + reserve <= Enough
  <2> HIDE DEF reserve
  <2> QED
    BY <1>4, <1>6, <1>9, <1>10, <1>12
<1>14. Affordable(run', count', crashes')
  BY <1>2, <1>12, <1>13 DEF Affordable
<1> QED
  BY <1>11, <1>14 DEF BoundInv

\* No copy is queued that was not.
LEMMA SameBound ==
    ASSUME Inv, BoundInv, count' = count, crashes' = crashes,
           \A q \in Runs : /\ run'[q].child = run[q].child
                           /\ run'[q].tree = run[q].tree
                           /\ run'[q].item = "queued" => run[q].item = "queued"
    PROVE  BoundInv'
<1>1. Own(run')
  BY DEF BoundInv, Own
<1>2. \A q \in Runs : Due(run[q]) \in Nat
  BY BoundNumbers, OwnDue DEF BoundInv
<1>3. \A q \in Runs : Due(run'[q]) \in {0, Due(run[q])}
  BY DEF Due
<1>4. ASSUME NEW S, Covers(S, run) PROVE Covers(S, run')
  <2>1. \A q \in Runs : S[q - 1] \in Nat /\ S[q] \in Nat
    BY <1>4, BoundNumbers DEF Covers, Runs
  <2>2. ASSUME NEW q \in Runs PROVE S[q - 1] + Due(run'[q]) <= S[q]
    <3>1. S[q - 1] + Due(run[q]) <= S[q]
      BY <1>4 DEF Covers
    <3>2. CASE Due(run'[q]) = 0
      BY <1>2, <2>1, <3>1, <3>2
    <3>3. CASE Due(run'[q]) = Due(run[q])
      BY <3>1, <3>3
    <3> QED
      BY <1>3, <3>2, <3>3
  <2> QED
    BY <1>4, <2>2 DEF Covers
<1>5. Affordable(run, count, crashes) => Affordable(run', count', crashes')
  BY <1>4 DEF Affordable
<1> QED
  BY <1>1, <1>5 DEF BoundInv

LEMMA CrashBound ==
    ASSUME Inv, BoundInv, NEW r \in Runs, Crash(r)
    PROVE  BoundInv'
<1>1. /\ run[r].item = "executed" /\ crashes < MaxCrash /\ crashes' = crashes + 1
      /\ run' = [run EXCEPT ![r].item = "queued"] /\ count' = count
  BY DEF Crash
<1>2. count # 0 /\ Own(run) /\ Affordable(run, count, crashes)
  BY <1>1, ItemRuns DEF BoundInv
<1>3. run \in [Runs -> Rows] /\ run' \in [Runs -> Rows]
  BY <1>1, BoundNumbers DEF Rows, ItemStatuses
<1>4. \A q \in Runs : q # r => run'[q] = run[q]
  BY <1>1, <1>3
<1>5. run'[r].child = run[r].child /\ run'[r].tree = run[r].tree
  BY <1>1, <1>3 DEF Rows
<1>6. Own(run')
  BY <1>2, <1>4, <1>5 DEF Own
<1> DEFINE d == Launches[Size - 1]
<1>7. d \in Nat /\ MaxRuns \in 0 .. MaxRuns /\ count \in Nat /\ Enough \in Nat
      /\ MaxCrash \in Nat /\ crashes \in Nat
  BY BoundNumbers
<1>8. PICK S : Covers(S, run) /\ count + S[MaxRuns] + (MaxCrash - crashes) * d <= Enough
  BY <1>2 DEF Affordable
<1>9. \A q \in Runs : Due(run[q]) \in Nat
  BY <1>2, <1>3, OwnDue
<1>10. \A q \in Runs : Due(run'[q]) \in Nat /\ Due(run'[q]) <= d
  <2>1. \A rows \in [Runs -> Rows] : Own(rows) =>
          \A q \in Runs : Due(rows[q]) \in Nat /\ Due(rows[q]) <= d
    BY OwnDue
  <2> QED
    BY <1>3, <1>6, <2>1
<1> HIDE DEF d
<1>11. PICK S2 : Covers(S2, run') /\ S2[MaxRuns] = S[MaxRuns] + d
  <2>1. \A q \in Runs : q # r => Due(run'[q]) <= Due(run[q])
    BY <1>4, <1>9
  <2>2. \A rows, rows2 :
          /\ Covers(S, rows)
          /\ (\A q \in Runs : Due(rows[q]) \in Nat /\ Due(rows2[q]) \in Nat)
          /\ (\A q \in Runs : q # r => Due(rows2[q]) <= Due(rows[q]))
          /\ Due(rows2[r]) <= d
          => \E S2 : Covers(S2, rows2) /\ S2[MaxRuns] = S[MaxRuns] + d
    BY <1>7, CoverRaised
  <2> QED
    BY <1>8, <1>9, <1>10, <2>1, <2>2
<1>12. S[MaxRuns] \in Nat
  BY <1>7, <1>8 DEF Covers
<1>13. (MaxCrash - crashes') * d + d = (MaxCrash - crashes) * d
  BY <1>1, <1>7
<1>14. (MaxCrash - crashes') * d \in Nat
  <2>1. MaxCrash - crashes' \in Nat
    BY <1>1, <1>7
  <2> QED
    BY <1>7, <2>1, TimesType
<1>15. count' + S2[MaxRuns] + (MaxCrash - crashes') * d <= Enough
  BY <1>1, <1>7, <1>8, <1>11, <1>12, <1>13, <1>14
<1>16. Affordable(run', count', crashes')
  BY <1>11, <1>15 DEF Affordable, d
<1> QED
  BY <1>6, <1>16 DEF BoundInv

LEMMA BoundStep == Inv /\ BoundInv /\ [Next]_vars => BoundInv'
<1> SUFFICES ASSUME Inv, BoundInv, [Next]_vars PROVE BoundInv'
  OBVIOUS
<1>1. run \in [Runs -> Rows]
  BY BoundNumbers
<1>2. ASSUME NEW r \in Runs, ExecuteUnmerged(r) PROVE BoundInv'
  <2>1. PICK status \in {"completed", "failed", "paused"} :
          run' = [run EXCEPT ![r].status = status, ![r].item = "executed"]
    BY <1>2 DEF ExecuteUnmerged
  <2>2. \A q \in Runs : /\ run'[q].child = run[q].child
                        /\ run'[q].tree = run[q].tree
                        /\ run'[q].item = "queued" => run[q].item = "queued"
    BY <1>1, <2>1 DEF Rows
  <2> QED
    BY <1>2, <2>2, SameBound DEF ExecuteUnmerged
<1>3. ASSUME NEW r \in Runs, Abort(r) PROVE BoundInv'
  <2>1. run' = [q \in Runs |->
                 [run[q] EXCEPT !.status = IF q \in Latest THEN "failed" ELSE @,
                                !.item = IF q = r THEN "executed" ELSE @]]
    BY <1>3 DEF Abort
  <2>2. \A q \in Runs : /\ run'[q].child = run[q].child
                        /\ run'[q].tree = run[q].tree
                        /\ run'[q].item = "queued" => run[q].item = "queued"
    BY <1>1, <2>1 DEF Rows
  <2> QED
    BY <1>3, <2>2, SameBound DEF Abort
<1>4. CASE CancelItems
  <2>1. run' = [q \in Runs |-> [run[q] EXCEPT !.item =
                                  IF @ = "queued" THEN "cancelled" ELSE @]]
    BY <1>4 DEF CancelItems
  <2>2. \A q \in Runs : /\ run'[q].child = run[q].child
                        /\ run'[q].tree = run[q].tree
                        /\ run'[q].item = "queued" => run[q].item = "queued"
    BY <1>1, <2>1 DEF Rows
  <2> QED
    BY <1>4, <2>2, SameBound DEF CancelItems
<1>5. CASE UNCHANGED vars
  BY <1>5, SameBound DEF vars
<1> QED
  BY <1>2, <1>3, <1>4, <1>5, FirstBound, MergeBound, CrashBound DEF Next, Execute

LEMMA InitBound == Init => BoundInv
<1> SUFFICES ASSUME Init PROVE BoundInv
  OBVIOUS
<1>1. \A r \in Runs : run[r] = NoRun
  BY DEF Init
<1>2. NoChild \in Children
  BY ForkAssumption DEF ForkAssumption, NoChild
<1>3. Own(run)
  BY <1>1, <1>2 DEF Own, NoRun, Unstarted
<1> QED
  BY <1>3 DEF BoundInv, Init

\* Launching comes to an end: copies of the tree make completed children come back,
\* but every copy knows more than the one it was planned from, so that the number of
\* runs is bounded whatever is aborted, paused or executed again
\* (fork_runtime.py:202-241).
THEOREM LaunchingEnds ==
    ASSUME RunBound >= Enough
    PROVE  Spec => []LaunchesEnd
<1>1. ASSUME Inv, BoundInv, RunBound >= Enough PROVE LaunchesEnd
  <2>1. RunBound \in Nat
    BY ForkAssumption DEF ForkAssumption
  <2>2. CASE count = 0
    BY <2>1, <2>2 DEF LaunchesEnd
  <2>3. CASE Affordable(run, count, crashes)
    <3>1. PICK S : /\ Covers(S, run)
                   /\ count + S[MaxRuns] + (MaxCrash - crashes) * Launches[Size - 1] <= Enough
      BY <2>3 DEF Affordable
    <3>2. S[MaxRuns] \in Nat
      BY <3>1, MaxRunsType DEF Covers
    <3>3. (MaxCrash - crashes) * Launches[Size - 1] \in Nat
      <4>1. MaxCrash - crashes \in Nat
        BY <1>1, BoundNumbers
      <4> QED
        BY <1>1, <4>1, BoundNumbers, TimesType
    <3>4. count <= Enough
      BY <1>1, <3>1, <3>2, <3>3, BoundNumbers
    <3> QED
      BY <1>1, <2>1, <3>4, BoundNumbers DEF LaunchesEnd
  <2> QED
    BY <1>1, <2>2, <2>3 DEF BoundInv
<1>2. Inv /\ BoundInv => LaunchesEnd
  BY <1>1
<1> QED
  BY InitInv, NextInv, InitBound, BoundStep, <1>2, PTL DEF Spec
=============================================================================
