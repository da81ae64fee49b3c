---------------------------- MODULE TakeoverProofs ----------------------------
(***************************************************************************)
(* Theorems about Takeover, for any nodes, plans and bounds.               *)
(*                                                                         *)
(* The invariant says of every copy of a tree, in an item, a file or with  *)
(* a sub-agent, that it is whole: a tree whose nodes are numbered as they  *)
(* were created, and finished throughout if it is up for approval.  Each   *)
(* operation on trees keeps that (one lemma for each), and the lemmas also *)
(* say which nodes it closes, which is what the action properties are      *)
(* about.                                                                  *)
(***************************************************************************)
EXTENDS Takeover, WellFoundedInduction, SequenceTheorems, TLAPS

\* The present nodes are the oldest ones.
Grown(w) == \A n \in Present(w), m \in Nodes : m < n => m \in Present(w)
Good(w) == Sound(w) /\ Grown(w)

AllFinished(w) == \A n \in Present(w) : w.st[n] \in Finished
Approvable(w) == w.tree = "awaiting-approval" => AllFinished(w)
Whole(w) == Good(w) /\ Approvable(w)

\* The payloads that are queued.
Fit == {p \in Payloads :
           /\ Whole(p.tree)
           /\ p.asks => p.tree.tree = "planned" /\ ~p.tree.gated}

GatesInv == task = "awaiting-approval" /\ file.tree = "awaiting-approval" => ~file.gated

Kinds ==
    /\ task \in TaskStatuses
    /\ items \in Seq(Fit) /\ Len(items) <= MaxItems
    /\ file \in Trees \cup {None}
    /\ child \in [run : Launches, tree : Trees \cup {None}]
    /\ windows \in Nat /\ requests \in Nat /\ windows + requests <= MaxSteps
    /\ lost \in 0 .. MaxLost

Links ==
    /\ task # "draft" => items # << >> \/ file # None
    /\ task \notin {"draft", "queued"} => file # None
    /\ child.run = "latest" => file # None
    /\ child.run = "older" => child.tree # None
    /\ file # None => Whole(file)
    /\ child.tree # None => Whole(child.tree)

Inv == Kinds /\ Links /\ GatesInv

-----------------------------------------------------------------------------
(***************************************************************************)
(* Trees.                                                                  *)
(***************************************************************************)
\* A set of numbers has a least one.
LEMMA Least ==
    ASSUME NEW T \in SUBSET Nat, T # {}
    PROVE  \E x \in T : \A y \in T : x <= y
<1>1. PICK x \in T : \A y \in T : ~ (<<y, x>> \in OpToRel(<, Nat))
  BY NatLessThanWellFounded, WFMin, Zenon
<1>2. ASSUME NEW y \in T PROVE ~ (y < x)
  BY <1>1 DEF OpToRel
<1> QED
  BY <1>2

\* Nodes are numbers, the root the least of them.
LEMMA NodeNumbers ==
    /\ Nodes \subseteq Nat /\ Root \in Nodes /\ None \notin Nodes
    /\ \A n \in Nodes : Root <= n
BY TakeoverAssumption DEF TakeoverAssumption

LEMMA TreeTypes ==
    ASSUME NEW w \in Trees
    PROVE  /\ w.st \in [Nodes -> NodeStatuses] /\ w.up \in [Nodes -> Nodes \cup {None}]
           /\ w.cur \in Nodes /\ w.tree \in TreeStatuses /\ w.prot \in ProtocolStatuses
           /\ w.gated \in BOOLEAN
           /\ w # None
BY NoneIsNoTree DEF Trees

\* A tree with the same nodes in the same places.
Same(w, v) == v \in Trees /\ v.up = w.up /\ Present(v) = Present(w)

\* Nothing is closed; a node that waits may be taken up.
Stirs(w, v) ==
    /\ Same(w, v)
    /\ \A n \in Nodes : \/ v.st[n] = w.st[n]
                        \/ w.st[n] \in {"pending", "blocked"} /\ v.st[n] = "in-progress"

\* What changes of a tree when statuses are changed.
LEMMA PresentSame ==
    ASSUME NEW w \in Trees, NEW v \in Trees, v.up = w.up,
           \A n \in Nodes : v.st[n] = "absent" <=> w.st[n] = "absent"
    PROVE  Same(w, v)
BY DEF Same, Present

LEMMA StirsSame ==
    ASSUME NEW w \in Trees, NEW v \in Trees, v.up = w.up,
           \A n \in Nodes : \/ v.st[n] = w.st[n]
                            \/ w.st[n] \in {"pending", "blocked"} /\ v.st[n] = "in-progress"
    PROVE  Stirs(w, v)
BY PresentSame DEF Stirs

LEMMA StirsChain ==
    ASSUME NEW u \in Trees, NEW v \in Trees, NEW w \in Trees, Stirs(u, v), Stirs(v, w)
    PROVE  Stirs(u, w)
<1>1. Same(u, w)
  BY DEF Stirs, Same
<1>2. ASSUME NEW n \in Nodes
      PROVE  \/ w.st[n] = u.st[n]
             \/ u.st[n] \in {"pending", "blocked"} /\ w.st[n] = "in-progress"
  BY DEF Stirs
<1> QED
  BY <1>1, <1>2 DEF Stirs

LEMMA SameGood ==
    ASSUME NEW w \in Trees, NEW v \in Trees, Good(w), Same(w, v), v.cur \in Present(w)
    PROVE  Good(v)
BY DEF Good, Sound, Grown, Same

LEMMA SameBelow ==
    ASSUME NEW w, NEW v, Same(w, v), NEW n
    PROVE  Below(v, n) = Below(w, n)
<1>1. \A k : Kids(v, k) = Kids(w, k)
  BY DEF Same, Kids
<1> QED
  BY <1>1 DEF Below

\* A stirred tree is finished where the one before is.
LEMMA StirsFinished ==
    ASSUME NEW w \in Trees, NEW v \in Trees, Stirs(w, v), NEW n \in Nodes
    PROVE  /\ w.st[n] \in Finished => v.st[n] = w.st[n]
           /\ v.st[n] \in Finished => v.st[n] = w.st[n]
BY DEF Stirs, Finished

\* Below is closed and lies within what is.
LEMMA BelowLeast ==
    ASSUME NEW w, NEW n, NEW S \in SUBSET Nodes, Kids(w, n) \subseteq S,
           \A k \in S : Kids(w, k) \subseteq S
    PROVE  Below(w, n) \subseteq S
BY DEF Below

LEMMA BelowClosed ==
    ASSUME NEW w, NEW n
    PROVE  /\ Kids(w, n) \subseteq Below(w, n)
           /\ \A d \in Below(w, n) : Kids(w, d) \subseteq Below(w, n)
<1>1. \A k : Kids(w, k) \subseteq Nodes
  BY DEF Kids, Present
<1>2. Kids(w, n) \subseteq Below(w, n)
  BY <1>1 DEF Below
<1>3. ASSUME NEW d \in Below(w, n), NEW k \in Kids(w, d) PROVE k \in Below(w, n)
  <2>1. k \in Nodes
    BY <1>1
  <2>2. ASSUME NEW S \in SUBSET Nodes,
               Kids(w, n) \cup UNION {Kids(w, e) : e \in S} \subseteq S
        PROVE  k \in S
    <3>1. d \in S
      BY <2>2 DEF Below
    <3> QED
      BY <2>2, <3>1
  <2> QED
    BY <2>1, <2>2 DEF Below
<1> QED
  BY <1>2, <1>3

LEMMA BelowBelow ==
    ASSUME NEW w, NEW n, NEW d \in Below(w, n)
    PROVE  Below(w, d) \subseteq Below(w, n)
<1>1. Below(w, n) \in SUBSET Nodes
  BY DEF Below
<1> QED
  BY <1>1, BelowClosed, BelowLeast

LEMMA BelowPresent ==
    ASSUME NEW w, NEW n
    PROVE  Below(w, n) \subseteq Present(w)
<1>1. Present(w) \in SUBSET Nodes /\ \A k : Kids(w, k) \subseteq Present(w)
  BY DEF Present, Kids
<1> QED
  BY <1>1, BelowLeast

\* Every node but the root is below the root.
LEMMA BelowRoot ==
    ASSUME NEW w \in Trees, Sound(w)
    PROVE  Present(w) \ {Root} \subseteq Below(w, Root)
<1> DEFINE T == (Present(w) \ {Root}) \ Below(w, Root)
<1> SUFFICES ASSUME T # {} PROVE FALSE
  OBVIOUS
<1>1. T \in SUBSET Nat
  BY NodeNumbers DEF Present
<1>2. PICK d \in T : \A e \in T : d <= e
  BY <1>1, Least
<1>3. w.up[d] \in Present(w) /\ w.up[d] < d /\ d \in Nat /\ w.up[d] \in Nat
  BY NodeNumbers DEF Sound, Present
<1>4. d \in Kids(w, w.up[d])
  BY DEF Kids
<1>5. CASE w.up[d] = Root
  BY <1>4, <1>5, BelowClosed
<1>6. CASE w.up[d] # Root
  <2>1. w.up[d] \in Below(w, Root)
    BY <1>2, <1>3, <1>6
  <2> QED
    BY <1>4, <2>1, BelowClosed
<1> QED
  BY <1>5, <1>6

-----------------------------------------------------------------------------
(***************************************************************************)
(* What each operation does to a tree.                                     *)
(***************************************************************************)
LEMMA Statuses ==
    ASSUME NEW tree \in TreeStatuses, NEW prot \in ProtocolStatuses
    PROVE  /\ ProtocolStatus(tree, prot) \in ProtocolStatuses
           /\ tree = "awaiting-approval" => ProtocolStatus(tree, prot) = "verified"
           /\ tree = "active" /\ prot = "executing" => ProtocolStatus(tree, prot) = "executing"
BY DEF ProtocolStatus, ProtocolStatuses, TreeStatuses

\* Normalize takes up the current node and keeps the rest.
LEMMA NormalizeTree ==
    ASSUME NEW w \in Trees
    PROVE  /\ Stirs(w, Normalize(w))
           /\ Normalize(w).cur = w.cur /\ Normalize(w).gated = w.gated
           /\ Normalize(w).tree = IF w.tree = "planned" THEN "active" ELSE w.tree
           /\ Normalize(w).prot = ProtocolStatus(Normalize(w).tree, w.prot)
<1> DEFINE t == IF w.tree = "planned" THEN "active" ELSE w.tree
           s == IF /\ w.st[w.cur] = "pending"
                   /\ w.tree \notin {"awaiting-approval", "completed", "failed"}
                THEN "in-progress" ELSE w.st[w.cur]
           v == Normalize(w)
<1>1. v = [w EXCEPT !.st = [w.st EXCEPT ![w.cur] = s],
                    !.tree = t, !.prot = ProtocolStatus(t, w.prot)]
  BY DEF Normalize
<1>2. t \in TreeStatuses /\ s \in NodeStatuses /\ ProtocolStatus(t, w.prot) \in ProtocolStatuses
  BY TreeTypes, Statuses DEF TreeStatuses, NodeStatuses
<1>3. s = w.st[w.cur] \/ (w.st[w.cur] = "pending" /\ s = "in-progress")
  OBVIOUS
<1> HIDE DEF s, v
<1>4. /\ v.st = [w.st EXCEPT ![w.cur] = s] /\ v.up = w.up /\ v.cur = w.cur
      /\ v.tree = t /\ v.prot = ProtocolStatus(t, w.prot) /\ v.gated = w.gated
  BY <1>1 DEF Trees
<1>5. v \in Trees
  BY <1>1, <1>2 DEF Trees
<1>6. \A n \in Nodes : \/ v.st[n] = w.st[n]
                       \/ w.st[n] \in {"pending", "blocked"} /\ v.st[n] = "in-progress"
  BY <1>3, <1>4, TreeTypes
<1>7. Stirs(w, v)
  BY <1>4, <1>5, <1>6, StirsSame
<1> QED
  BY <1>4, <1>7 DEF v

LEMMA WorkingTree ==
    ASSUME NEW w \in Trees
    PROVE  /\ Stirs(w, Working(w))
           /\ Working(w).cur = w.cur /\ Working(w).gated = w.gated
           /\ Working(w).tree = "active"
<1> DEFINE x == [w EXCEPT !.tree = "active", !.prot = "executing"]
<1>1. x \in Trees
  BY DEF Trees, TreeStatuses, ProtocolStatuses
<1>2. x.st = w.st /\ x.up = w.up /\ x.cur = w.cur /\ x.tree = "active" /\ x.gated = w.gated
  BY DEF Trees
<1>3. Working(w) = Normalize(x)
  BY DEF Working
<1> HIDE DEF x
<1>4. Stirs(w, x)
  BY <1>1, <1>2, StirsSame
<1>5. Stirs(x, Normalize(x)) /\ Normalize(x) \in Trees
  BY <1>1, NormalizeTree DEF Stirs, Same
<1> QED
  BY <1>1, <1>2, <1>3, <1>4, <1>5, NormalizeTree, StirsChain

LEMMA SwitchTree ==
    ASSUME NEW w \in Trees, NEW n \in Nodes
    PROVE  /\ Stirs(w, Switch(w, n))
           /\ Switch(w, n).cur = n /\ Switch(w, n).gated = w.gated
           /\ Switch(w, n).tree = "active"
<1> DEFINE s == IF w.st[n] \in {"pending", "blocked"} THEN "in-progress" ELSE w.st[n]
           x == [w EXCEPT !.st = [w.st EXCEPT ![n] = s], !.cur = n]
<1>1. Switch(w, n) = Working(x)
  BY DEF Switch
<1>2. s \in NodeStatuses /\ (s = w.st[n] \/ (w.st[n] \in {"pending", "blocked"} /\ s = "in-progress"))
  BY TreeTypes DEF NodeStatuses
<1> HIDE DEF s
<1>3. x \in Trees
  BY <1>2 DEF Trees
<1>4. x.st = [w.st EXCEPT ![n] = s] /\ x.up = w.up /\ x.cur = n /\ x.gated = w.gated
  BY DEF Trees
<1> HIDE DEF x
<1>5. \A m \in Nodes : \/ x.st[m] = w.st[m]
                       \/ w.st[m] \in {"pending", "blocked"} /\ x.st[m] = "in-progress"
  BY <1>2, <1>4, TreeTypes
<1>6. Stirs(w, x)
  BY <1>3, <1>4, <1>5, StirsSame
<1>7. Stirs(x, Working(x)) /\ Working(x) \in Trees
  BY <1>3, WorkingTree DEF Stirs, Same
<1> QED
  BY <1>1, <1>3, <1>4, <1>6, <1>7, WorkingTree, StirsChain

-----------------------------------------------------------------------------
(***************************************************************************)
(* How a tree may change in a window.                                      *)
(***************************************************************************)
\* No node is closed.
Opens(w, v) ==
    \A n \in Nodes : v.st[n] \in {"completed", "skipped"} => w.st[n] = v.st[n]

\* A node that failed or was skipped is not completed.
Keeps(w, v) ==
    \A n \in Nodes : w.st[n] \in {"failed", "skipped"} => v.st[n] # "completed"

\* Below a node that is closed everything is finished.
Covers(w, v) ==
    \A n \in Nodes :
        v.st[n] \in {"completed", "skipped"} /\ w.st[n] # v.st[n] => Unfinished(v, n) = {}

Steps(w, v) == Whole(v) /\ Keeps(w, v) /\ Covers(w, v)

LEMMA SameChain ==
    ASSUME NEW u \in Trees, NEW v \in Trees, NEW w \in Trees, Same(u, v), Same(v, w)
    PROVE  Same(u, w)
BY DEF Same

LEMMA WholeTree ==
    ASSUME NEW w, Whole(w)
    PROVE  /\ w \in Trees /\ Good(w) /\ Sound(w)
           /\ Root \in Present(w) /\ w.cur \in Present(w) /\ Present(w) \subseteq Nodes
           /\ w.up[Root] = None
           /\ \A n \in Present(w) \ {Root} : w.up[n] \in Present(w) /\ w.up[n] < n
BY DEF Whole, Good, Sound, Present

LEMMA StirsOpens ==
    ASSUME NEW w \in Trees, NEW v \in Trees, Stirs(w, v)
    PROVE  Opens(w, v)
BY DEF Stirs, Opens

LEMMA OpensStirs ==
    ASSUME NEW u \in Trees, NEW v \in Trees, NEW w \in Trees, Opens(u, v), Stirs(v, w)
    PROVE  Opens(u, w)
<1>1. Opens(v, w)
  BY StirsOpens
<1> QED
  BY <1>1 DEF Opens

LEMMA StirsWhole ==
    ASSUME NEW w \in Trees, NEW v \in Trees, Whole(w), Stirs(w, v), v.cur \in Present(w),
           v.tree = "awaiting-approval" => w.tree = "awaiting-approval"
    PROVE  Whole(v)
<1>1. Good(v)
  BY SameGood DEF Whole, Stirs
<1>2. ASSUME v.tree = "awaiting-approval", NEW n \in Present(v) PROVE v.st[n] \in Finished
  <2>1. n \in Nodes /\ n \in Present(w) /\ w.st[n] \in Finished
    BY <1>2 DEF Whole, Approvable, AllFinished, Stirs, Same, Present
  <2> QED
    BY <2>1, StirsFinished
<1> QED
  BY <1>1, <1>2 DEF Whole, Approvable, AllFinished

LEMMA OpensSteps ==
    ASSUME NEW w \in Trees, NEW v \in Trees, Whole(v), Opens(w, v)
    PROVE  Steps(w, v)
BY DEF Steps, Opens, Keeps, Covers

LEMMA StirsThenSteps ==
    ASSUME NEW u \in Trees, NEW v \in Trees, NEW w \in Trees, Stirs(u, v), Steps(v, w)
    PROVE  Steps(u, w)
<1>1. ASSUME NEW n \in Nodes, u.st[n] \in {"failed", "skipped"} PROVE w.st[n] # "completed"
  <2>1. v.st[n] = u.st[n]
    BY <1>1 DEF Stirs
  <2> QED
    BY <1>1, <2>1 DEF Steps, Keeps
<1>2. ASSUME NEW n \in Nodes, w.st[n] \in {"completed", "skipped"}, u.st[n] # w.st[n]
      PROVE  Unfinished(w, n) = {}
  <2>1. v.st[n] # w.st[n]
    BY <1>2 DEF Stirs
  <2> QED
    BY <1>2, <2>1 DEF Steps, Covers
<1> QED
  BY <1>1, <1>2 DEF Steps, Keeps, Covers

LEMMA StepsThenStirs ==
    ASSUME NEW u \in Trees, NEW v \in Trees, NEW w \in Trees, Steps(u, v), Stirs(v, w), Whole(w)
    PROVE  Steps(u, w)
<1>1. ASSUME NEW n \in Nodes, u.st[n] \in {"failed", "skipped"} PROVE w.st[n] # "completed"
  BY <1>1 DEF Steps, Keeps, Stirs
<1>2. ASSUME NEW n \in Nodes, w.st[n] \in {"completed", "skipped"}, u.st[n] # w.st[n]
      PROVE  Unfinished(w, n) = {}
  <2>1. v.st[n] = w.st[n]
    BY <1>2 DEF Stirs
  <2>2. Unfinished(v, n) = {}
    BY <1>2, <2>1 DEF Steps, Covers
  <2>3. Below(w, n) = Below(v, n)
    BY SameBelow DEF Stirs
  <2>4. \A d \in Below(w, n) : w.st[d] \in Finished
    BY <2>2, <2>3, StirsFinished DEF Unfinished, Below
  <2> QED
    BY <2>4 DEF Unfinished
<1> QED
  BY <1>1, <1>2 DEF Steps, Keeps, Covers

\* A change that keeps the nodes, then back to work.
LEMMA SameWorking ==
    ASSUME NEW w \in Trees, NEW x \in Trees, Whole(w), Same(w, x), x.cur \in Present(w)
    PROVE  /\ Working(x) \in Trees /\ Whole(Working(x)) /\ Stirs(x, Working(x))
           /\ Working(x).cur = x.cur /\ Working(x).tree = "active"
<1>1. /\ Stirs(x, Working(x)) /\ Working(x).cur = x.cur /\ Working(x).tree = "active"
  BY WorkingTree
<1>2. Working(x) \in Trees /\ Same(x, Working(x))
  BY <1>1 DEF Stirs, Same
<1>3. Same(w, Working(x))
  BY <1>2, SameChain
<1>4. Good(Working(x))
  BY <1>1, <1>2, <1>3, SameGood DEF Whole
<1> QED
  BY <1>1, <1>2, <1>4 DEF Whole, Approvable

LEMMA SwitchSteps ==
    ASSUME NEW w \in Trees, Whole(w), NEW n \in Present(w)
    PROVE  /\ Switch(w, n) \in Trees /\ Whole(Switch(w, n)) /\ Opens(w, Switch(w, n))
<1>1. n \in Nodes
  BY DEF Present
<1>2. Stirs(w, Switch(w, n)) /\ Switch(w, n).cur = n /\ Switch(w, n).tree = "active"
  BY <1>1, SwitchTree
<1>3. Switch(w, n) \in Trees
  BY <1>2 DEF Stirs, Same
<1> QED
  BY <1>2, <1>3, StirsWhole, StirsOpens

LEMMA UpdateSteps ==
    ASSUME NEW w \in Trees, Whole(w), NEW n \in Present(w),
           NEW status \in {"pending", "in-progress", "blocked", w.st[n]}
    PROVE  /\ Update(w, n, status) \in Trees /\ Whole(Update(w, n, status))
           /\ Opens(w, Update(w, n, status))
<1> DEFINE x == [w EXCEPT !.st = [w.st EXCEPT ![n] = status]]
<1>1. Update(w, n, status) = Working(x)
  BY DEF Update
<1>2. n \in Nodes /\ w.st[n] # "absent" /\ status \in NodeStatuses /\ status # "absent"
  BY TreeTypes DEF Present, NodeStatuses
<1>3. x \in Trees
  BY <1>2 DEF Trees
<1>4. x.st = [w.st EXCEPT ![n] = status] /\ x.up = w.up /\ x.cur = w.cur
  BY DEF Trees
<1> HIDE DEF x
<1>5. \A m \in Nodes : x.st[m] = IF m = n THEN status ELSE w.st[m]
  BY <1>4, TreeTypes
<1>6. Same(w, x)
  <2>1. \A m \in Nodes : x.st[m] = "absent" <=> w.st[m] = "absent"
    BY <1>2, <1>5
  <2> QED
    BY <1>2, <1>3, <1>4, <1>5, PresentSame, <2>1
<1>7. Opens(w, x)
  BY <1>5 DEF Opens
<1> QED
  BY <1>1, <1>3, <1>4, <1>6, <1>7, WholeTree, SameWorking, OpensStirs

\* A new node hangs on an older one, and no number is left out.
LEMMA CreateSteps ==
    ASSUME NEW w \in Trees, Whole(w), NEW p \in Present(w), NEW n \in FreshNode(w),
           NEW activate \in BOOLEAN
    PROVE  /\ Create(w, p, n, activate) \in Trees /\ Whole(Create(w, p, n, activate))
           /\ Opens(w, Create(w, p, n, activate))
           /\ Present(w) \subseteq Present(Create(w, p, n, activate))
<1> DEFINE s == IF activate THEN "in-progress" ELSE "pending"
           st == [[w.st EXCEPT ![p] = "in-progress"] EXCEPT ![n] = s]
           c == IF activate THEN n ELSE w.cur
           x == [w EXCEPT !.st = st, !.up = [w.up EXCEPT ![n] = p], !.cur = c]
<1>1. Create(w, p, n, activate) = Working(x)
  BY DEF Create
<1>2. /\ n \in Nodes /\ n \notin Present(w) /\ p \in Nodes /\ p # n
      /\ \A m \in Nodes \ Present(w) : n <= m
  BY DEF FreshNode, Oldest, Present
<1>3. s \in {"in-progress", "pending"}
  OBVIOUS
<1>4. st \in [Nodes -> NodeStatuses] /\ c \in Nodes
  BY <1>2, <1>3, TreeTypes DEF NodeStatuses
<1>5. \A m \in Nodes : st[m] = IF m = n THEN s ELSE IF m = p THEN "in-progress" ELSE w.st[m]
  BY <1>2, TreeTypes
<1>6. c \in Present(w) \cup {n}
  BY WholeTree
<1> HIDE DEF s, st, c
<1>7. x \in Trees
  BY <1>2, <1>4 DEF Trees
<1>8. x.st = st /\ x.up = [w.up EXCEPT ![n] = p] /\ x.cur = c
  BY DEF Trees
<1> HIDE DEF x
<1>9. Present(x) = Present(w) \cup {n}
  BY <1>2, <1>3, <1>5, <1>8 DEF Present
<1>10. \A m \in Nodes : x.up[m] = IF m = n THEN p ELSE w.up[m]
  BY <1>2, <1>8, TreeTypes
<1>11. p < n
  <2>1. p \in Nat /\ n \in Nat
    BY <1>2, NodeNumbers
  <2>2. ~ (n < p)
    BY <1>2 DEF Whole, Good, Grown
  <2> QED
    BY <1>2, <2>1, <2>2
<1>12. Sound(x)
  <2>1. n # Root
    BY <1>2, WholeTree
  <2>2. \A m \in Present(x) \ {Root} : x.up[m] \in Present(x) /\ x.up[m] < m
    BY <1>2, <1>9, <1>10, <1>11, WholeTree
  <2>3. {Root, x.cur} \subseteq Present(x)
    BY <1>6, <1>8, <1>9, WholeTree
  <2> QED
    BY <1>7, <1>10, <2>1, <2>2, <2>3, WholeTree, NodeNumbers DEF Sound
<1>13. Grown(x)
  <2>1. ASSUME NEW k \in Present(x), NEW m \in Nodes, m < k PROVE m \in Present(x)
    <3>1. CASE k \in Present(w)
      BY <1>9, <2>1, <3>1 DEF Whole, Good, Grown
    <3>2. CASE k = n
      <4>1. m \in Nat /\ n \in Nat
        BY <1>2, NodeNumbers
      <4> QED
        BY <1>2, <1>9, <2>1, <3>2, <4>1
    <3> QED
      BY <1>9, <3>1, <3>2
  <2> QED
    BY <2>1 DEF Grown
<1>14. Opens(w, x)
  BY <1>3, <1>5, <1>8 DEF Opens
<1>15. /\ Stirs(x, Working(x)) /\ Working(x) \in Trees /\ Working(x).tree = "active"
       /\ Working(x).cur = x.cur
  BY <1>7, WorkingTree DEF Stirs, Same
<1>16. Good(Working(x))
  BY <1>7, <1>12, <1>13, <1>15, SameGood DEF Good, Stirs, Sound
<1>17. Present(w) \subseteq Present(Working(x))
  BY <1>9, <1>15 DEF Stirs, Same
<1> QED
  BY <1>1, <1>7, <1>14, <1>15, <1>16, <1>17, OpensStirs DEF Whole, Approvable

LEMMA NormalizeSteps ==
    ASSUME NEW w \in Trees, Whole(w)
    PROVE  /\ Normalize(w) \in Trees /\ Whole(Normalize(w)) /\ Stirs(w, Normalize(w))
<1>1. Stirs(w, Normalize(w)) /\ Normalize(w).cur = w.cur
  BY NormalizeTree
<1>2. Normalize(w) \in Trees
  BY <1>1 DEF Stirs, Same
<1>3. Normalize(w).tree = "awaiting-approval" => w.tree = "awaiting-approval"
  BY NormalizeTree
<1> QED
  BY <1>1, <1>2, <1>3, WholeTree, StirsWhole

\* Every node that is skipped has only finished nodes below it, before and after.
LEMMA SkipSteps ==
    ASSUME NEW w \in Trees, Whole(w), NEW which \in SUBSET (Present(w) \ {Root}),
           NEW confirmed \in BOOLEAN
    PROVE  Skip(w, which, confirmed) \in Trees /\ Steps(w, Skip(w, which, confirmed))
<1>1. CASE ~ \A n \in which : Skippable(w, n, confirmed)
  <2>1. Skip(w, which, confirmed) = Normalize(w)
    BY <1>1 DEF Skip
  <2> QED
    BY <2>1, NormalizeSteps, StirsOpens, OpensSteps
<1>2. CASE \A n \in which : Skippable(w, n, confirmed)
  <2> DEFINE st == [n \in Nodes |-> IF n \in which THEN "skipped" ELSE w.st[n]]
             c == IF w.cur \in which THEN w.up[w.cur] ELSE w.cur
             x == [w EXCEPT !.st = st, !.cur = c]
  <2>1. Skip(w, which, confirmed) = Working(x)
    BY <1>2 DEF Skip
  <2>2. which \subseteq Present(w) /\ which \subseteq Nodes /\ Root \notin which
    BY DEF Present
  <2>3. c \in Present(w) /\ c \in Nodes
    BY <2>2, WholeTree
  <2>4. st \in [Nodes -> NodeStatuses]
    BY TreeTypes DEF NodeStatuses
  <2>5. \A n \in Nodes : st[n] = IF n \in which THEN "skipped" ELSE w.st[n]
    OBVIOUS
  <2> HIDE DEF st, c
  <2>6. x \in Trees
    BY <2>3, <2>4 DEF Trees
  <2>7. x.st = st /\ x.up = w.up /\ x.cur = c
    BY DEF Trees
  <2> HIDE DEF x
  <2>8. Same(w, x)
    <3>1. \A m \in Nodes : x.st[m] = "absent" <=> w.st[m] = "absent"
      BY <2>2, <2>5, <2>7 DEF Present
    <3> QED
      BY <2>2, <2>5, <2>6, <2>7, PresentSame, <3>1
  <2>9. /\ Working(x) \in Trees /\ Whole(Working(x)) /\ Stirs(x, Working(x))
    BY <2>3, <2>6, <2>7, <2>8, SameWorking
  <2>10. Keeps(w, Working(x))
    BY <2>5, <2>7, <2>9 DEF Keeps, Stirs
  <2>11. Covers(w, Working(x))
    <3>1. ASSUME NEW n \in Nodes, Working(x).st[n] \in {"completed", "skipped"},
                 w.st[n] # Working(x).st[n]
          PROVE  Unfinished(Working(x), n) = {}
      <4>1. x.st[n] = Working(x).st[n]
        BY <2>9, <3>1 DEF Stirs
      <4>2. n \in which
        BY <2>5, <2>7, <3>1, <4>1
      <4>3. \A d \in Below(w, n) : d \in Nodes /\ w.st[d] \in Finished
        BY <1>2, <4>2 DEF Skippable, Unfinished, Below
      <4>4. \A d \in Below(w, n) : x.st[d] \in Finished
        BY <2>5, <2>7, <4>3 DEF Finished
      <4>5. Below(Working(x), n) = Below(w, n)
        BY <2>6, <2>8, <2>9, SameBelow DEF Stirs
      <4>6. \A d \in Below(w, n) : Working(x).st[d] \in Finished
        BY <2>6, <2>9, <4>3, <4>4, StirsFinished
      <4> QED
        BY <4>5, <4>6 DEF Unfinished
    <3> QED
      BY <3>1 DEF Covers
  <2> QED
    BY <2>1, <2>9, <2>10, <2>11 DEF Steps
<1> QED
  BY <1>1, <1>2

\* The current node and everything below it are finished after a completion; at
\* the root that is the whole tree.
LEMMA CompleteSteps ==
    ASSUME NEW w \in Trees, Whole(w)
    PROVE  /\ Complete(w) \in Trees /\ Steps(w, Complete(w))
           /\ w.up[w.cur] = None => Complete(w).cur = Root
<1> DEFINE x == [w EXCEPT !.st = Closes(w)]
           y == Working(x)
<1>1. w.cur \in Nodes /\ w.cur \in Present(w)
  BY TreeTypes, WholeTree
<1>2. \A n \in Nodes : Closes(w)[n] =
          IF n \in Unfinished(w, w.cur) \cup ({w.cur} \ {m \in Nodes : w.st[m] \in Finished})
          THEN "completed" ELSE w.st[n]
  BY DEF Closes
<1>3. Closes(w) \in [Nodes -> NodeStatuses]
  BY TreeTypes DEF Closes, NodeStatuses
<1>4. x \in Trees
  BY <1>3 DEF Trees
<1>5. x.st = Closes(w) /\ x.up = w.up /\ x.cur = w.cur
  BY DEF Trees
<1> HIDE DEF x
<1>6. \A n \in Nodes : w.st[n] \in Finished => x.st[n] = w.st[n]
  BY <1>2, <1>5 DEF Unfinished
<1>7. \A n \in Below(w, w.cur) \cup {w.cur} : n \in Present(w) /\ n \in Nodes /\ x.st[n] \in Finished
  <2>1. ASSUME NEW n \in Below(w, w.cur) \cup {w.cur} PROVE n \in Present(w) /\ n \in Nodes
    BY <1>1, BelowPresent DEF Present
  <2>2. ASSUME NEW n \in Below(w, w.cur) \cup {w.cur} PROVE x.st[n] \in Finished
    <3>1. CASE w.st[n] \in Finished
      BY <1>6, <2>1, <3>1
    <3>2. CASE w.st[n] \notin Finished
      <4>1. x.st[n] = "completed"
        BY <1>2, <1>5, <2>1, <3>2 DEF Unfinished
      <4> QED
        BY <4>1 DEF Finished
    <3> QED
      BY <3>1, <3>2
  <2> QED
    BY <2>1, <2>2
<1>8. \A n \in Nodes : x.st[n] # w.st[n] => n \in Below(w, w.cur) \cup {w.cur}
  BY <1>2, <1>5 DEF Unfinished
<1>9. Same(w, x)
  <2>1. \A n \in Nodes : x.st[n] = "absent" <=> w.st[n] = "absent"
    <3>1. ASSUME NEW n \in Nodes, x.st[n] # w.st[n] PROVE x.st[n] # "absent" /\ w.st[n] # "absent"
      <4>1. n \in Present(w) /\ x.st[n] \in Finished
        BY <1>7, <1>8, <3>1
      <4> QED
        BY <4>1 DEF Present, Finished
    <3> QED
      BY <3>1
  <2> QED
    BY <1>4, <1>5, <2>1, PresentSame
<1>10. y \in Trees /\ Whole(y) /\ Stirs(x, y) /\ y.cur = w.cur /\ y.tree = "active"
  BY <1>1, <1>4, <1>5, <1>9, SameWorking
<1>11. Same(w, y)
  BY <1>4, <1>9, <1>10, SameChain DEF Stirs
<1>12. \A n \in Below(y, w.cur) \cup {w.cur} : n \in Nodes /\ y.st[n] \in Finished
  <2>1. Below(y, w.cur) = Below(w, w.cur)
    BY <1>11, SameBelow
  <2> QED
    BY <1>4, <1>7, <1>10, <2>1, StirsFinished
<1>13. Steps(w, y)
  <2>1. Keeps(w, y)
    <3>1. ASSUME NEW n \in Nodes, w.st[n] \in {"failed", "skipped"} PROVE y.st[n] # "completed"
      <4>1. w.st[n] \in Finished /\ w.st[n] # "completed"
        BY <3>1 DEF Finished
      <4> QED
        BY <1>4, <1>6, <1>10, <4>1, StirsFinished
    <3> QED
      BY <3>1 DEF Keeps
  <2>2. Covers(w, y)
    <3>1. ASSUME NEW n \in Nodes, y.st[n] \in {"completed", "skipped"}, w.st[n] # y.st[n]
          PROVE  Unfinished(y, n) = {}
      <4>1. x.st[n] = y.st[n]
        BY <1>10, <3>1 DEF Stirs
      <4>2. n \in Below(w, w.cur) \cup {w.cur}
        BY <1>8, <3>1, <4>1
      <4>3. Below(w, n) \subseteq Below(w, w.cur)
        BY <4>2, BelowBelow
      <4>4. Below(y, n) = Below(w, n) /\ Below(y, w.cur) = Below(w, w.cur)
        BY <1>11, SameBelow
      <4>5. \A d \in Below(y, n) : y.st[d] \in Finished
        BY <1>12, <4>3, <4>4
      <4> QED
        BY <4>5 DEF Unfinished
    <3> QED
      BY <3>1 DEF Covers
  <2> QED
    BY <1>10, <2>1, <2>2 DEF Steps
<1>14. CASE w.up[w.cur] # None
  <2>1. Complete(w) = Switch(y, w.up[w.cur])
    BY <1>14 DEF Complete, x
  <2>2. w.up[w.cur] \in Present(y)
    <3>1. w.cur # Root
      BY <1>14, WholeTree
    <3> QED
      BY <1>1, <1>11, <3>1, WholeTree DEF Same
  <2> HIDE DEF y
  <2>3. PICK p \in Present(y) : p = w.up[w.cur]
    BY <2>2
  <2>4. Switch(y, p) \in Trees /\ Whole(Switch(y, p)) /\ Stirs(y, Switch(y, p))
    <3>1. p \in Nodes
      BY DEF Present
    <3> QED
      BY <1>10, <3>1, SwitchSteps, SwitchTree
  <2> QED
    BY <1>10, <1>13, <1>14, <2>1, <2>3, <2>4, StepsThenStirs
<1>15. CASE w.up[w.cur] = None
  <2> DEFINE z == [y EXCEPT !.tree = "awaiting-approval", !.prot = "verified", !.cur = Root]
  <2>1. Complete(w) = Normalize(z)
    BY <1>15 DEF Complete, x
  <2>2. w.cur = Root
    <3>1. w.cur # Root => w.up[w.cur] \in Nodes
      BY <1>1, WholeTree
    <3> QED
      BY <1>15, <3>1, NodeNumbers
  <2> HIDE DEF y
  <2>3. z \in Trees
    BY <1>10, NodeNumbers DEF Trees, TreeStatuses, ProtocolStatuses
  <2>4. z.st = y.st /\ z.up = y.up /\ z.cur = Root
    BY <1>10 DEF Trees
  <2> HIDE DEF z
  <2>5. Stirs(y, z)
    BY <1>10, <2>3, <2>4, StirsSame
  <2>6. Good(z)
    BY <1>10, <2>2, <2>3, <2>4, <2>5, SameGood, WholeTree DEF Stirs
  <2>7. AllFinished(z)
    <3>1. ASSUME NEW n \in Present(z) PROVE z.st[n] \in Finished
      <4>1. n \in Present(y)
        BY <2>5 DEF Stirs, Same
      <4>2. n \in Below(y, Root) \cup {Root}
        BY <1>10, <4>1, BelowRoot, WholeTree
      <4> QED
        BY <1>12, <2>2, <2>4, <4>2
    <3> QED
      BY <3>1 DEF AllFinished
  <2>8. Whole(z)
    BY <2>6, <2>7 DEF Whole, Approvable
  <2>9. Steps(w, z)
    BY <1>10, <1>13, <2>3, <2>5, <2>8, StepsThenStirs
  <2>10. Normalize(z) \in Trees /\ Whole(Normalize(z)) /\ Stirs(z, Normalize(z))
    BY <2>3, <2>8, NormalizeSteps
  <2>11. Steps(w, Normalize(z)) /\ Normalize(z).cur = Root
    BY <2>3, <2>4, <2>9, <2>10, StepsThenStirs, NormalizeTree
  <2> QED
    BY <2>1, <2>10, <2>11
<1> QED
  BY <1>14, <1>15

\* A failed root fails the tree; otherwise work goes on at the parent.
LEMMA FailSteps ==
    ASSUME NEW w \in Trees, Whole(w)
    PROVE  /\ FailCurrent(w) \in Trees /\ Whole(FailCurrent(w)) /\ Opens(w, FailCurrent(w))
           /\ w.up[w.cur] = None => FailCurrent(w).cur = Root
           /\ w.cur = Root => FailCurrent(w).tree = "failed"
<1> DEFINE x == [w EXCEPT !.st = [w.st EXCEPT ![w.cur] = "failed"]]
<1>1. w.cur \in Nodes /\ w.cur \in Present(w)
  BY TreeTypes, WholeTree
<1>2. x \in Trees
  BY <1>1 DEF Trees, NodeStatuses
<1>3. x.st = [w.st EXCEPT ![w.cur] = "failed"] /\ x.up = w.up /\ x.cur = w.cur
  BY DEF Trees
<1>4. FailCurrent(w) =
          IF w.up[w.cur] # None THEN Switch(Working(x), w.up[w.cur])
          ELSE Normalize([x EXCEPT !.tree = "failed", !.prot = "needs-clarification"])
  BY DEF FailCurrent
<1> HIDE DEF x
<1>5. \A n \in Nodes : x.st[n] = IF n = w.cur THEN "failed" ELSE w.st[n]
  BY <1>3, TreeTypes
<1>6. Same(w, x)
  <2>1. \A m \in Nodes : x.st[m] = "absent" <=> w.st[m] = "absent"
    BY <1>1, <1>5 DEF Present
  <2> QED
    BY <1>1, <1>2, <1>3, <1>5, PresentSame, <2>1
<1>7. Opens(w, x)
  BY <1>5 DEF Opens
<1>8. w.cur # Root => w.up[w.cur] \in Present(w) /\ w.up[w.cur] \in Nodes
  BY <1>1, WholeTree
<1>9. CASE w.up[w.cur] # None
  <2> DEFINE y == Working(x)
  <2>1. y \in Trees /\ Whole(y) /\ Stirs(x, y)
    BY <1>1, <1>2, <1>3, <1>6, SameWorking
  <2>2. w.cur # Root
    BY <1>9, WholeTree
  <2>3. FailCurrent(w) = Switch(y, w.up[w.cur])
    BY <1>4, <1>9
  <2> HIDE DEF y
  <2>4. PICK p \in Present(w) : p = w.up[w.cur]
    BY <1>8, <2>2
  <2>5. p \in Present(y)
    BY <1>2, <1>6, <2>1 DEF Stirs, Same
  <2>6. Opens(w, y)
    BY <1>2, <1>7, <2>1, OpensStirs
  <2>7. p \in Nodes
    BY DEF Present
  <2>8. Switch(y, p) \in Trees /\ Whole(Switch(y, p)) /\ Stirs(y, Switch(y, p))
    BY <2>1, <2>5, <2>7, SwitchSteps, SwitchTree
  <2> QED
    BY <1>9, <2>1, <2>2, <2>3, <2>4, <2>6, <2>8, OpensStirs
<1>10. CASE w.up[w.cur] = None
  <2> DEFINE z == [x EXCEPT !.tree = "failed", !.prot = "needs-clarification"]
  <2>1. FailCurrent(w) = Normalize(z)
    BY <1>4, <1>10
  <2>2. w.cur = Root
    BY <1>8, <1>10, NodeNumbers
  <2>3. z \in Trees
    BY <1>2 DEF Trees, TreeStatuses, ProtocolStatuses
  <2>4. z.st = x.st /\ z.up = x.up /\ z.cur = x.cur /\ z.tree = "failed"
    BY <1>2 DEF Trees
  <2> HIDE DEF z
  <2>5. Same(w, z)
    BY <1>3, <1>6, <2>3, <2>4 DEF Same, Present
  <2>6. Good(z)
    BY <1>1, <1>3, <2>3, <2>4, <2>5, SameGood DEF Whole
  <2>7. Whole(z)
    BY <2>4, <2>6 DEF Whole, Approvable
  <2>8. Opens(w, z)
    BY <1>7, <2>4 DEF Opens
  <2>9. Normalize(z) \in Trees /\ Whole(Normalize(z)) /\ Stirs(z, Normalize(z))
    BY <2>3, <2>7, NormalizeSteps
  <2>10. Normalize(z).cur = Root /\ Normalize(z).tree = "failed"
    BY <1>3, <2>2, <2>3, <2>4, NormalizeTree
  <2> QED
    BY <2>1, <2>3, <2>8, <2>9, <2>10, OpensStirs
<1> QED
  BY <1>9, <1>10

LEMMA ReopenWhole ==
    ASSUME NEW w \in Trees, Whole(w), NEW n \in Present(w)
    PROVE  /\ Reopen(w, n) \in Trees /\ Whole(Reopen(w, n))
           /\ Reopen(w, n).cur = n /\ Reopen(w, n).tree = "active"
<1> DEFINE x == [w EXCEPT !.st = [w.st EXCEPT ![n] = "in-progress"], !.cur = n]
<1>1. Reopen(w, n) = Working(x)
  BY DEF Reopen
<1>2. n \in Nodes /\ w.st[n] # "absent"
  BY DEF Present
<1>3. x \in Trees
  BY <1>2 DEF Trees, NodeStatuses
<1>4. x.st = [w.st EXCEPT ![n] = "in-progress"] /\ x.up = w.up /\ x.cur = n
  BY DEF Trees
<1> HIDE DEF x
<1>5. \A m \in Nodes : x.st[m] = IF m = n THEN "in-progress" ELSE w.st[m]
  BY <1>4, TreeTypes
<1>6. Same(w, x)
  <2>1. \A m \in Nodes : x.st[m] = "absent" <=> w.st[m] = "absent"
    BY <1>2, <1>5
  <2> QED
    BY <1>2, <1>3, <1>4, <1>5, PresentSame, <2>1
<1> QED
  BY <1>1, <1>3, <1>4, <1>6, SameWorking

LEMMA MergeWhole ==
    ASSUME NEW w \in Trees, Whole(w), NEW n \in Present(w)
    PROVE  /\ Merge(w, n) \in Trees /\ Whole(Merge(w, n))
           /\ Merge(w, n).tree = "awaiting-approval" => w.tree = "awaiting-approval"
           /\ Merge(w, n).gated = w.gated
<1> DEFINE s == IF w.st[n] \in Finished \cup {"blocked"} THEN w.st[n] ELSE "summarizing"
           t == IF w.tree \in {"completed", "failed", "awaiting-approval"} THEN w.tree
                ELSE "summarizing"
           q == IF w.prot = "completed" THEN w.prot ELSE "executing"
           v == Merge(w, n)
<1>1. v = [w EXCEPT !.st = [w.st EXCEPT ![n] = s], !.cur = n, !.tree = t, !.prot = q]
  BY DEF Merge
<1>2. n \in Nodes /\ w.st[n] # "absent"
  BY DEF Present
<1>3. s \in NodeStatuses /\ s # "absent" /\ (w.st[n] \in Finished => s = w.st[n])
  BY <1>2, TreeTypes DEF NodeStatuses
<1>4. t \in TreeStatuses /\ q \in ProtocolStatuses
  BY TreeTypes DEF TreeStatuses, ProtocolStatuses
<1>5. t = "awaiting-approval" => w.tree = "awaiting-approval"
  OBVIOUS
<1> HIDE DEF s, t, q, v
<1>6. v \in Trees
  BY <1>1, <1>2, <1>3, <1>4 DEF Trees
<1>7. /\ v.st = [w.st EXCEPT ![n] = s] /\ v.up = w.up /\ v.cur = n
      /\ v.tree = t /\ v.gated = w.gated
  BY <1>1 DEF Trees
<1>8. \A m \in Nodes : v.st[m] = IF m = n THEN s ELSE w.st[m]
  BY <1>7, TreeTypes
<1>9. Same(w, v)
  <2>1. \A m \in Nodes : v.st[m] = "absent" <=> w.st[m] = "absent"
    BY <1>2, <1>3, <1>8
  <2> QED
    BY <1>2, <1>3, <1>6, <1>7, <1>8, PresentSame, <2>1
<1>10. Good(v)
  BY <1>6, <1>7, <1>9, SameGood DEF Whole
<1>11. ASSUME v.tree = "awaiting-approval", NEW m \in Present(v) PROVE v.st[m] \in Finished
  <2>1. m \in Present(w) /\ m \in Nodes /\ w.tree = "awaiting-approval"
    BY <1>5, <1>7, <1>9, <1>11 DEF Same, Present
  <2>2. w.st[m] \in Finished
    BY <2>1 DEF Whole, Approvable, AllFinished
  <2> QED
    BY <1>3, <1>8, <2>1, <2>2
<1>12. Whole(v)
  BY <1>10, <1>11 DEF Whole, Approvable, AllFinished
<1> QED
  BY <1>5, <1>6, <1>7, <1>12 DEF v

LEMMA ApprovedWhole ==
    ASSUME NEW w \in Trees, Whole(w)
    PROVE  /\ Approved(w) \in Trees /\ Whole(Approved(w))
           /\ Approved(w).tree # "awaiting-approval"
<1>1. CASE w.tree \in {"awaiting-approval", "completed"}
  <2> DEFINE v == [w EXCEPT !.tree = "completed", !.prot = "completed", !.cur = Root]
  <2>1. Approved(w) = v
    BY <1>1 DEF Approved
  <2>2. v \in Trees
    BY NodeNumbers DEF Trees, TreeStatuses, ProtocolStatuses
  <2>3. v.st = w.st /\ v.up = w.up /\ v.cur = Root /\ v.tree = "completed"
    BY DEF Trees
  <2> HIDE DEF v
  <2>4. Stirs(w, v)
    BY <2>2, <2>3, StirsSame
  <2> QED
    BY <2>1, <2>2, <2>3, <2>4, WholeTree, StirsWhole
<1>2. CASE w.tree \notin {"awaiting-approval", "completed"}
  BY <1>2 DEF Approved
<1> QED
  BY <1>1, <1>2

\* A window that is asked to confirm its plan passes no gates.
LEMMA AnsweredWhole ==
    ASSUME NEW j \in Trees, Whole(j), NEW asks \in BOOLEAN, NEW verdict \in Verdicts,
           asks => j.tree = "planned" /\ ~j.gated,
           NEW a, a = Finalize(Normalize(j), asks, verdict)
    PROVE  /\ a \in Trees /\ Whole(a) /\ Stirs(j, a) /\ a.cur = j.cur
           /\ a.tree # "awaiting-approval"
           /\ a.gated => a.tree = "verified" /\ a.prot = "verified"
<1> DEFINE w == Normalize(j)
<1>1. w \in Trees /\ Whole(w) /\ Stirs(j, w) /\ w.cur = j.cur
  BY NormalizeSteps, NormalizeTree
<1>2. asks => w.tree = "active" /\ ~w.gated
  BY NormalizeTree
<1>3. a = Finalize(w, asks, verdict)
  OBVIOUS
<1> HIDE DEF w
<1>4. /\ a \in Trees /\ a.st = w.st /\ a.up = w.up /\ a.cur = w.cur
      /\ a.tree # "awaiting-approval"
      /\ a.gated => a.tree = "verified" /\ a.prot = "verified"
  <2>1. CASE asks
    <3>1. a = [w EXCEPT !.prot = "needs-clarification"]
      BY <1>3, <2>1 DEF Finalize
    <3>2. a \in Trees
      BY <1>1, <3>1 DEF Trees, ProtocolStatuses
    <3> QED
      BY <1>1, <1>2, <2>1, <3>1, <3>2 DEF Trees
  <2>2. CASE ~asks
    <3> DEFINE s == IF verdict = "complete" THEN "completed" ELSE "verified"
               g == verdict = "gated"
    <3>1. a = [w EXCEPT !.tree = s, !.prot = s, !.gated = g]
      BY <1>3, <2>2 DEF Finalize
    <3>2. s \in {"completed", "verified"} /\ (g => s = "verified")
      OBVIOUS
    <3>3. g \in BOOLEAN
      OBVIOUS
    <3> HIDE DEF s, g
    <3>4. a \in Trees
      BY <1>1, <3>1, <3>2, <3>3 DEF Trees, TreeStatuses, ProtocolStatuses
    <3>5. a.st = w.st /\ a.up = w.up /\ a.cur = w.cur /\ a.tree = s /\ a.prot = s
      BY <1>1, <3>1 DEF Trees
    <3>6. a.gated = g
      BY <1>1, <3>1 DEF Trees
    <3> QED
      BY <3>2, <3>4, <3>5, <3>6
  <2> QED
    BY <2>1, <2>2
<1>5. Stirs(w, a)
  BY <1>1, <1>4, StirsSame
<1>6. Stirs(j, a)
  BY <1>1, <1>4, <1>5, StirsChain
<1> QED
  BY <1>1, <1>4, <1>5, <1>6, StirsWhole, WholeTree

\* The steps of a plan are numbered after the root.
LEMMA SeedWhole ==
    ASSUME NEW last \in Plans, NEW asks \in BOOLEAN
    PROVE  /\ Seed(last, asks) \in Trees /\ Whole(Seed(last, asks))
           /\ Seed(last, asks).tree = "planned" /\ Seed(last, asks).gated = FALSE
<1> DEFINE steps == {n \in Nodes : Root < n /\ n <= last}
           first == {n \in steps : \A m \in steps : n <= m}
           starts == IF steps = {} THEN {Root} ELSE first
           st == [n \in Nodes |-> IF n \in first \cup {Root} THEN "in-progress"
                                  ELSE IF n \in steps THEN "pending" ELSE "absent"]
           up == [n \in Nodes |-> IF n \in steps THEN Root ELSE None]
           cur == CHOOSE n \in Nodes : n \in starts
           prot == IF asks THEN "needs-clarification" ELSE "prepared"
           v == Seed(last, asks)
<1>1. v = [st |-> st, up |-> up, cur |-> cur, tree |-> "planned", prot |-> prot,
           gated |-> FALSE]
  BY DEF Seed
<1>2. Nodes \subseteq Nat /\ Root \in Nodes /\ last \in Nodes /\ steps \subseteq Nodes
  BY TakeoverAssumption DEF TakeoverAssumption
<1>3. \E n \in Nodes : n \in starts
  <2>1. CASE steps = {}
    BY <1>2, <2>1
  <2>2. CASE steps # {}
    <3>1. steps \in SUBSET Nat
      BY <1>2
    <3> HIDE DEF steps
    <3>2. PICK n \in steps : \A m \in steps : n <= m
      BY <2>2, <3>1, Least
    <3> QED
      BY <1>2, <2>2, <3>2
  <2> QED
    BY <2>1, <2>2
<1>4. cur \in Nodes /\ cur \in starts
  BY <1>3
<1>5. starts \subseteq steps \cup {Root} /\ first \subseteq steps
  OBVIOUS
<1>6. \A n \in Nodes : st[n] # "absent" <=> n \in steps \cup {Root}
  BY <1>5
<1>7. st \in [Nodes -> NodeStatuses] /\ up \in [Nodes -> Nodes \cup {None}]
  <2> HIDE DEF first, steps
  <2> QED
    BY <1>2 DEF NodeStatuses
<1>8. prot \in ProtocolStatuses
  BY DEF ProtocolStatuses
<1>9. \A n \in Nodes : up[n] = IF n \in steps THEN Root ELSE None
  <2> HIDE DEF steps
  <2> QED
    OBVIOUS
<1>10. \A n \in Nodes : n \in steps <=> Root < n /\ n <= last
  OBVIOUS
<1> HIDE DEF steps, first, starts, st, up, cur, prot, v
<1>11. v \in Trees /\ v.st = st /\ v.up = up /\ v.cur = cur /\ v.tree = "planned" /\ v.gated = FALSE
  BY <1>1, <1>4, <1>7, <1>8 DEF Trees, TreeStatuses
<1>12. Present(v) = steps \cup {Root}
  BY <1>2, <1>6, <1>11 DEF Present
<1>13. Sound(v)
  <2>1. {Root, v.cur} \subseteq Present(v)
    BY <1>4, <1>5, <1>11, <1>12
  <2>2. Root \notin steps
    BY <1>2, <1>10
  <2>3. \A n \in Present(v) \ {Root} : v.up[n] \in Present(v) /\ v.up[n] < n
    BY <1>2, <1>9, <1>10, <1>11, <1>12
  <2>4. v.up[Root] = None
    BY <1>2, <1>9, <1>11, <2>2
  <2> QED
    BY <1>11, <2>1, <2>3, <2>4 DEF Sound
<1>14. Grown(v)
  <2>1. ASSUME NEW n \in Present(v), NEW m \in Nodes, m < n PROVE m \in Present(v)
    <3>1. m \in Nat /\ n \in Nodes /\ n \in Nat /\ Root \in Nat /\ last \in Nat /\ Root <= m
      BY <1>2, <1>12, NodeNumbers
    <3>2. CASE n = Root
      BY <2>1, <3>1, <3>2
    <3>3. CASE n # Root
      <4>1. n <= last
        BY <1>10, <1>12, <3>1, <3>3
      <4>2. m = Root \/ m \in steps
        BY <1>10, <2>1, <3>1, <4>1
      <4> QED
        BY <1>12, <4>2
    <3> QED
      BY <3>2, <3>3
  <2> QED
    BY <2>1 DEF Grown
<1>15. Whole(v)
  BY <1>11, <1>13, <1>14 DEF Whole, Good, Approvable
<1> QED
  BY <1>11, <1>15 DEF v

-----------------------------------------------------------------------------
(***************************************************************************)
(* What is queued.                                                         *)
(***************************************************************************)
LEMMA PayloadFits ==
    ASSUME NEW w \in Trees, Whole(w), NEW asks \in BOOLEAN, NEW n \in 0 .. 1,
           asks => w.tree = "planned" /\ ~w.gated
    PROVE  Payload(w, asks, n) \in Fit
BY DEF Payload, Fit, Payloads

LEMMA PlainFits ==
    ASSUME NEW w \in Trees, Whole(w)
    PROVE  Payload(w, FALSE, 0) \in Fit
<1>1. 0 \in 0 .. 1
  OBVIOUS
<1> QED
  BY <1>1, PayloadFits, Zenon

LEMMA SeedFits ==
    ASSUME NEW last \in Plans, NEW asks \in BOOLEAN
    PROVE  Payload(Seed(last, asks), asks, 0) \in Fit
<1>1. 0 \in 0 .. 1
  OBVIOUS
<1>2. ~Seed(last, asks).gated
  BY SeedWhole
<1> QED
  BY <1>1, <1>2, SeedWhole, PayloadFits, Zenon

LEMMA ContinuationFits ==
    ASSUME NEW w \in Trees, Whole(w), NEW retried \in BOOLEAN
    PROVE  /\ Continuation(w, retried) \in Fit
           /\ Continuation(w, retried).retries = IF retried THEN 1 ELSE 0
<1> DEFINE n == IF retried THEN 1 ELSE 0
<1>1. Continuation(w, retried) = Payload(w, FALSE, n) /\ n \in 0 .. 1
  BY DEF Continuation
<1> HIDE DEF n
<1>2. Payload(w, FALSE, n) \in Fit
  BY <1>1, PayloadFits
<1>3. Payload(w, FALSE, n).retries = n
  BY DEF Payload
<1> QED
  BY <1>1, <1>2, <1>3 DEF n

LEMMA JobFits ==
    ASSUME Inv, items # << >>
    PROVE  /\ Job \in Fit /\ Job.tree \in Trees /\ Whole(Job.tree)
           /\ Job.asks \in BOOLEAN /\ Job.retries \in 0 .. 1
           /\ Job.asks => Job.tree.tree = "planned" /\ ~Job.tree.gated
<1>1. Job \in Fit
  BY DEF Inv, Kinds, Job
<1> QED
  BY <1>1 DEF Fit, Payloads

-----------------------------------------------------------------------------
(***************************************************************************)
(* The end of a window.                                                    *)
(***************************************************************************)
\* A window that does not ask for another one has passed its gates, or is
\* stopped by them.
Decided(c, move, again) == ~again /\ c.gated => Stopped(c, move)

\* What is left of a tree c: v.
Leaves(c, v) == Whole(v) /\ Stirs(c, v) /\ v.cur = c.cur /\ v.gated = c.gated

GoesOn(retried) ==
    /\ task' = "queued"
    /\ \E w \in Trees : Whole(w) /\ items' = Tail(items) \o <<Continuation(w, retried)>>
    /\ retried => Job.retries < 1

Stops(status, c, v, move) ==
    /\ task' = status
    /\ items' = Tail(items) \o << >>
    /\ status = "resume-blocked" => Stopped(c, move) /\ ~ (Job.retries < 1)
    /\ status = "awaiting-approval" /\ v.tree = "awaiting-approval" => ~v.gated

LEMMA EndsOutcome ==
    ASSUME NEW c \in Trees, Whole(c), NEW move, NEW again \in BOOLEAN,
           Decided(c, move, again), Ends(c, move, again)
    PROVE  \E v \in Trees :
              /\ Leaves(c, v) /\ file' = v /\ NewRun
              /\ \/ \E retried \in BOOLEAN :
                       /\ GoesOn(retried)
                       /\ retried = Stopped(c, move)
                 \/ \E status \in {"awaiting-approval", "resume-blocked", "completed"} :
                       Stops(status, c, v, move)
<1> DEFINE w == Normalize(c)
           stopped == Stopped(w, move)
           retried == stopped /\ Job.retries < 1
           left == IF w.gated THEN [w EXCEPT !.prot = "needs-clarification"] ELSE w
           done == [w EXCEPT !.tree = "completed", !.prot = "completed"]
<1>1. /\ w \in Trees /\ Whole(w) /\ Stirs(c, w) /\ w.cur = c.cur /\ w.gated = c.gated
      /\ w.tree = "awaiting-approval" => w.prot = "verified"
  <2>1. w \in Trees /\ Whole(w) /\ Stirs(c, w) /\ w.cur = c.cur /\ w.gated = c.gated
    BY NormalizeSteps, NormalizeTree
  <2>2. w.prot = ProtocolStatus(w.tree, c.prot)
    BY NormalizeTree
  <2> HIDE DEF w
  <2>3. w.tree \in TreeStatuses /\ c.prot \in ProtocolStatuses
    BY <2>1, TreeTypes
  <2> QED
    BY <2>1, <2>2, <2>3, Statuses
<1>2. stopped = Stopped(c, move)
  BY <1>1 DEF Stopped
<1>3. \/ w.prot = "needs-clarification" /\ Outcome("awaiting-approval", left, << >>)
      \/ stopped /\ ~retried /\ Outcome("resume-blocked", left, << >>)
      \/ /\ retried \/ (~stopped /\ again)
         /\ Outcome("queued", left, <<Continuation(w, retried)>>)
      \/ /\ ~stopped /\ ~again
         /\ w.tree = "awaiting-approval"
         /\ Outcome("awaiting-approval", left, << >>)
      \/ ~stopped /\ ~again /\ w.gated
      \/ ~w.gated /\ Outcome("completed", done, << >>)
  BY DEF Ends
<1> HIDE DEF w, stopped, retried
<1>4. left \in Trees /\ Leaves(c, left) /\ left.tree = w.tree
  <2>1. CASE w.gated
    <3>1. left = [w EXCEPT !.prot = "needs-clarification"]
      BY <2>1
    <3> HIDE DEF left
    <3>2. left \in Trees
      BY <1>1, <3>1 DEF Trees, ProtocolStatuses
    <3>3. left.st = w.st /\ left.up = w.up /\ left.cur = w.cur /\ left.gated = w.gated /\ left.tree = w.tree
      BY <1>1, <3>1 DEF Trees
    <3>4. Stirs(w, left)
      BY <1>1, <3>2, <3>3, StirsSame
    <3>5. Whole(left) /\ Stirs(c, left)
      BY <1>1, <3>2, <3>3, <3>4, StirsWhole, WholeTree, StirsChain
    <3> QED
      BY <1>1, <3>2, <3>3, <3>5 DEF Leaves
  <2>2. CASE ~w.gated
    BY <1>1, <2>2 DEF Leaves
  <2> QED
    BY <2>1, <2>2
<1>5. done \in Trees /\ Leaves(c, done)
  <2>1. done \in Trees
    BY <1>1 DEF Trees, TreeStatuses, ProtocolStatuses
  <2>2. done.st = w.st /\ done.up = w.up /\ done.cur = w.cur /\ done.gated = w.gated /\ done.tree = "completed"
    BY <1>1 DEF Trees
  <2> HIDE DEF done
  <2>3. Stirs(w, done)
    BY <1>1, <2>1, <2>2, StirsSame
  <2>4. Whole(done) /\ Stirs(c, done)
    BY <1>1, <2>1, <2>2, <2>3, StirsWhole, WholeTree, StirsChain
  <2> QED
    BY <1>1, <2>1, <2>2, <2>4 DEF Leaves
<1> HIDE DEF left, done
<1>6. ~ (~stopped /\ ~again /\ w.gated)
  BY <1>1, <1>2 DEF Decided
<1>7. CASE w.prot = "needs-clarification" /\ Outcome("awaiting-approval", left, << >>)
  <2>1. Stops("awaiting-approval", c, left, move)
    BY <1>1, <1>4, <1>7 DEF Stops, Outcome
  <2> QED
    BY <1>4, <1>7, <2>1 DEF Outcome
<1>8. CASE stopped /\ ~retried /\ Outcome("resume-blocked", left, << >>)
  <2>1. Stops("resume-blocked", c, left, move)
    BY <1>2, <1>8 DEF Stops, Outcome, retried
  <2> QED
    BY <1>4, <1>8, <2>1 DEF Outcome
<1>9. CASE /\ retried \/ (~stopped /\ again)
           /\ Outcome("queued", left, <<Continuation(w, retried)>>)
  <2>1. GoesOn(retried)
    BY <1>1, <1>9 DEF GoesOn, Outcome, retried
  <2>2. retried \in BOOLEAN /\ retried = stopped
    <3>1. retried \in BOOLEAN /\ stopped \in BOOLEAN
      BY DEF retried, stopped, Stopped
    <3>2. (retried => stopped) /\ (stopped => retried)
      BY <1>9 DEF retried
    <3> QED
      BY <3>1, <3>2
  <2> QED
    BY <1>2, <1>4, <1>9, <2>1, <2>2 DEF Outcome
<1>10. CASE /\ ~stopped /\ ~again
            /\ w.tree = "awaiting-approval"
            /\ Outcome("awaiting-approval", left, << >>)
  <2>1. ~left.gated
    BY <1>1, <1>4, <1>6, <1>10 DEF Leaves
  <2>2. Stops("awaiting-approval", c, left, move)
    BY <1>10, <2>1 DEF Stops, Outcome
  <2> QED
    BY <1>4, <1>10, <2>2 DEF Outcome
<1>11. CASE ~w.gated /\ Outcome("completed", done, << >>)
  <2>1. Stops("completed", c, done, move)
    BY <1>11 DEF Stops, Outcome
  <2> QED
    BY <1>5, <1>11, <2>1 DEF Outcome
<1> QED
  BY <1>3, <1>6, <1>7, <1>8, <1>9, <1>10, <1>11

-----------------------------------------------------------------------------
(***************************************************************************)
(* The windows.                                                            *)
(***************************************************************************)
LEMMA Answers ==
    ASSUME Inv, items # << >>, NEW verdict \in Verdicts
    PROVE  \E a \in Trees :
              /\ a = Answered(verdict)
              /\ Whole(a) /\ Stirs(Job.tree, a) /\ a.cur = Job.tree.cur
              /\ a.tree # "awaiting-approval"
              /\ a.gated => a.tree = "verified" /\ a.prot = "verified"
<1>1. /\ Job.tree \in Trees /\ Whole(Job.tree) /\ Job.asks \in BOOLEAN
      /\ Job.asks => Job.tree.tree = "planned" /\ ~Job.tree.gated
  BY JobFits
<1>2. Answered(verdict) = Finalize(Normalize(Job.tree), Job.asks, verdict)
  BY DEF Answered, Loaded
<1>3. PICK a : a = Answered(verdict)
  OBVIOUS
<1> QED
  BY <1>1, <1>2, <1>3, AnsweredWhole

Moves == {"directive", "bubble", "delivery", "orchestrate", "gate"}

\* A window brings the tree of its job to c, and ends with that.
Brings(c, move, again) ==
    /\ Ends(c, move, again) /\ Decided(c, move, again)
    /\ Steps(Job.tree, c)
    /\ move = "bubble" => Job.tree.cur # Root

LEMMA EntersEnds ==
    ASSUME Inv, Enters
    PROVE  \E c \in Trees, move \in Moves, again \in BOOLEAN : Brings(c, move, again)
<1>1. items # << >>
  BY DEF Enters, Window
<1>2. PICK verdict \in Verdicts :
          \E n \in Present(Answered(verdict)) : Ends(Switch(Answered(verdict), n), "directive", TRUE)
  BY DEF Enters
<1>3. PICK a \in Trees : a = Answered(verdict) /\ Whole(a) /\ Stirs(Job.tree, a)
  BY <1>1, Answers
<1>4. PICK n \in Present(a) : Ends(Switch(a, n), "directive", TRUE)
  BY <1>2, <1>3
<1>5. PICK c \in Trees : c = Switch(a, n) /\ Steps(a, c)
  BY <1>3, SwitchSteps, OpensSteps
<1>6. Steps(Job.tree, c)
  BY <1>1, <1>3, <1>5, JobFits, StirsThenSteps
<1>7. Ends(c, "directive", TRUE)
  BY <1>4, <1>5
<1> QED
  BY <1>6, <1>7 DEF Brings, Decided, Moves

LEMMA UpdatesEnds ==
    ASSUME Inv, Updates
    PROVE  \E c \in Trees, move \in Moves, again \in BOOLEAN : Brings(c, move, again)
<1>1. items # << >>
  BY DEF Updates, Window
<1>2. PICK verdict \in Verdicts :
          \E n \in Present(Answered(verdict)) :
             \E status \in {"pending", "in-progress", "blocked", Answered(verdict).st[n]} :
                Ends(Update(Answered(verdict), n, status), "directive", TRUE)
  BY DEF Updates
<1>3. PICK a \in Trees : a = Answered(verdict) /\ Whole(a) /\ Stirs(Job.tree, a)
  BY <1>1, Answers
<1>4. PICK n \in Present(a) :
          \E status \in {"pending", "in-progress", "blocked", a.st[n]} :
             Ends(Update(a, n, status), "directive", TRUE)
  BY <1>2, <1>3
<1>5. PICK status \in {"pending", "in-progress", "blocked", a.st[n]} :
          Ends(Update(a, n, status), "directive", TRUE)
  BY <1>4
<1>6. PICK c \in Trees : c = Update(a, n, status) /\ Steps(a, c)
  BY <1>3, UpdateSteps, OpensSteps
<1>7. Steps(Job.tree, c)
  BY <1>1, <1>3, <1>6, JobFits, StirsThenSteps
<1>8. Ends(c, "directive", TRUE)
  BY <1>5, <1>6
<1> QED
  BY <1>7, <1>8 DEF Brings, Decided, Moves

LEMMA CreatesEnds ==
    ASSUME Inv, Creates
    PROVE  \E c \in Trees, move \in Moves, again \in BOOLEAN : Brings(c, move, again)
<1>1. items # << >>
  BY DEF Creates, Window
<1>2. PICK verdict \in Verdicts :
          \E p \in Present(Answered(verdict)), n \in FreshNode(Answered(verdict)) :
             LET one == Create(Answered(verdict), p, n, TRUE) IN
             \/ Ends(one, "directive", TRUE)
             \/ \E q \in Present(Answered(verdict)), m \in FreshNode(one) :
                   Ends(Create(one, q, m, FALSE), "directive", TRUE)
  BY DEF Creates
<1>3. PICK a \in Trees : a = Answered(verdict) /\ Whole(a) /\ Stirs(Job.tree, a)
  BY <1>1, Answers
<1>4. PICK p \in Present(a), n \in FreshNode(a) :
          \/ Ends(Create(a, p, n, TRUE), "directive", TRUE)
          \/ \E q \in Present(a), m \in FreshNode(Create(a, p, n, TRUE)) :
                Ends(Create(Create(a, p, n, TRUE), q, m, FALSE), "directive", TRUE)
  BY <1>2, <1>3
<1>5. PICK one \in Trees : /\ one = Create(a, p, n, TRUE) /\ Whole(one) /\ Opens(a, one)
                           /\ Present(a) \subseteq Present(one)
  BY <1>3, CreateSteps
<1>6. Steps(Job.tree, one)
  BY <1>1, <1>3, <1>5, JobFits, StirsThenSteps, OpensSteps
<1>7. CASE Ends(one, "directive", TRUE)
  BY <1>6, <1>7 DEF Brings, Decided, Moves
<1>8. CASE \E q \in Present(a), m \in FreshNode(one) :
              Ends(Create(one, q, m, FALSE), "directive", TRUE)
  <2>1. PICK q \in Present(a), m \in FreshNode(one) :
            Ends(Create(one, q, m, FALSE), "directive", TRUE)
    BY <1>8
  <2>2. q \in Present(one)
    BY <1>5
  <2>3. PICK two \in Trees : two = Create(one, q, m, FALSE) /\ Whole(two) /\ Opens(one, two)
    BY <1>5, <2>1, <2>2, CreateSteps
  <2>4. Opens(a, two)
    BY <1>5, <2>3 DEF Opens
  <2>5. Steps(Job.tree, two)
    BY <1>1, <1>3, <2>3, <2>4, JobFits, StirsThenSteps, OpensSteps
  <2>6. Ends(two, "directive", TRUE)
    BY <2>1, <2>3
  <2> QED
    BY <2>5, <2>6 DEF Brings, Decided, Moves
<1> QED
  BY <1>4, <1>5, <1>7, <1>8

LEMMA SkipsEnds ==
    ASSUME Inv, Skips
    PROVE  \E c \in Trees, move \in Moves, again \in BOOLEAN : Brings(c, move, again)
<1>1. items # << >>
  BY DEF Skips, Window
<1>2. PICK verdict \in Verdicts :
          \E which \in SUBSET (Present(Answered(verdict)) \ {Root}) \ {{}}, confirmed \in BOOLEAN :
             Ends(Skip(Answered(verdict), which, confirmed), "directive", TRUE)
  BY DEF Skips
<1>3. PICK a \in Trees : a = Answered(verdict) /\ Whole(a) /\ Stirs(Job.tree, a)
  BY <1>1, Answers
<1>4. PICK which \in SUBSET (Present(a) \ {Root}), confirmed \in BOOLEAN :
          Ends(Skip(a, which, confirmed), "directive", TRUE)
  BY <1>2, <1>3
<1>5. PICK c \in Trees : c = Skip(a, which, confirmed) /\ Steps(a, c)
  BY <1>3, SkipSteps
<1>6. Steps(Job.tree, c)
  BY <1>1, <1>3, <1>5, JobFits, StirsThenSteps
<1>7. Ends(c, "directive", TRUE)
  BY <1>4, <1>5
<1> QED
  BY <1>6, <1>7 DEF Brings, Decided, Moves

\* The window closes the current node and goes up, or delivers at the root.
LEMMA ClimbsEnds ==
    ASSUME Inv, items # << >>,
           NEW a \in Trees, Whole(a), Stirs(Job.tree, a), a.cur = Job.tree.cur,
           NEW c \in Trees, Steps(a, c), a.up[a.cur] = None => c.cur = Root,
           Ends(c, Moved(a), a.up[a.cur] # None)
    PROVE  \E move \in Moves, again \in BOOLEAN : Brings(c, move, again)
<1>1. Steps(Job.tree, c)
  BY JobFits, StirsThenSteps
<1>2. a.up[Root] = None
  BY WholeTree
<1>3. CASE a.up[a.cur] = None
  <2>1. Ends(c, "delivery", FALSE)
    BY <1>3 DEF Moved
  <2>2. Decided(c, "delivery", FALSE)
    BY <1>3 DEF Decided, Stopped
  <2> QED
    BY <1>1, <2>1, <2>2 DEF Brings, Moves
<1>4. CASE a.up[a.cur] # None
  <2>1. Ends(c, "bubble", TRUE)
    BY <1>4 DEF Moved
  <2>2. Job.tree.cur # Root
    BY <1>2, <1>4
  <2> QED
    BY <1>1, <2>1, <2>2 DEF Brings, Decided, Moves
<1> QED
  BY <1>3, <1>4

LEMMA CompletesEnds ==
    ASSUME Inv, Completes
    PROVE  \E c \in Trees, move \in Moves, again \in BOOLEAN : Brings(c, move, again)
<1>1. items # << >>
  BY DEF Completes, Window
<1>2. PICK verdict \in Verdicts :
          Ends(Complete(Answered(verdict)), Moved(Answered(verdict)),
               Answered(verdict).up[Answered(verdict).cur] # None)
  BY DEF Completes
<1>3. PICK a \in Trees : /\ a = Answered(verdict) /\ Whole(a) /\ Stirs(Job.tree, a)
                         /\ a.cur = Job.tree.cur
  BY <1>1, Answers
<1>4. PICK c \in Trees : /\ c = Complete(a) /\ Steps(a, c)
                         /\ a.up[a.cur] = None => c.cur = Root
  BY <1>3, CompleteSteps
<1>5. Ends(c, Moved(a), a.up[a.cur] # None)
  BY <1>2, <1>3, <1>4
<1> QED
  BY <1>1, <1>3, <1>4, <1>5, ClimbsEnds

LEMMA FailsEnds ==
    ASSUME Inv, Fails
    PROVE  \E c \in Trees, move \in Moves, again \in BOOLEAN : Brings(c, move, again)
<1>1. items # << >>
  BY DEF Fails, Window
<1>2. PICK verdict \in Verdicts :
          Ends(FailCurrent(Answered(verdict)), Moved(Answered(verdict)),
               Answered(verdict).up[Answered(verdict).cur] # None)
  BY DEF Fails
<1>3. PICK a \in Trees : /\ a = Answered(verdict) /\ Whole(a) /\ Stirs(Job.tree, a)
                         /\ a.cur = Job.tree.cur
  BY <1>1, Answers
<1>4. PICK c \in Trees : /\ c = FailCurrent(a) /\ Steps(a, c)
                         /\ a.up[a.cur] = None => c.cur = Root
  BY <1>3, FailSteps, OpensSteps
<1>5. Ends(c, Moved(a), a.up[a.cur] # None)
  BY <1>2, <1>3, <1>4
<1> QED
  BY <1>1, <1>3, <1>4, <1>5, ClimbsEnds

LEMMA IsAskedEnds ==
    ASSUME Inv, IsAskedForDirective
    PROVE  \E c \in Trees, move \in Moves, again \in BOOLEAN : Brings(c, move, again)
<1>1. items # << >>
  BY DEF IsAskedForDirective, Window
<1>2. PICK verdict \in Verdicts : Ends(Answered(verdict), "directive", TRUE)
  BY DEF IsAskedForDirective
<1>3. PICK a \in Trees : a = Answered(verdict) /\ Whole(a) /\ Stirs(Job.tree, a)
  BY <1>1, Answers
<1>4. Steps(Job.tree, a)
  BY <1>1, <1>3, JobFits, StirsOpens, OpensSteps
<1>5. Ends(a, "directive", TRUE)
  BY <1>2, <1>3
<1> QED
  BY <1>4, <1>5 DEF Brings, Decided, Moves

LEMMA DeliversEnds ==
    ASSUME Inv, Delivers
    PROVE  \E c \in Trees, move \in Moves, again \in BOOLEAN : Brings(c, move, again)
<1>1. items # << >>
  BY DEF Delivers, Window
<1>2. PICK verdict \in Verdicts : LET w == Answered(verdict) IN
          \/ /\ w.prot = "completed" \/ w.tree = "completed"
             /\ Ends(w, "delivery", FALSE)
          \/ Ends(w, "orchestrate", TRUE)
          \/ Ends(w, "gate", TRUE)
          \/ Ends(Complete(w), Moved(w), w.up[w.cur] # None)
  BY DEF Delivers
<1>3. PICK a \in Trees : /\ a = Answered(verdict) /\ Whole(a) /\ Stirs(Job.tree, a)
                         /\ a.cur = Job.tree.cur
                         /\ a.gated => a.tree = "verified" /\ a.prot = "verified"
  BY <1>1, Answers
<1>4. Steps(Job.tree, a)
  BY <1>1, <1>3, JobFits, StirsOpens, OpensSteps
<1>5. \/ (a.prot = "completed" \/ a.tree = "completed") /\ Ends(a, "delivery", FALSE)
      \/ Ends(a, "orchestrate", TRUE)
      \/ Ends(a, "gate", TRUE)
      \/ Ends(Complete(a), Moved(a), a.up[a.cur] # None)
  BY <1>2, <1>3
<1>6. CASE (a.prot = "completed" \/ a.tree = "completed") /\ Ends(a, "delivery", FALSE)
  <2>1. Decided(a, "delivery", FALSE)
    BY <1>3, <1>6 DEF Decided
  <2> QED
    BY <1>4, <1>6, <2>1 DEF Brings, Moves
<1>7. CASE Ends(a, "orchestrate", TRUE)
  BY <1>4, <1>7 DEF Brings, Decided, Moves
<1>8. CASE Ends(a, "gate", TRUE)
  BY <1>4, <1>8 DEF Brings, Decided, Moves
<1>9. CASE Ends(Complete(a), Moved(a), a.up[a.cur] # None)
  <2>1. PICK c \in Trees : /\ c = Complete(a) /\ Steps(a, c)
                           /\ a.up[a.cur] = None => c.cur = Root
    BY <1>3, CompleteSteps
  <2>2. Ends(c, Moved(a), a.up[a.cur] # None)
    BY <1>9, <2>1
  <2> QED
    BY <1>1, <1>3, <2>1, <2>2, ClimbsEnds
<1> QED
  BY <1>5, <1>6, <1>7, <1>8, <1>9

-----------------------------------------------------------------------------
(***************************************************************************)
(* The invariant.                                                          *)
(***************************************************************************)
Directed ==
    \/ Enters \/ Updates \/ Creates \/ Skips \/ Completes \/ Fails
    \/ IsAskedForDirective \/ Delivers

LEMMA WindowsBring ==
    ASSUME Inv, Directed
    PROVE  \E c \in Trees, move \in Moves, again \in BOOLEAN : Brings(c, move, again)
BY EntersEnds, UpdatesEnds, CreatesEnds, SkipsEnds, CompletesEnds, FailsEnds, IsAskedEnds,
   DeliversEnds DEF Directed

LEMMA DirectedWindow ==
    ASSUME Directed
    PROVE  Window
BY DEF Directed, Enters, Updates, Creates, Skips, Completes, Fails, IsAskedForDirective, Delivers

LEMMA Queued ==
    ASSUME NEW q \in Seq(Fit), NEW p \in Fit
    PROVE  /\ q \o <<p>> \in Seq(Fit) /\ Len(q \o <<p>>) = Len(q) + 1
           /\ (q \o <<p>>)[Len(q \o <<p>>)] = p /\ q \o <<p>> # << >>
           /\ Append(q, p) \in Seq(Fit) /\ Len(Append(q, p)) = Len(q) + 1 /\ Append(q, p) # << >>
           /\ q \o << >> = q
           /\ Len(q) \in Nat
OBVIOUS

LEMMA TailFits ==
    ASSUME Inv, items # << >>
    PROVE  /\ Tail(items) \in Seq(Fit) /\ Len(Tail(items)) + 1 = Len(items)
           /\ Len(items) \in Nat /\ Len(items) <= MaxItems /\ MaxItems \in Nat
BY TakeoverAssumption DEF Inv, Kinds, TakeoverAssumption

LEMMA ChildLinks ==
    ASSUME Inv, NewRun
    PROVE  /\ child' \in [run : Launches, tree : Trees \cup {None}]
           /\ child'.run # "latest"
           /\ child'.run = "older" => child'.tree # None
           /\ child'.tree # None => Whole(child'.tree)
<1>1. CASE child.run = "latest"
  <2>1. child' = [run |-> "older", tree |-> file]
    BY <1>1 DEF NewRun
  <2>2. file \in Trees /\ file # None /\ Whole(file)
    BY <1>1, NoneIsNoTree DEF Inv, Kinds, Links
  <2>3. PICK f \in Trees : f = file
    BY <2>2
  <2> QED
    BY <2>1, <2>2, <2>3 DEF Launches
<1>2. CASE child.run # "latest"
  <2>1. child' = child
    BY <1>2 DEF NewRun
  <2> QED
    BY <1>2, <2>1 DEF Inv, Kinds, Links
<1> QED
  BY <1>1, <1>2

\* A window leaves its file, what it queues and no sub-agent on the latest run.
LEMMA WindowInv ==
    ASSUME Inv, Window, NewRun, NEW v \in Trees, Whole(v), file' = v,
           task' \in TaskStatuses \ {"draft"},
           items' \in Seq(Fit), Len(items') <= MaxItems,
           task' = "awaiting-approval" /\ v.tree = "awaiting-approval" => ~v.gated
    PROVE  Inv'
<1>1. /\ child' \in [run : Launches, tree : Trees \cup {None}]
      /\ child'.run # "latest"
      /\ child'.run = "older" => child'.tree # None
      /\ child'.tree # None => Whole(child'.tree)
  BY ChildLinks
<1>2. windows' \in Nat /\ requests' \in Nat /\ windows' + requests' <= MaxSteps /\ lost' \in 0 .. MaxLost
  <2>1. windows \in Nat /\ requests \in Nat /\ lost \in 0 .. MaxLost /\ MaxSteps \in Nat /\ MaxLost \in Nat
    BY TakeoverAssumption DEF Inv, Kinds, TakeoverAssumption
  <2>2. windows + requests < MaxSteps /\ windows' = windows + 1 /\ requests' = requests /\ lost' = lost
    BY DEF Window
  <2> QED
    BY <2>1, <2>2
<1>3. file' \in Trees /\ file' # None
  BY TreeTypes
<1>4. Kinds'
  BY <1>1, <1>2, <1>3 DEF Kinds
<1>5. Links'
  BY <1>1, <1>3 DEF Links
<1>6. GatesInv'
  BY DEF GatesInv
<1> QED
  BY <1>4, <1>5, <1>6 DEF Inv

LEMMA BringsInv ==
    ASSUME Inv, Window, NEW c \in Trees, NEW move \in Moves, NEW again \in BOOLEAN,
           Brings(c, move, again)
    PROVE  Inv'
<1>1. items # << >>
  BY DEF Window
<1>2. PICK v \in Trees :
          /\ Leaves(c, v) /\ file' = v /\ NewRun
          /\ \/ \E retried \in BOOLEAN : GoesOn(retried)
             \/ \E status \in {"awaiting-approval", "resume-blocked", "completed"} :
                   Stops(status, c, v, move)
  BY EndsOutcome DEF Brings, Steps
<1>3. CASE \E retried \in BOOLEAN : GoesOn(retried)
  <2>1. PICK retried \in BOOLEAN : GoesOn(retried)
    BY <1>3
  <2>2. PICK w \in Trees : Whole(w) /\ items' = Tail(items) \o <<Continuation(w, retried)>>
    BY <2>1 DEF GoesOn
  <2>3. PICK p \in Fit : p = Continuation(w, retried)
    BY <2>2, ContinuationFits
  <2>4. PICK q \in Seq(Fit) : q = Tail(items)
    BY <1>1, TailFits
  <2>5. items' \in Seq(Fit) /\ Len(items') <= MaxItems
    <3>1. items' = q \o <<p>>
      BY <2>2, <2>3, <2>4
    <3> QED
      BY <1>1, <2>4, <3>1, Queued, TailFits
  <2>6. task' = "queued"
    BY <2>1 DEF GoesOn
  <2> QED
    BY <1>2, <2>5, <2>6, WindowInv DEF Leaves, TaskStatuses
<1>4. CASE \E status \in {"awaiting-approval", "resume-blocked", "completed"} :
              Stops(status, c, v, move)
  <2>1. PICK status \in {"awaiting-approval", "resume-blocked", "completed"} :
            Stops(status, c, v, move)
    BY <1>4
  <2>2. PICK q \in Seq(Fit) : q = Tail(items)
    BY <1>1, TailFits
  <2>3. items' = q
    BY <2>1, <2>2, Queued DEF Stops
  <2>4. items' \in Seq(Fit) /\ Len(items') <= MaxItems
    BY <1>1, <2>2, <2>3, TailFits, Queued
  <2>5. /\ task' = status
        /\ task' = "awaiting-approval" /\ v.tree = "awaiting-approval" => ~v.gated
    BY <2>1 DEF Stops
  <2> QED
    BY <1>2, <2>4, <2>5, WindowInv DEF Leaves, TaskStatuses
<1> QED
  BY <1>2, <1>3, <1>4

LEMMA InvocationFailsInv ==
    ASSUME Inv, InvocationFails
    PROVE  Inv'
<1>1. items # << >> /\ Window
  BY DEF InvocationFails, Window
<1>2. PICK w \in Trees : w = FailCurrent(Loaded) /\ Whole(w)
  BY <1>1, JobFits, NormalizeSteps, FailSteps DEF Loaded
<1>3. \/ w.tree = "failed" /\ Outcome("failed", w, << >>)
      \/ Outcome("queued", w, <<Continuation(w, FALSE)>>)
  BY <1>2 DEF InvocationFails
<1>4. PICK q \in Seq(Fit) : q = Tail(items)
  BY <1>1, TailFits
<1>5. CASE w.tree = "failed" /\ Outcome("failed", w, << >>)
  <2>1. task' = "failed" /\ file' = w /\ items' = q /\ NewRun
    BY <1>4, <1>5, Queued DEF Outcome
  <2>2. items' \in Seq(Fit) /\ Len(items') <= MaxItems
    BY <1>1, <1>4, <2>1, TailFits, Queued
  <2> QED
    BY <1>1, <1>2, <2>1, <2>2, WindowInv DEF TaskStatuses
<1>6. CASE Outcome("queued", w, <<Continuation(w, FALSE)>>)
  <2>1. PICK p \in Fit : p = Continuation(w, FALSE)
    BY <1>2, ContinuationFits
  <2>2. task' = "queued" /\ file' = w /\ items' = q \o <<p>> /\ NewRun
    BY <1>4, <1>6, <2>1 DEF Outcome
  <2>3. items' \in Seq(Fit) /\ Len(items') <= MaxItems
    BY <1>1, <1>4, <2>2, TailFits, Queued
  <2> QED
    BY <1>1, <1>2, <2>2, <2>3, WindowInv DEF TaskStatuses
<1> QED
  BY <1>3, <1>5, <1>6

LEMMA BreaksInv ==
    ASSUME Inv, Breaks
    PROVE  Inv'
<1>1. items # << >> /\ Window
  BY DEF Breaks, Window
<1>2. PICK w : (w = Loaded \/ \E verdict \in Verdicts : w = Answered(verdict)) /\ file' = FailCurrent(w)
  BY DEF Breaks
<1>3. w \in Trees /\ Whole(w)
  <2>1. CASE w = Loaded
    BY <1>1, <2>1, JobFits, NormalizeSteps DEF Loaded
  <2>2. CASE \E verdict \in Verdicts : w = Answered(verdict)
    <3>1. PICK verdict \in Verdicts : w = Answered(verdict)
      BY <2>2
    <3> QED
      BY <1>1, <3>1, Answers
  <2> QED
    BY <1>2, <2>1, <2>2
<1>4. PICK v \in Trees : v = FailCurrent(w) /\ Whole(v)
  BY <1>3, FailSteps
<1>5. PICK q \in Seq(Fit) : q = Tail(items)
  BY <1>1, TailFits
<1>6. items' = q /\ task' = "failed" /\ child' = child /\ file' = v
  BY <1>2, <1>4, <1>5 DEF Breaks
<1>7. items' \in Seq(Fit) /\ Len(items') <= MaxItems
  BY <1>1, <1>5, <1>6, TailFits, Queued
<1>8. windows' \in Nat /\ requests' \in Nat /\ windows' + requests' <= MaxSteps /\ lost' \in 0 .. MaxLost
  <2>1. windows \in Nat /\ requests \in Nat /\ lost \in 0 .. MaxLost /\ MaxSteps \in Nat /\ MaxLost \in Nat
    BY TakeoverAssumption DEF Inv, Kinds, TakeoverAssumption
  <2>2. windows + requests < MaxSteps /\ windows' = windows + 1 /\ requests' = requests /\ lost' = lost
    BY <1>1 DEF Window
  <2> QED
    BY <2>1, <2>2
<1>9. file' \in Trees /\ file' # None
  BY <1>6, TreeTypes
<1>10. Kinds'
  BY <1>6, <1>7, <1>8, <1>9 DEF Inv, Kinds, TaskStatuses
<1>11. Links'
  BY <1>4, <1>6, <1>9 DEF Inv, Links
<1>12. GatesInv'
  BY <1>6 DEF GatesInv
<1> QED
  BY <1>10, <1>11, <1>12 DEF Inv

-----------------------------------------------------------------------------
(***************************************************************************)
(* Requests.                                                               *)
(***************************************************************************)
LEMMA RequestedBounds ==
    ASSUME Inv, Requested, windows' = windows
    PROVE  windows' \in Nat /\ requests' \in Nat /\ windows' + requests' <= MaxSteps
<1>1. windows \in Nat /\ requests \in Nat /\ MaxSteps \in Nat
  BY TakeoverAssumption DEF Inv, Kinds, TakeoverAssumption
<1> QED
  BY <1>1 DEF Requested

\* A lost commit leaves the count within its bound.
LEMMA LostBound ==
    ASSUME Inv, lost' = lost \/ (lost < MaxLost /\ lost' = lost + 1)
    PROVE  lost' \in 0 .. MaxLost
<1>1. lost \in 0 .. MaxLost /\ MaxLost \in Nat
  BY TakeoverAssumption DEF Inv, Kinds, TakeoverAssumption
<1> QED
  BY <1>1

LEMMA EnqueuedFits ==
    ASSUME Inv, NEW p \in Fit, Enqueue(p)
    PROVE  items' \in Seq(Fit) /\ Len(items') <= MaxItems /\ items' # << >>
<1>1. PICK q \in Seq(Fit) : q = items
  BY DEF Inv, Kinds
<1>2. items' = Append(q, p) /\ Len(q) < MaxItems /\ MaxItems \in Nat
  BY <1>1, TakeoverAssumption DEF Enqueue, TakeoverAssumption
<1> QED
  BY <1>2, Queued

LEMMA StartInv ==
    ASSUME Inv, Start
    PROVE  Inv'
<1>1. PICK last \in Plans, asks \in BOOLEAN : Enqueue(Payload(Seed(last, asks), asks, 0))
  BY DEF Start
<1>2. PICK p \in Fit : p = Payload(Seed(last, asks), asks, 0)
  BY SeedFits
<1>3. Enqueue(p)
  BY <1>1, <1>2
<1>4. items' \in Seq(Fit) /\ Len(items') <= MaxItems /\ items' # << >>
  BY <1>3, EnqueuedFits
<1>5. /\ task' = "queued" /\ file' = file /\ child' = child /\ windows' = windows /\ lost' = lost
      /\ Requested
  BY DEF Start
<1>6. windows' \in Nat /\ requests' \in Nat /\ windows' + requests' <= MaxSteps
  BY <1>5, RequestedBounds
<1>7. Kinds'
  BY <1>4, <1>5, <1>6 DEF Inv, Kinds, TaskStatuses
<1>8. Links'
  BY <1>4, <1>5 DEF Inv, Links
<1>9. GatesInv'
  BY <1>5 DEF GatesInv
<1> QED
  BY <1>7, <1>8, <1>9 DEF Inv

\* There is a file to approve or reopen.
LEMMA FileThere ==
    ASSUME Inv, task \notin {"draft", "queued"}
    PROVE  file \in Trees /\ Whole(file)
BY DEF Inv, Kinds, Links

LEMMA ApproveInv ==
    ASSUME Inv, Approve
    PROVE  Inv'
<1>1. task = "awaiting-approval" /\ file' = Approved(file)
  BY DEF Approve
<1>2. PICK v \in Trees : file' = v /\ Whole(v) /\ v.tree # "awaiting-approval"
  BY <1>1, FileThere, ApprovedWhole
<1>3. /\ child' = child /\ windows' = windows /\ requests' = requests /\ items' = items
      /\ task' \in {"completed", "awaiting-approval"}
      /\ lost' = lost \/ (lost < MaxLost /\ lost' = lost + 1)
  BY <1>1 DEF Approve, Commits
<1>4. lost' \in 0 .. MaxLost
  BY <1>3, LostBound
<1>5. file' \in Trees /\ file' # None
  BY <1>2, TreeTypes
<1>6. Kinds'
  BY <1>3, <1>4, <1>5 DEF Inv, Kinds, TaskStatuses
<1>7. Links'
  BY <1>2, <1>3, <1>5 DEF Inv, Links
<1>8. GatesInv'
  BY <1>2 DEF GatesInv
<1> QED
  BY <1>6, <1>7, <1>8 DEF Inv

LEMMA ReopensInv ==
    ASSUME Inv, Reopenable, NEW n \in Present(file), Reopens(n)
    PROVE  Inv'
<1>1. task \in {"awaiting-approval", "completed"}
  BY DEF Reopenable
<1>2. PICK v \in Trees : v = Reopen(file, n) /\ Whole(v) /\ v.tree = "active"
  BY <1>1, FileThere, ReopenWhole
<1>3. PICK p \in Fit : p = Payload(Reopen(file, n), FALSE, 0)
  BY <1>2, PlainFits
<1>4. /\ Requested /\ file' = v /\ child' = child /\ windows' = windows
      /\ \/ task' = "queued" /\ Enqueue(p) /\ lost' = lost
         \/ lost < MaxLost /\ lost' = lost + 1 /\ task' = task /\ items' = items
  BY <1>2, <1>3 DEF Reopens, Commits
<1>5. windows' \in Nat /\ requests' \in Nat /\ windows' + requests' <= MaxSteps
  BY <1>4, RequestedBounds
<1>6. lost' \in 0 .. MaxLost
  BY <1>4, LostBound
<1>7. items' \in Seq(Fit) /\ Len(items') <= MaxItems
  BY <1>4, EnqueuedFits DEF Inv, Kinds
<1>8. task' \in TaskStatuses
  BY <1>4 DEF Inv, Kinds, TaskStatuses
<1>9. file' \in Trees /\ file' # None
  BY <1>4, TreeTypes
<1>10. Kinds'
  BY <1>4, <1>5, <1>6, <1>7, <1>8, <1>9 DEF Inv, Kinds
<1>11. Links'
  BY <1>2, <1>4, <1>9 DEF Inv, Links
<1>12. GatesInv'
  BY <1>2, <1>4 DEF GatesInv
<1> QED
  BY <1>10, <1>11, <1>12 DEF Inv

\* A revision starts at a node of the tree, and where work is open at or above
\* an open one.
LEMMA TargetsReach ==
    ASSUME NEW w \in Trees, Whole(w), NEW n \in RevisionTargets(w)
    PROVE  /\ n \in Present(w)
           /\ Open(w) # {} => OpenUnder(w, n) # {}
<1> DEFINE c == w.cur
           p == w.up[c]
<1>1. /\ c \in Present(w) /\ Root \in Present(w) /\ Open(w) \subseteq Present(w)
      /\ p # None => p \in Present(w) /\ c # Root
  BY WholeTree DEF Open
<1>2. \A m \in Present(w) : Kids(w, m) \subseteq Below(w, m)
  BY BelowClosed
<1>3. \/ Open(w) \cap Kids(w, c) # {} /\ n = c
      \/ p # None /\ (\E s \in Kids(w, p) \ {c} : OpenUnder(w, s) # {}) /\ n = p
      \/ p # None /\ p \in Open(w) /\ n = p
      \/ OpenUnder(w, c) # {} /\ n = c
      \/ Open(w) = {} /\ n = c
      \/ Open(w) = {Root} /\ n = Root
      \/ \E m \in Oldest(Open(w) \ {Root}) : n = w.up[m]
  BY DEF RevisionTargets
<1>4. CASE Open(w) \cap Kids(w, c) # {} /\ n = c
  BY <1>1, <1>2, <1>4 DEF OpenUnder
<1>5. CASE p # None /\ (\E s \in Kids(w, p) \ {c} : OpenUnder(w, s) # {}) /\ n = p
  <2>1. PICK s \in Kids(w, p) \ {c} : OpenUnder(w, s) # {}
    BY <1>5
  <2>2. s \in Below(w, p) /\ Below(w, s) \subseteq Below(w, p)
    BY <1>1, <1>2, <1>5, BelowBelow
  <2>3. OpenUnder(w, s) \subseteq OpenUnder(w, p)
    BY <2>2 DEF OpenUnder
  <2> QED
    BY <1>1, <1>5, <2>1, <2>3
<1>6. CASE p # None /\ p \in Open(w) /\ n = p
  BY <1>1, <1>6 DEF OpenUnder
<1>7. CASE OpenUnder(w, c) # {} /\ n = c
  BY <1>1, <1>7
<1>8. CASE Open(w) = {} /\ n = c
  BY <1>1, <1>8
<1>9. CASE Open(w) = {Root} /\ n = Root
  BY <1>1, <1>9 DEF OpenUnder
<1>10. CASE \E m \in Oldest(Open(w) \ {Root}) : n = w.up[m]
  <2>1. PICK m \in Oldest(Open(w) \ {Root}) : n = w.up[m]
    BY <1>10
  <2>2. m \in Open(w) /\ m \in Present(w) \ {Root}
    BY <1>1, <2>1 DEF Oldest
  <2>3. n \in Present(w)
    BY <2>1, <2>2, WholeTree
  <2>4. m \in Kids(w, n)
    BY <2>1, <2>2 DEF Kids
  <2> QED
    BY <1>2, <2>2, <2>3, <2>4 DEF OpenUnder
<1> QED
  BY <1>3, <1>4, <1>5, <1>6, <1>7, <1>8, <1>9, <1>10

LEMMA ReviseInv ==
    ASSUME Inv, Revise \/ ReviseNode
    PROVE  Inv'
<1>1. Reopenable /\ task \notin {"draft", "queued"}
  BY DEF Revise, ReviseNode, Reopenable
<1>2. PICK f \in Trees : f = file /\ Whole(f)
  BY <1>1, FileThere
<1>3. PICK n \in Present(file) : Reopens(n)
  BY <1>2, TargetsReach DEF Revise, ReviseNode
<1> QED
  BY <1>1, <1>3, ReopensInv

LEMMA LaunchInv ==
    ASSUME Inv, Launch
    PROVE  Inv'
<1>1. /\ file # None /\ child' = [run |-> "latest", tree |-> None]
      /\ task' = task /\ items' = items /\ file' = file
      /\ windows' = windows /\ requests' = requests /\ lost' = lost
  BY DEF Launch, bounds
<1>2. Kinds'
  BY <1>1 DEF Inv, Kinds, Launches
<1>3. Links'
  BY <1>1 DEF Inv, Links
<1>4. GatesInv'
  BY <1>1 DEF Inv, GatesInv
<1> QED
  BY <1>2, <1>3, <1>4 DEF Inv

LEMMA ReportInv ==
    ASSUME Inv, Report
    PROVE  Inv'
<1> DEFINE seen == IF child.run = "latest" THEN file ELSE child.tree
<1>1. seen \in Trees /\ Whole(seen)
  BY DEF Report, Inv, Kinds, Links, Launches
<1>2. PICK n \in Present(seen) :
          /\ file' = IF child.run = "latest" THEN Merge(seen, n) ELSE file
          /\ IF task = "queued" THEN Enqueue(Payload(Merge(seen, n), FALSE, 0))
             ELSE items' = items
  BY DEF Report
<1>3. PICK v \in Trees :
          /\ v = Merge(seen, n) /\ Whole(v)
          /\ v.tree = "awaiting-approval" => seen.tree = "awaiting-approval"
          /\ v.gated = seen.gated
  BY <1>1, MergeWhole
<1>4. PICK p \in Fit : p = Payload(v, FALSE, 0)
  BY <1>3, PlainFits
<1>5. /\ Requested /\ child' = NoChild /\ task' = task /\ windows' = windows /\ lost' = lost
      /\ child.run # "none"
      /\ (task = "queued" /\ Enqueue(p)) \/ (task # "queued" /\ items' = items)
  BY <1>2, <1>3, <1>4 DEF Report
<1>6. windows' \in Nat /\ requests' \in Nat /\ windows' + requests' <= MaxSteps
  BY <1>5, RequestedBounds
<1>7. items' \in Seq(Fit) /\ Len(items') <= MaxItems /\ (items' # << >> \/ items' = items)
  BY <1>5, EnqueuedFits DEF Inv, Kinds
<1>8. child' = [run |-> "none", tree |-> None]
  BY <1>5 DEF NoChild
<1>9. CASE child.run = "latest"
  <2>1. file' = v /\ file' \in Trees /\ file' # None /\ file # None /\ v.gated = file.gated
    BY <1>2, <1>3, <1>9, TreeTypes DEF Inv, Links
  <2>2. Kinds'
    BY <1>5, <1>6, <1>7, <1>8, <2>1 DEF Inv, Kinds, Launches
  <2>3. Links'
    BY <1>3, <1>8, <2>1 DEF Links
  <2>4. GatesInv'
    BY <1>3, <1>5, <1>9, <2>1 DEF Inv, GatesInv
  <2> QED
    BY <2>2, <2>3, <2>4 DEF Inv
<1>10. CASE child.run # "latest"
  <2>1. file' = file
    BY <1>2, <1>10
  <2>2. Kinds'
    BY <1>5, <1>6, <1>7, <1>8, <2>1 DEF Inv, Kinds, Launches
  <2>3. Links'
    BY <1>5, <1>7, <1>8, <2>1 DEF Inv, Links
  <2>4. GatesInv'
    BY <1>5, <2>1 DEF Inv, GatesInv
  <2> QED
    BY <2>2, <2>3, <2>4 DEF Inv
<1> QED
  BY <1>9, <1>10

-----------------------------------------------------------------------------
(***************************************************************************)
(* Theorems.                                                               *)
(***************************************************************************)
LEMMA InitInv == Init => Inv
<1> SUFFICES ASSUME Init PROVE Inv
  OBVIOUS
<1>1. Kinds
  BY TakeoverAssumption DEF Init, Kinds, NoChild, Launches, TaskStatuses, TakeoverAssumption
<1>2. Links
  BY DEF Init, Links, NoChild
<1>3. GatesInv
  BY DEF Init, GatesInv
<1> QED
  BY <1>1, <1>2, <1>3 DEF Inv

LEMMA NextInv == Inv /\ [Next]_vars => Inv'
<1> SUFFICES ASSUME Inv, [Next]_vars PROVE Inv'
  OBVIOUS
<1>1. CASE Start
  BY <1>1, StartInv
<1>2. CASE Approve
  BY <1>2, ApproveInv
<1>3. CASE Revise \/ ReviseNode
  BY <1>3, ReviseInv
<1>4. CASE Launch
  BY <1>4, LaunchInv
<1>5. CASE Report
  BY <1>5, ReportInv
<1>6. CASE Directed
  <2>1. PICK c \in Trees, move \in Moves, again \in BOOLEAN : Brings(c, move, again)
    BY <1>6, WindowsBring
  <2> QED
    BY <1>6, <2>1, DirectedWindow, BringsInv
<1>7. CASE InvocationFails
  BY <1>7, InvocationFailsInv
<1>8. CASE Breaks
  BY <1>8, BreaksInv
<1>9. CASE UNCHANGED vars
  BY <1>9 DEF vars, Inv, Kinds, Links, GatesInv
<1> QED
  BY <1>1, <1>2, <1>3, <1>4, <1>5, <1>6, <1>7, <1>8, <1>9 DEF Next, Directed

THEOREM Invariance == Spec => []Inv
<1>1. Init => Inv
  BY InitInv
<1>2. Inv /\ [Next]_vars => Inv'
  BY NextInv
<1> QED
  BY <1>1, <1>2, PTL DEF Spec

\* Every copy of a tree is a tree: one root, and every other node hangs on an
\* older one (TypeOK).
THEOREM TypeCorrect == Spec => []TypeOK
<1>1. Inv => TypeOK
  <2> SUFFICES ASSUME Inv PROVE TypeOK
    OBVIOUS
  <2>1. Fit \subseteq Payloads
    BY DEF Fit
  <2>2. items \in Seq(Payloads)
    BY <2>1 DEF Inv, Kinds
  <2>3. \A i \in 1 .. Len(items) : items[i] \in Fit
    BY DEF Inv, Kinds
  <2>4. \A i \in 1 .. Len(items) : Sound(items[i].tree)
    BY <2>3 DEF Fit, Whole, Good
  <2> QED
    BY <2>2, <2>4 DEF Inv, Kinds, Links, TypeOK, Whole, Good
<1> QED
  BY <1>1, Invariance, PTL

\* A tree is put up for approval only when every node of it is finished.
THEOREM ApprovalWaitsForAll == Spec => []AwaitingMeansDone
<1>1. Inv => AwaitingMeansDone
  <2> SUFFICES ASSUME Inv PROVE AwaitingMeansDone
    OBVIOUS
  <2>1. \A i \in 1 .. Len(items) : items[i] \in Fit
    BY DEF Inv, Kinds
  <2>2. \A w \in Copies \ {None} : Whole(w)
    BY <2>1 DEF Copies, Fit, Inv, Links
  <2> QED
    BY <2>2 DEF AwaitingMeansDone, Whole, Approvable, AllFinished
<1> QED
  BY <1>1, Invariance, PTL

\* A task waits for approval only with its hard gates passed.
THEOREM GatesHold == Spec => []HardGatesHold
<1>1. Inv => HardGatesHold
  BY DEF Inv, GatesInv, HardGatesHold
<1> QED
  BY <1>1, Invariance, PTL

\* Only a window counts as one.
LEMMA OnlyWindows ==
    ASSUME Inv, [Next]_vars, windows' = windows + 1
    PROVE  Directed \/ InvocationFails \/ Breaks
<1>1. windows \in Nat
  BY DEF Inv, Kinds
<1>2. windows' # windows
  BY <1>1
<1>3. ~ (Start \/ Approve \/ Launch \/ Report \/ UNCHANGED vars)
  BY <1>2 DEF Start, Approve, Launch, Report, vars, bounds
<1>4. ~ (Revise \/ ReviseNode)
  BY <1>2 DEF Revise, ReviseNode, Reopens
<1> QED
  BY <1>3, <1>4 DEF Next, Directed

LEMMA WindowSteps ==
    ASSUME Inv, Directed \/ InvocationFails \/ Breaks
    PROVE  \E v \in Trees : file' = v /\ Steps(Job.tree, v)
<1>1. items # << >>
  BY DirectedWindow DEF Window, InvocationFails, Breaks
<1>2. PICK j \in Trees : j = Job.tree /\ Whole(j)
  BY <1>1, JobFits
<1>3. CASE Directed
  <2>1. PICK c \in Trees, move \in Moves, again \in BOOLEAN : Brings(c, move, again)
    BY <1>3, WindowsBring
  <2>2. Whole(c) /\ Steps(j, c)
    BY <1>2, <2>1 DEF Brings, Steps
  <2>3. PICK v \in Trees : Leaves(c, v) /\ file' = v
    BY <2>1, <2>2, EndsOutcome DEF Brings
  <2>4. Steps(j, v)
    BY <2>2, <2>3, StepsThenStirs DEF Leaves
  <2> QED
    BY <1>2, <2>3, <2>4
<1>4. CASE InvocationFails \/ Breaks
  <2>1. PICK w \in Trees : Whole(w) /\ Stirs(j, w) /\ file' = FailCurrent(w)
    <3>1. Loaded \in Trees /\ Whole(Loaded) /\ Stirs(j, Loaded)
      BY <1>2, NormalizeSteps DEF Loaded
    <3>2. ASSUME NEW verdict \in Verdicts
          PROVE  Answered(verdict) \in Trees /\ Whole(Answered(verdict)) /\ Stirs(j, Answered(verdict))
      BY <1>1, <1>2, Answers
    <3>3. CASE InvocationFails
      BY <3>1, <3>3 DEF InvocationFails, Outcome
    <3>4. CASE Breaks
      BY <3>1, <3>2, <3>4 DEF Breaks
    <3> QED
      BY <1>4, <3>3, <3>4
  <2>2. PICK v \in Trees : v = FailCurrent(w) /\ Steps(w, v)
    BY <2>1, FailSteps, OpensSteps
  <2>3. Steps(j, v)
    BY <2>1, <2>2, StirsThenSteps
  <2> QED
    BY <1>2, <2>1, <2>2, <2>3
<1> QED
  BY <1>3, <1>4

\* A window that closes a node leaves nothing unfinished below it.
THEOREM ClosingCovers == Spec => ClosingCoversSubtree
<1>1. Inv /\ [Next]_vars =>
        [windows' = windows + 1 =>
            \A n \in Nodes :
                /\ file'.st[n] \in {"completed", "skipped"}
                /\ Job.tree.st[n] # file'.st[n]
                => Unfinished(file', n) = {}]_vars
  <2> SUFFICES ASSUME Inv, [Next]_vars, windows' = windows + 1, NEW n \in Nodes,
                      file'.st[n] \in {"completed", "skipped"},
                      Job.tree.st[n] # file'.st[n]
               PROVE  Unfinished(file', n) = {}
    OBVIOUS
  <2>1. PICK v \in Trees : file' = v /\ Steps(Job.tree, v)
    BY OnlyWindows, WindowSteps
  <2> QED
    BY <2>1 DEF Steps, Covers
<1> QED
  BY <1>1, Invariance, PTL DEF Spec, ClosingCoversSubtree

\* A node that failed or was skipped is not called completed by a window.
THEOREM VerdictsStand == Spec => VerdictsKept
<1>1. Inv /\ [Next]_vars =>
        [windows' = windows + 1 =>
            \A n \in Nodes : Job.tree.st[n] \in {"failed", "skipped"} => file'.st[n] # "completed"]_vars
  <2> SUFFICES ASSUME Inv, [Next]_vars, windows' = windows + 1, NEW n \in Nodes,
                      Job.tree.st[n] \in {"failed", "skipped"}
               PROVE  file'.st[n] # "completed"
    OBVIOUS
  <2>1. PICK v \in Trees : file' = v /\ Steps(Job.tree, v)
    BY OnlyWindows, WindowSteps
  <2> QED
    BY <2>1 DEF Steps, Keeps
<1> QED
  BY <1>1, Invariance, PTL DEF Spec, VerdictsKept

GatesStep ==
    /\ task' = "resume-blocked" => Job.retries = 1
    /\ Job.tree.cur = Root /\ file'.cur = Root /\ file'.gated /\ task' = "queued" =>
          items'[Len(items')].retries > Job.retries

LEMMA DirectedGates ==
    ASSUME Inv, Directed
    PROVE  GatesStep
<1>1. items # << >>
  BY DirectedWindow DEF Window
<1>2. PICK r \in 0 .. 1 : r = Job.retries
  BY <1>1, JobFits
<1>3. PICK c \in Trees, move \in Moves, again \in BOOLEAN : Brings(c, move, again)
  BY WindowsBring
<1>4. PICK v \in Trees :
          /\ Leaves(c, v) /\ file' = v
          /\ \/ \E retried \in BOOLEAN : GoesOn(retried) /\ retried = Stopped(c, move)
             \/ \E status \in {"awaiting-approval", "resume-blocked", "completed"} :
                   Stops(status, c, v, move)
  BY <1>3, EndsOutcome DEF Brings, Steps
<1>5. CASE \E retried \in BOOLEAN : GoesOn(retried) /\ retried = Stopped(c, move)
  <2>1. PICK retried \in BOOLEAN : GoesOn(retried) /\ retried = Stopped(c, move)
    BY <1>5
  <2>2. ASSUME Job.tree.cur = Root, file'.cur = Root, file'.gated
        PROVE  items'[Len(items')].retries > Job.retries
    <3>1. Stopped(c, move)
      BY <1>3, <1>4, <2>2 DEF Brings, Stopped, Leaves
    <3>2. retried /\ r < 1
      BY <1>2, <2>1, <3>1 DEF GoesOn
    <3>3. PICK w \in Trees : Whole(w) /\ items' = Tail(items) \o <<Continuation(w, retried)>>
      BY <2>1 DEF GoesOn
    <3>4. PICK p \in Fit : p = Continuation(w, retried) /\ p.retries = 1
      BY <3>2, <3>3, ContinuationFits
    <3>5. PICK q \in Seq(Fit) : q = Tail(items)
      BY <1>1, TailFits
    <3>6. items' = q \o <<p>>
      BY <3>3, <3>4, <3>5
    <3>7. items'[Len(items')] = p
      BY <3>6, Queued
    <3> QED
      BY <1>2, <3>2, <3>4, <3>7
  <2> QED
    BY <2>1, <2>2 DEF GoesOn, GatesStep
<1>6. CASE \E status \in {"awaiting-approval", "resume-blocked", "completed"} :
              Stops(status, c, v, move)
  <2>1. task' # "queued" /\ (task' = "resume-blocked" => ~ (Job.retries < 1))
    BY <1>6 DEF Stops
  <2>2. task' = "resume-blocked" => Job.retries = 1
    BY <1>2, <2>1
  <2> QED
    BY <2>1, <2>2 DEF GatesStep
<1> QED
  BY <1>4, <1>5, <1>6

\* Gates that stay unpassed at the root give one more window, and then stop the
\* task.
THEOREM GatesAreCounted == Spec => GatesGiveOneRetry
<1>1. Inv /\ [Next]_vars => [windows' = windows + 1 => GatesStep]_vars
  <2> SUFFICES ASSUME Inv, [Next]_vars, windows' = windows + 1 PROVE GatesStep
    OBVIOUS
  <2>1. CASE Directed
    BY <2>1, DirectedGates
  <2>2. CASE InvocationFails
    <3>1. PICK j \in Trees : j = Job.tree /\ Whole(j)
      BY <2>2, JobFits DEF InvocationFails, Window
    <3>2. PICK w \in Trees : w = Normalize(j) /\ Whole(w) /\ w.cur = j.cur
      BY <3>1, NormalizeSteps, NormalizeTree
    <3>3. PICK v \in Trees : v = FailCurrent(w) /\ (w.cur = Root => v.tree = "failed")
      BY <3>2, FailSteps
    <3>4. task' = IF v.tree = "failed" THEN "failed" ELSE "queued"
      BY <2>2, <3>1, <3>2, <3>3 DEF InvocationFails, Outcome, Loaded
    <3> QED
      BY <3>1, <3>2, <3>3, <3>4 DEF GatesStep
  <2>3. CASE Breaks
    BY <2>3 DEF Breaks, GatesStep
  <2> QED
    BY <2>1, <2>2, <2>3, OnlyWindows
<1> QED
  BY <1>1, Invariance, PTL DEF Spec, GatesGiveOneRetry, GatesStep

\* A revision that names no node starts at an open node or above one.
THEOREM RevisionsReachWork == Spec => RevisionReachesWork
<1>1. Inv /\ [Next]_vars =>
        [Revise /\ Open(file) # {} => OpenUnder(file, file'.cur) # {}]_vars
  <2> SUFFICES ASSUME Inv, Revise, Open(file) # {} PROVE OpenUnder(file, file'.cur) # {}
    OBVIOUS
  <2>1. PICK f \in Trees : f = file /\ Whole(f)
    BY FileThere DEF Revise, Reopenable
  <2>2. PICK n \in RevisionTargets(f) : file' = Reopen(f, n)
    BY <2>1 DEF Revise, Reopens
  <2>3. n \in Present(f) /\ OpenUnder(f, n) # {}
    BY <2>1, TargetsReach
  <2>4. Reopen(f, n).cur = n
    BY <2>1, <2>3, ReopenWhole
  <2> QED
    BY <2>1, <2>2, <2>3, <2>4
<1> QED
  BY <1>1, Invariance, PTL DEF Spec, RevisionReachesWork
=============================================================================
