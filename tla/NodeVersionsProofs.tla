-------------------------- MODULE NodeVersionsProofs --------------------------
(***************************************************************************)
(* Theorems about NodeVersions.                                            *)
(*                                                                         *)
(* None of the properties is inductive.  The invariant follows a version   *)
(* from the read it is derived from to the commit: what a session has      *)
(* flushed continues the committed numbers as long as it holds the row,    *)
(* and what it saw is a state the node had.  A number taken by two         *)
(* sessions is met by the one that inserts later, which the constraint     *)
(* refuses; until then its row and its versions disagree, and Between says *)
(* so.                                                                     *)
(***************************************************************************)
EXTENDS NodeVersions, FiniteSetTheorems, TLAPS

\* The versions of a node that a session has flushed, and those it knows.
Mine(s, n) == {v \in sess[s].mine.added : v.node = n}
Known(s, n) == Of(n) \cup Mine(s, n)
Holds(s, n) == sess[s].mine.rows[n] # None

\* A write of a version before and after it has updated the row of n.
Derives(s, n) == sess[s].write.kind \in Versioning /\ n \in sess[s].write.nodes
Between(s, n) ==
    Derives(s, n) /\ sess[s].at = "inside" /\ n \notin sess[s].write.todo

\* The number of the newest version a session knows.
Reach(s, n) ==
    IF ~Between(s, n) THEN Sees(s)[n].latest
    ELSE IF Mine(s, n) = {} THEN row[n].latest
    ELSE sess[s].write.next - 1

\* Versions numbered from one to k, each number once.
Numbered(S, k) ==
    /\ \A v \in S : v.no \in 1 .. k
    /\ \A i \in 1 .. k : \E v \in S : v.no = i
    /\ \A u, v \in S : u.no = v.no => u = v

\* Versions are derived from older ones, and log entries keep what those say.
Derived(S) ==
    /\ \A v \in S : v.base < v.no
    /\ \A u, v \in S : u.no = v.base /\ u.kind # "forget" /\ v.kind = "log"
                          => u.text \subseteq v.text

\* The row says what the newest of its versions says.
Told(S, r) ==
    \A v \in S : v.no = r.latest /\ (v.kind # "forget" \/ v.base = v.no - 1)
                    => r.text = v.text

CommittedOK ==
    \A n \in Nodes :
        /\ row[n].latest >= 1
        /\ Numbered(Of(n), row[n].latest)
        /\ Derived(Of(n))
        /\ Told(Of(n), row[n])

\* What a session has flushed continues what is committed.
FlushedFor(s, n) ==
    /\ Mine(s, n) # {} => Holds(s, n)
    /\ \A v \in Mine(s, n) : v.no > row[n].latest
    /\ Holds(s, n) => /\ Reach(s, n) >= row[n].latest
                      /\ Numbered(Known(s, n), Reach(s, n))
                      /\ Derived(Known(s, n))
                      /\ ~Between(s, n) =>
                            /\ Told(Known(s, n), sess[s].mine.rows[n])
                            /\ sess[s].mine.rows[n].latest = row[n].latest =>
                                  sess[s].mine.rows[n].text = row[n].text

\* What a write of a version saw: an earlier state of the node, or the present
\* one.
Saw(s, n, old) ==
    /\ old \in Rows
    /\ old.latest <= Reach(s, n)
    /\ \A u \in Known(s, n) :
          u.no = old.latest /\ u.kind # "forget" => u.text = old.text
    /\ old.latest = Reach(s, n) /\ (Between(s, n) => sess[s].write.kind = "forget")
          => old.text = Sees(s)[n].text

SeenFor(s, n) ==
    Derives(s, n) /\ sess[s].at \in {"waiting", "inside"} =>
        Saw(s, n, sess[s].write.seen[n])

\* The number of the next version, and the row once it is written.
Numbers(s, n, w) ==
    /\ w.seen[n].latest < w.next
    /\ w.next <= Reach(s, n) + 1
    /\ Mine(s, n) # {} => w.next = Reach(s, n) + 1
    /\ Between(s, n) => /\ Holds(s, n)
                        /\ sess[s].mine.rows[n].latest = w.next
                        /\ w.kind # "forget" =>
                              sess[s].mine.rows[n].text = Content(w, n)

NextFor(s, n) ==
    Derives(s, n) /\ sess[s].at = "inside" => Numbers(s, n, sess[s].write)

\* A write is of one node, or of the two ends of an edge, and of none when there
\* is no write.
WriteFor(s) ==
    /\ sess[s].at \in {"idle", "open", "ended"} => sess[s].write.kind = "none"
    /\ sess[s].at \in {"read", "checked", "waiting", "inside"} =>
          sess[s].write.kind \in Versioning \cup Counting
    /\ sess[s].at \in {"read", "checked"} => sess[s].write.kind = "update"
    /\ sess[s].write.kind \in Versioning => \E n \in Nodes : sess[s].write.nodes = {n}
    /\ sess[s].write.kind # "none" =>
          /\ sess[s].write.entry \in Entries
          /\ \E n, m \in Nodes : n <= m /\ sess[s].write.nodes = {n, m}
    /\ sess[s].at = "inside" => \A n \in sess[s].write.nodes : sess[s].write.seen[n] \in Rows
    /\ sess[s].write.todo \subseteq sess[s].write.nodes

SessionOK(s) ==
    /\ WriteFor(s)
    /\ \A n \in Nodes : FlushedFor(s, n) /\ SeenFor(s, n) /\ NextFor(s, n)

IInv == TypeOK /\ CommittedOK /\ \A s \in Sessions : SessionOK(s)

\* The counts of a row, and of what a write that counts saw of it.
Within(r) == r.kids <= r.children /\ r.links <= r.edges
Counts(s, n) ==
    /\ sess[s].at = "inside"
    /\ sess[s].write.kind \in Counting
    /\ n \in sess[s].write.nodes \cap sess[s].write.todo

CountFor(s, n) ==
    /\ Holds(s, n) => /\ Within(sess[s].mine.rows[n])
                      /\ sess[s].mine.rows[n].children >= row[n].children
                      /\ sess[s].mine.rows[n].edges >= row[n].edges
    /\ Counts(s, n) => /\ sess[s].write.seen[n].kids <= Sees(s)[n].children
                       /\ sess[s].write.seen[n].links <= Sees(s)[n].edges

CountInv ==
    /\ \A n \in Nodes : Within(row[n])
    /\ \A s \in Sessions, n \in Nodes : CountFor(s, n)

-----------------------------------------------------------------------------
(***************************************************************************)
(* Types.                                                                  *)
(***************************************************************************)
LEMMA InitType ==
    Init => TypeOK
<1> SUFFICES ASSUME Init PROVE TypeOK
  OBVIOUS
<1>1. NoRow \in Rows /\ [NoRow EXCEPT !.latest = 1] \in Rows
  BY DEF NoRow, Rows
<1>2. row \in [Nodes -> Rows]
  BY <1>1 DEF Init
<1>3. versions \subseteq Versions
  BY NodesAssumption DEF Init, Versions, NodesAssumption, Versioning, NoEntry
<1>4. queue \in [Processes -> Sessions \cup {None}]
  BY DEF Init
<1>5. NoWrite \in WriteRecords
  BY DEF NoWrite, WriteRecords
<1>6. Nothing \in Flushes
  BY DEF Nothing, Flushes
<1>7. NoSession \in SessionRecords
  BY <1>5, <1>6 DEF NoSession, SessionRecords, Places
<1>8. sess \in [Sessions -> SessionRecords]
  BY <1>7 DEF Init
<1>9. \A s \in Sessions : sess[s] = NoSession
  BY DEF Init
<1>10. \A s \in Sessions :
         /\ sess[s].made <= Writes[s]
         /\ sess[s].made = Writes[s] => sess[s].at = "open"
  BY <1>9, NodesAssumption DEF NoSession, NodesAssumption
<1>11. \A s \in Sessions : sess[s].at = "inside" <=> queue[ProcessOf[s]] = s
  BY <1>9, NodesAssumption DEF NoSession, NodesAssumption, Init
<1>12. LocksExclude
  BY <1>9 DEF LocksExclude, NoSession, Nothing
<1> QED
  BY <1>2, <1>3, <1>4, <1>8, <1>10, <1>11, <1>12 DEF TypeOK

\* A session that has ended is like one that has not begun.
LEMMA EndedRecord ==
    /\ Ended \in SessionRecords
    /\ Ended.at = "ended" /\ Ended.write = NoWrite /\ Ended.mine = Nothing
    /\ Ended.made = 0
    /\ NoWrite \in WriteRecords /\ Nothing \in Flushes
    /\ NoWrite.kind = "none" /\ NoWrite.nodes = {} /\ NoWrite.todo = {}
    /\ Nothing.added = {} /\ \A n \in Nodes : Nothing.rows[n] = None
<1>1. NoWrite \in WriteRecords
  BY DEF NoWrite, WriteRecords
<1>2. Nothing \in Flushes
  BY DEF Nothing, Flushes
<1> QED
  BY <1>1, <1>2 DEF Ended, NoSession, SessionRecords, Places, NoWrite, Nothing

\* A change of where a session stands and of its write.
LEMMA GoesEffect ==
    ASSUME TypeOK, NEW s \in Sessions, NEW at \in Places, NEW w \in WriteRecords,
           sess' = [sess EXCEPT ![s].at = at, ![s].write = w]
    PROVE  /\ sess' \in [Sessions -> SessionRecords]
           /\ sess'[s].at = at /\ sess'[s].write = w
           /\ sess'[s].mine = sess[s].mine /\ sess'[s].made = sess[s].made
           /\ \A t \in Sessions : t # s => sess'[t] = sess[t]
  BY DEF TypeOK, SessionRecords

-----------------------------------------------------------------------------
(***************************************************************************)
(* The types are kept.                                                     *)
(***************************************************************************)
\* The clause about the queue and the count of a session.
QueueFor(s) ==
    /\ sess[s].made <= Writes[s]
    /\ sess[s].made = Writes[s] => sess[s].at = "open"
    /\ sess[s].at = "inside" <=> queue[ProcessOf[s]] = s

\* One session goes on; it does not flush, enter or leave.
LEMMA MoveType ==
    ASSUME TypeOK, NEW s \in Sessions, NEW at \in Places, NEW w \in WriteRecords,
           sess' = [sess EXCEPT ![s].at = at, ![s].write = w],
           UNCHANGED <<row, versions, queue>>,
           at # "inside", sess[s].at # "inside", sess[s].made < Writes[s]
    PROVE  TypeOK'
<1>1. /\ sess' \in [Sessions -> SessionRecords]
      /\ sess'[s].at = at
      /\ sess'[s].mine = sess[s].mine /\ sess'[s].made = sess[s].made
      /\ \A t \in Sessions : t # s => sess'[t] = sess[t]
  BY GoesEffect
<1>2. \A t \in Sessions : QueueFor(t)'
  <2> SUFFICES ASSUME NEW t \in Sessions PROVE QueueFor(t)'
    OBVIOUS
  <2>1. QueueFor(t)
    BY DEF TypeOK, QueueFor
  <2>2. CASE t = s
    BY <1>1, <2>1, <2>2, NodesAssumption DEF QueueFor, TypeOK, SessionRecords, NodesAssumption
  <2>3. CASE t # s
    BY <1>1, <2>1, <2>3 DEF QueueFor
  <2> QED
    BY <2>2, <2>3
<1>3. \A t \in Sessions : sess'[t].mine = sess[t].mine
  BY <1>1
<1>4. LocksExclude'
  BY <1>3 DEF LocksExclude, TypeOK
<1> QED
  BY <1>1, <1>2, <1>4 DEF TypeOK, QueueFor

LEMMA EndType ==
    ASSUME TypeOK, NEW s \in Sessions, sess' = [sess EXCEPT ![s] = Ended],
           \/ sess[s].at # "inside" /\ UNCHANGED queue
           \/ sess[s].at = "inside" /\ Leaves(s)
    PROVE  /\ sess' \in [Sessions -> SessionRecords]
           /\ queue' \in [Processes -> Sessions \cup {None}]
           /\ \A t \in Sessions : QueueFor(t)'
           /\ LocksExclude'
<1>1. /\ sess' \in [Sessions -> SessionRecords]
      /\ sess'[s] = Ended
      /\ \A t \in Sessions : t # s => sess'[t] = sess[t]
  BY EndedRecord DEF TypeOK
<1>2. queue' \in [Processes -> Sessions \cup {None}]
  BY NodesAssumption DEF TypeOK, Leaves, NodesAssumption
<1>3. ASSUME NEW t \in Sessions PROVE QueueFor(t)'
  <2>1. QueueFor(t) /\ QueueFor(s)
    BY DEF TypeOK, QueueFor
  <2>2. CASE t = s
    <3>1. sess'[s].at = "ended" /\ sess'[s].made = 0
      BY <1>1, EndedRecord
    <3>2. queue'[ProcessOf[s]] # s
      BY <2>1, NodesAssumption DEF QueueFor, TypeOK, Leaves, NodesAssumption
    <3> QED
      BY <2>2, <3>1, <3>2, NodesAssumption DEF QueueFor, NodesAssumption
  <2>3. CASE t # s
    <3>1. queue'[ProcessOf[t]] = t <=> queue[ProcessOf[t]] = t
      <4>1. CASE UNCHANGED queue
        BY <4>1
      <4>2. CASE sess[s].at = "inside" /\ Leaves(s)
        BY <2>1, <2>3, <4>2, NodesAssumption DEF QueueFor, TypeOK, Leaves, NodesAssumption
      <4> QED
        BY <4>1, <4>2
    <3> QED
      BY <1>1, <2>1, <2>3, <3>1 DEF QueueFor
  <2> QED
    BY <2>2, <2>3
<1>4. LocksExclude'
  BY <1>1, EndedRecord DEF LocksExclude, TypeOK
<1> QED
  BY <1>1, <1>2, <1>3, <1>4

LEMMA SeesType ==
    ASSUME TypeOK, NEW s \in Sessions
    PROVE  /\ Sees(s) \in [Nodes -> Rows]
           /\ \A these \in SUBSET Nodes : Reads(s, these) \in [Nodes -> Rows \cup {None}]
<1>1. sess[s].mine.rows \in [Nodes -> Rows \cup {None}]
  BY DEF TypeOK, SessionRecords, Flushes
<1>2. Sees(s) \in [Nodes -> Rows]
  BY <1>1 DEF TypeOK, Sees
<1> QED
  BY <1>2 DEF Reads

\* What the write of an action that begins one is.
LEMMA BeginShape ==
    ASSUME TypeOK, NEW s \in Sessions,
           BeginUpdate(s) \/ BeginVersion(s) \/ BeginCounting(s)
    PROVE  \E at \in {"read", "waiting"}, w \in WriteRecords :
              /\ sess' = [sess EXCEPT ![s].at = at, ![s].write = w]
              /\ Starts(s)
              /\ UNCHANGED <<row, versions, queue>>
              /\ w.todo = {} /\ w.entry \in Entries
              /\ \/ /\ at = "read" /\ w.kind = "update"
                    /\ \E n \in Nodes : w.nodes = {n}
                 \/ /\ at = "waiting" /\ w.kind \in Versioning
                    /\ \E n \in Nodes : w.nodes = {n} /\ w.seen = Reads(s, {n})
                 \/ /\ at = "waiting" /\ w.kind \in Counting
                    /\ \E n, m \in Nodes : n <= m /\ w.nodes = {n, m}
<1> DEFINE e == <<s, sess[s].made>>
<1>1. e \in Entries
  BY DEF TypeOK, SessionRecords, Entries
<1>2. NoWrite \in WriteRecords
  BY EndedRecord
<1>3. CASE BeginUpdate(s)
  <2>1. PICK n \in Nodes :
          Begin(s, "read", [NoWrite EXCEPT !.kind = "update", !.nodes = {n},
                                           !.expected = row[n].latest])
    BY <1>3 DEF BeginUpdate
  <2> DEFINE w == [NoWrite EXCEPT !.kind = "update", !.nodes = {n},
                                  !.expected = row[n].latest, !.entry = e]
  <2>2. row[n].latest \in Nat
    BY DEF TypeOK, Rows
  <2>3. w \in WriteRecords
    BY <1>1, <2>2 DEF NoWrite, WriteRecords, Versioning
  <2>4. w.kind = "update" /\ w.nodes = {n} /\ w.todo = {} /\ w.entry = e
    BY DEF NoWrite
  <2>5. sess' = [sess EXCEPT ![s].at = "read", ![s].write = w]
    BY <2>1 DEF Begin, Goes, NoWrite
  <2> QED
    BY <1>1, <2>1, <2>3, <2>4, <2>5 DEF Begin
<1>4. CASE BeginVersion(s)
  <2>1. PICK n \in Nodes, kind \in {"revise", "log", "forget"} :
          Begin(s, "waiting", [NoWrite EXCEPT !.kind = kind, !.nodes = {n},
                                              !.seen = Reads(s, {n})])
    BY <1>4 DEF BeginVersion
  <2> DEFINE w == [NoWrite EXCEPT !.kind = kind, !.nodes = {n},
                                  !.seen = Reads(s, {n}), !.entry = e]
  <2>2. Reads(s, {n}) \in [Nodes -> Rows \cup {None}]
    BY SeesType
  <2>3. w \in WriteRecords
    BY <1>1, <2>2 DEF NoWrite, WriteRecords, Versioning
  <2>4. w.kind \in Versioning /\ w.nodes = {n} /\ w.todo = {} /\ w.seen = Reads(s, {n})
       /\ w.entry = e
    BY DEF NoWrite, Versioning
  <2>5. sess' = [sess EXCEPT ![s].at = "waiting", ![s].write = w]
    BY <2>1 DEF Begin, Goes, NoWrite
  <2> QED
    BY <1>1, <2>1, <2>3, <2>4, <2>5 DEF Begin
<1>5. CASE BeginCounting(s)
  <2>1. PICK kind \in Counting, n \in Nodes, m \in Nodes :
          /\ n <= m
          /\ Begin(s, "waiting", [NoWrite EXCEPT !.kind = kind, !.nodes = {n, m}])
    <3>1. \A n \in Nodes : n <= n /\ {n} = {n, n}
      BY NodesAssumption DEF NodesAssumption
    <3>2. \A n, m \in Nodes : n < m => n <= m
      BY NodesAssumption DEF NodesAssumption
    <3> QED
      BY <1>5, <3>1, <3>2 DEF BeginCounting, Counting
  <2> DEFINE w == [NoWrite EXCEPT !.kind = kind, !.nodes = {n, m}, !.entry = e]
  <2>2. w \in WriteRecords
    BY <1>1 DEF NoWrite, WriteRecords
  <2>3. w.kind \in Counting /\ w.nodes = {n, m} /\ w.todo = {} /\ w.entry = e
    BY DEF NoWrite
  <2>4. sess' = [sess EXCEPT ![s].at = "waiting", ![s].write = w]
    BY <2>1 DEF Begin, Goes, NoWrite
  <2> QED
    BY <1>1, <2>1, <2>2, <2>3, <2>4 DEF Begin
<1> QED
  BY <1>3, <1>4, <1>5

\* A session that begins a write may make one more.
LEMMA StartsMore ==
    ASSUME TypeOK, NEW s \in Sessions, Starts(s)
    PROVE  sess[s].made < Writes[s] /\ sess[s].at # "inside"
<1>1. QueueFor(s) /\ sess[s].made \in Nat /\ Writes[s] \in Nat
  BY NodesAssumption DEF TypeOK, QueueFor, SessionRecords, NodesAssumption
<1> QED
  BY <1>1 DEF Starts, QueueFor

-----------------------------------------------------------------------------
(***************************************************************************)
(* Entering the queue.                                                     *)
(***************************************************************************)
\* What a session sees of a node whose update it has not begun is the newest
\* of the versions it knows.
LEMMA SettledKnown ==
    ASSUME IInv, NEW s \in Sessions, NEW n \in Nodes, ~Between(s, n)
    PROVE  /\ Reach(s, n) = Sees(s)[n].latest
           /\ Sees(s)[n].latest \in Nat /\ Sees(s)[n].latest >= 1
           /\ row[n].latest \in Nat /\ Sees(s)[n].latest >= row[n].latest
           /\ Numbered(Known(s, n), Sees(s)[n].latest)
           /\ Derived(Known(s, n))
           /\ Told(Known(s, n), Sees(s)[n])
<1>1. Reach(s, n) = Sees(s)[n].latest
  BY DEF Reach
<1>2. FlushedFor(s, n) /\ TypeOK /\ CommittedOK
  BY DEF IInv, SessionOK
<1>3. /\ row[n].latest \in Nat /\ row[n].latest >= 1
      /\ Numbered(Of(n), row[n].latest)
      /\ Derived(Of(n))
      /\ Told(Of(n), row[n])
  BY <1>2 DEF CommittedOK, TypeOK, Rows
<1>4. Sees(s)[n].latest \in Nat
  <2>1. Sees(s)[n] \in Rows
    BY <1>2, SeesType
  <2> QED
    BY <2>1 DEF Rows
<1>5. CASE Holds(s, n)
  <2>1. Sees(s)[n] = sess[s].mine.rows[n]
    BY <1>5 DEF Holds, Sees
  <2> QED
    BY <1>1, <1>2, <1>3, <1>4, <1>5, <2>1 DEF FlushedFor
<1>6. CASE ~Holds(s, n)
  <2>1. Sees(s)[n] = row[n]
    BY <1>6 DEF Holds, Sees
  <2>2. Known(s, n) = Of(n)
    BY <1>2, <1>6 DEF FlushedFor, Known
  <2> QED
    BY <1>1, <1>3, <2>1, <2>2
<1> QED
  BY <1>5, <1>6

LEMMA NewestOf ==
    ASSUME NEW all, NEW n, NEW k \in Nat, k >= 1,
           Numbered({v \in all : v.node = n}, k)
    PROVE  Newest(all, n) = k
<1> DEFINE S == {v \in all : v.node = n}
           P(j) == \A v \in all : v.node = n => v.no <= j
<1>1. k \in {v.no : v \in S} /\ P(k)
  BY DEF Numbered
<1>2. ASSUME NEW j \in {v.no : v \in S}, P(j) PROVE j = k
  BY <1>2 DEF Numbered
<1>3. Newest(all, n) = CHOOSE j \in {v.no : v \in S} : P(j)
  BY DEF Newest
<1> HIDE DEF P, S
<1> QED
  BY <1>1, <1>2, <1>3

LEMMA EnterEffect ==
    ASSUME IInv, NEW s \in Sessions, Enter(s)
    PROVE  \E w \in WriteRecords :
              /\ sess' = [sess EXCEPT ![s].at = "inside", ![s].write = w]
              /\ w.kind = sess[s].write.kind /\ w.nodes = sess[s].write.nodes
              /\ w.entry = sess[s].write.entry
              /\ w.todo = w.nodes
              /\ w.kind \in Counting => w.seen = Reads(s, w.nodes)
              /\ w.kind \in Versioning =>
                    /\ w.seen = sess[s].write.seen
                    /\ \A n \in w.nodes : w.next = Sees(s)[n].latest + 1
<1> DEFINE o == sess[s].write
           c == o.kind \in Counting
           w == [o EXCEPT !.todo = o.nodes,
                          !.seen = IF c THEN Reads(s, o.nodes) ELSE @,
                          !.next = IF c THEN 0 ELSE NextVersion(s)]
<1>1. TypeOK /\ WriteFor(s) /\ sess[s].at = "waiting"
  BY DEF IInv, SessionOK, Enter
<1>2. o \in WriteRecords
  BY <1>1 DEF TypeOK, SessionRecords
<1>3. sess' = [sess EXCEPT ![s].at = "inside", ![s].write = w]
  BY DEF Enter, Goes
<1>4. Reads(s, o.nodes) \in [Nodes -> Rows \cup {None}]
  BY <1>1, <1>2, SeesType DEF WriteRecords
<1>5. o.kind \in Versioning \/ c
  BY <1>1 DEF WriteFor
<1>6. ~(o.kind \in Versioning /\ c)
  BY DEF Versioning, Counting
<1>7. ASSUME o.kind \in Versioning
      PROVE  /\ NextVersion(s) \in Nat
             /\ \A n \in o.nodes : NextVersion(s) = Sees(s)[n].latest + 1
  <2>1. PICK n \in Nodes : o.nodes = {n}
    BY <1>1, <1>7 DEF WriteFor
  <2>2. ~Between(s, n)
    BY <1>1 DEF Between
  <2>3. /\ Sees(s)[n].latest \in Nat /\ Sees(s)[n].latest >= 1
        /\ Numbered(Known(s, n), Sees(s)[n].latest)
    BY <2>2, SettledKnown
  <2>4. Known(s, n) = {v \in versions \cup sess[s].mine.added : v.node = n}
    BY DEF Known, Of, Mine
  <2>5. Newest(versions \cup sess[s].mine.added, n) = Sees(s)[n].latest
    BY <2>3, <2>4, NewestOf
  <2>6. (CHOOSE m \in sess[s].write.nodes : TRUE) = n
    BY <2>1
  <2>7. NextVersion(s) = Sees(s)[n].latest + 1
    BY <2>5, <2>6 DEF NextVersion
  <2> QED
    BY <2>1, <2>3, <2>7
<1>8. w \in WriteRecords
  <2>1. CASE c
    BY <1>2, <1>4, <2>1 DEF WriteRecords
  <2>2. CASE ~c
    BY <1>2, <1>5, <1>7, <2>2 DEF WriteRecords
  <2> QED
    BY <2>1, <2>2
<1>9. /\ w.kind = o.kind /\ w.nodes = o.nodes /\ w.todo = o.nodes /\ w.entry = o.entry
      /\ c => w.seen = Reads(s, o.nodes)
      /\ ~c => w.seen = o.seen /\ w.next = NextVersion(s)
  BY <1>2 DEF WriteRecords
<1> HIDE DEF w
<1> QED
  BY <1>3, <1>6, <1>7, <1>8, <1>9

-----------------------------------------------------------------------------
(***************************************************************************)
(* Writing a row and inserting a version.                                  *)
(***************************************************************************)
LEMMA NextRowFound ==
    ASSUME IInv, NEW s \in Sessions, sess[s].at = "inside", sess[s].write.todo # {}
    PROVE  NextRow(s) \in sess[s].write.todo
<1> DEFINE todo == sess[s].write.todo
<1>1. PICK n \in Nodes, m \in Nodes : n <= m /\ sess[s].write.nodes = {n, m}
  BY DEF IInv, SessionOK, WriteFor, Versioning, Counting
<1>2. todo \subseteq {n, m} /\ n \in Nat /\ m \in Nat
  BY <1>1, NodesAssumption DEF IInv, SessionOK, WriteFor, NodesAssumption
<1>3. \E x \in todo : \A y \in todo : x <= y
  BY <1>1, <1>2
<1> QED
  BY <1>3 DEF NextRow

LEMMA WriteEffect ==
    ASSUME IInv, NEW s \in Sessions, Write(s)
    PROVE  \E n \in sess[s].write.todo, r \in Rows :
              /\ n \in Nodes /\ n \in sess[s].write.nodes
              /\ r = Written(sess[s].write, n, Sees(s)[n])
              /\ LockedBy(s, n) = {}
              /\ sess[s].at = "inside"
              /\ sess' \in [Sessions -> SessionRecords]
              /\ sess'[s].at = "inside" /\ sess'[s].made = sess[s].made
              /\ sess'[s].write = [sess[s].write EXCEPT !.todo = @ \ {n}]
              /\ sess'[s].mine.rows = [sess[s].mine.rows EXCEPT ![n] = r]
              /\ sess'[s].mine.added = sess[s].mine.added
              /\ \A t \in Sessions : t # s => sess'[t] = sess[t]
              /\ UNCHANGED <<row, versions, queue>>
<1> DEFINE w == sess[s].write
           n == NextRow(s)
           r == Written(w, n, Sees(s)[n])
<1>1. TypeOK /\ WriteFor(s) /\ sess[s].at = "inside" /\ w.todo # {}
  BY DEF IInv, SessionOK, Write
<1>2. n \in w.todo /\ n \in w.nodes
  BY <1>1, NextRowFound DEF WriteFor
<1>3. w \in WriteRecords /\ sess[s].mine \in Flushes /\ sess[s] \in SessionRecords
  BY <1>1 DEF TypeOK, SessionRecords
<1>4. n \in Nodes
  BY <1>2, <1>3 DEF WriteRecords
<1>5. Sees(s)[n] \in Rows
  BY <1>1, <1>4, SeesType
<1>6. w.seen[n] \in Rows /\ w.entry \in Entries /\ w.next \in Nat
  BY <1>1, <1>2, <1>3 DEF WriteFor, WriteRecords, Versioning, Counting
<1>7. Content(w, n) \in SUBSET Entries
  BY <1>6 DEF Content, Rows
<1>8. r \in Rows
  <2>1. /\ Count(w.seen[n].kids) \in Nat /\ Count(w.seen[n].links) \in Nat
        /\ Sees(s)[n].children + 1 \in Nat /\ Sees(s)[n].edges + 1 \in Nat
    BY <1>5, <1>6 DEF Rows, Count
  <2> QED
    BY <1>5, <1>6, <1>7, <2>1 DEF Written, Rows
<1>9. LockedBy(s, n) = {}
  BY <1>1 DEF Write, Blockers
<1>10. sess' = [sess EXCEPT ![s].mine.rows[n] = r, ![s].write.todo = @ \ {n}]
       /\ UNCHANGED <<row, versions, queue>>
  BY DEF Write
<1> HIDE DEF r, n
<1>11. /\ sess'[s].at = "inside" /\ sess'[s].made = sess[s].made
       /\ sess'[s].write = [sess[s].write EXCEPT !.todo = @ \ {n}]
       /\ sess'[s].mine.rows = [sess[s].mine.rows EXCEPT ![n] = r]
       /\ sess'[s].mine.added = sess[s].mine.added
       /\ \A t \in Sessions : t # s => sess'[t] = sess[t]
  BY <1>1, <1>3, <1>10 DEF TypeOK, SessionRecords, Flushes, WriteRecords
<1>12. sess' \in [Sessions -> SessionRecords]
  <2>1. [sess[s].mine EXCEPT !.rows[n] = r] \in Flushes
    BY <1>3, <1>4, <1>8 DEF Flushes
  <2>2. [w EXCEPT !.todo = @ \ {n}] \in WriteRecords
    BY <1>3 DEF WriteRecords
  <2>3. [sess[s] EXCEPT !.mine.rows[n] = r, !.write.todo = @ \ {n}] \in SessionRecords
    BY <1>3, <2>1, <2>2 DEF SessionRecords
  <2> QED
    BY <1>1, <1>10, <2>3 DEF TypeOK
<1>13. r = Written(w, n, Sees(s)[n])
  BY DEF r
<1> QED
  BY <1>1, <1>2, <1>4, <1>8, <1>9, <1>10, <1>11, <1>12, <1>13

\* The version an Insert adds for a node.
NewVersion(s, n) ==
    [node |-> n, no |-> sess[s].write.next, base |-> Base(sess[s].write, n),
     text |-> Snapshot(sess[s].write, n), kind |-> sess[s].write.kind,
     entry |-> sess[s].write.entry]

LEMMA InsertEffect ==
    ASSUME IInv, NEW s \in Sessions, Insert(s)
    PROVE  /\ sess[s].at = "inside" /\ sess[s].write.todo = {}
           /\ sess[s].write.kind \in Versioning => ~Taken(sess[s].write)
           /\ sess' \in [Sessions -> SessionRecords]
           /\ sess'[s].at = "open" /\ sess'[s].made = sess[s].made + 1
           /\ sess'[s].write = NoWrite
           /\ sess'[s].mine.rows = sess[s].mine.rows
           /\ sess[s].write.kind \in Counting =>
                 sess'[s].mine.added = sess[s].mine.added
           /\ sess[s].write.kind \in Versioning =>
                 \E n \in Nodes :
                    /\ sess[s].write.nodes = {n}
                    /\ NewVersion(s, n) \in Versions
                    /\ sess'[s].mine.added = sess[s].mine.added \cup {NewVersion(s, n)}
           /\ \A t \in Sessions : t # s => sess'[t] = sess[t]
           /\ UNCHANGED <<row, versions>>
           /\ Leaves(s)
<1> DEFINE w == sess[s].write
           new == IF w.kind \in Versioning THEN {NewVersion(s, n) : n \in w.nodes} ELSE {}
<1>1. TypeOK /\ WriteFor(s) /\ sess[s].at = "inside" /\ w.todo = {}
  BY DEF IInv, SessionOK, Insert, Flushed
<1>2. w \in WriteRecords /\ sess[s].mine \in Flushes /\ sess[s] \in SessionRecords
  BY <1>1 DEF TypeOK, SessionRecords
<1>3. ASSUME w.kind \in Versioning
      PROVE  \E n \in Nodes : w.nodes = {n} /\ NewVersion(s, n) \in Versions
  <2>1. PICK n \in Nodes : w.nodes = {n}
    BY <1>1, <1>3 DEF WriteFor
  <2>2. w.seen[n] \in Rows /\ w.entry \in Entries /\ w.next \in Nat
    BY <1>1, <1>2, <1>3, <2>1 DEF WriteFor, WriteRecords, Versioning
  <2>3. Snapshot(w, n) \in SUBSET Entries /\ Base(w, n) \in Nat
    BY <2>2 DEF Snapshot, Content, Base, Rows
  <2>4. NewVersion(s, n) \in Versions
    BY <1>3, <2>2, <2>3 DEF NewVersion, Versions
  <2> QED
    BY <2>1, <2>4
<1>4. new \subseteq Versions
  <2>1. CASE w.kind \in Versioning
    BY <1>3, <2>1
  <2>2. CASE w.kind \notin Versioning
    BY <2>2
  <2> QED
    BY <2>1, <2>2
<1>5. sess' = [sess EXCEPT ![s].at = "open", ![s].write = NoWrite, ![s].made = @ + 1,
                           ![s].mine.added = @ \cup new]
  BY DEF Insert, NewVersion
<1> HIDE DEF new
<1>6. /\ sess'[s].at = "open" /\ sess'[s].made = sess[s].made + 1
      /\ sess'[s].write = NoWrite
      /\ sess'[s].mine.rows = sess[s].mine.rows
      /\ sess'[s].mine.added = sess[s].mine.added \cup new
      /\ \A t \in Sessions : t # s => sess'[t] = sess[t]
  BY <1>1, <1>2, <1>5 DEF TypeOK, SessionRecords, Flushes
<1>7. sess' \in [Sessions -> SessionRecords]
  <2>1. [sess[s].mine EXCEPT !.added = @ \cup new] \in Flushes
    BY <1>2, <1>4 DEF Flushes
  <2>2. "open" \in Places /\ sess[s].made + 1 \in Nat
    BY <1>2 DEF Places, SessionRecords
  <2>3. [sess[s] EXCEPT !.at = "open", !.write = NoWrite, !.made = @ + 1,
                        !.mine.added = @ \cup new] \in SessionRecords
    BY <1>2, <2>1, <2>2, EndedRecord DEF SessionRecords
  <2> QED
    BY <1>1, <1>5, <2>3 DEF TypeOK
<1>8. w.kind \in Counting => new = {}
  BY DEF new, Counting, Versioning
<1>9. w.kind \in Versioning =>
        \E n \in Nodes : w.nodes = {n} /\ NewVersion(s, n) \in Versions /\ new = {NewVersion(s, n)}
  BY <1>3 DEF new
<1> QED
  BY <1>1, <1>6, <1>7, <1>8, <1>9 DEF Insert

\* The ways in which a session ends without a commit.
Gives(s) == Conflict(s) \/ Refused(s) \/ Deadlocked(s) \/ Rollback(s)

LEMMA GivesEffect ==
    ASSUME NEW s \in Sessions, Gives(s)
    PROVE  /\ sess' = [sess EXCEPT ![s] = Ended]
           /\ UNCHANGED <<row, versions>>
           /\ \/ sess[s].at # "inside" /\ UNCHANGED queue
              \/ sess[s].at = "inside" /\ Leaves(s)
<1>1. CASE Conflict(s)
  BY <1>1 DEF Conflict
<1>2. CASE Refused(s)
  BY <1>2 DEF Refused, Flushed, Fails, LeavesFailing
<1>3. CASE Deadlocked(s)
  <2>1. PICK C \in SUBSET Sessions : s \in C /\ Circle(C)
    BY <1>3 DEF Deadlocked
  <2>2. Blockers(s) # {}
    BY <2>1 DEF Circle
  <2>3. sess[s].at = "inside"
    BY <2>2 DEF Blockers
  <2> QED
    BY <1>3, <2>3 DEF Deadlocked, Fails, LeavesFailing
<1>4. CASE Rollback(s)
  BY <1>4 DEF Rollback
<1> QED
  BY <1>1, <1>2, <1>3, <1>4 DEF Gives

\* The queue's clause when a session enters or leaves or stays inside.
LEMMA QueueKept ==
    ASSUME TypeOK, NEW s \in Sessions,
           \A t \in Sessions : t # s => sess'[t] = sess[t],
           sess'[s].made <= Writes[s],
           sess'[s].made = Writes[s] => sess'[s].at = "open",
           \/ /\ sess[s].at # "inside" /\ sess'[s].at = "inside"
              /\ queue[ProcessOf[s]] = None
              /\ queue' = [queue EXCEPT ![ProcessOf[s]] = s]
           \/ sess[s].at = "inside" /\ sess'[s].at # "inside" /\ Leaves(s)
           \/ sess[s].at = "inside" /\ sess'[s].at = "inside" /\ UNCHANGED queue
    PROVE  /\ queue' \in [Processes -> Sessions \cup {None}]
           /\ \A t \in Sessions : QueueFor(t)'
<1>1. queue' \in [Processes -> Sessions \cup {None}]
  BY NodesAssumption DEF TypeOK, Leaves, NodesAssumption
<1>2. ASSUME NEW t \in Sessions PROVE QueueFor(t)'
  <2>1. QueueFor(t) /\ QueueFor(s)
    BY DEF TypeOK, QueueFor
  <2>2. ProcessOf[s] \in Processes /\ ProcessOf[t] \in Processes /\ None \notin Sessions
    BY NodesAssumption DEF NodesAssumption
  <2>3. queue \in [Processes -> Sessions \cup {None}]
    BY DEF TypeOK
  <2>4. CASE t = s
    BY <2>1, <2>2, <2>3, <2>4 DEF QueueFor, Leaves
  <2>5. CASE t # s
    <3>1. queue'[ProcessOf[t]] = t <=> queue[ProcessOf[t]] = t
      BY <2>1, <2>2, <2>3, <2>5 DEF QueueFor, Leaves
    <3> QED
      BY <2>1, <2>5, <3>1 DEF QueueFor
  <2> QED
    BY <2>4, <2>5
<1> QED
  BY <1>1, <1>2

LEMMA TypeStep ==
    ASSUME IInv, NEW s \in Sessions,
           \/ BeginUpdate(s) \/ BeginVersion(s) \/ BeginCounting(s)
           \/ Step(s) \/ Rollback(s)
    PROVE  TypeOK'
<1>0. /\ TypeOK /\ WriteFor(s)
      /\ sess[s] \in SessionRecords /\ sess[s].write \in WriteRecords
      /\ QueueFor(s) /\ sess[s].made \in Nat /\ Writes[s] \in Nat
  BY NodesAssumption DEF IInv, SessionOK, TypeOK, SessionRecords, QueueFor, NodesAssumption
<1>1. CASE BeginUpdate(s) \/ BeginVersion(s) \/ BeginCounting(s)
  <2>1. PICK at \in {"read", "waiting"}, w \in WriteRecords :
          /\ sess' = [sess EXCEPT ![s].at = at, ![s].write = w]
          /\ Starts(s)
          /\ UNCHANGED <<row, versions, queue>>
    BY <1>0, <1>1, BeginShape
  <2>2. at \in Places /\ at # "inside"
    BY DEF Places
  <2> QED
    BY <1>0, <2>1, <2>2, StartsMore, MoveType
<1>2. CASE Check(s)
  <2>1. sess[s].at = "read" /\ sess[s].made < Writes[s]
    BY <1>0, <1>2 DEF Check, QueueFor
  <2>2. sess' = [sess EXCEPT ![s].at = "checked", ![s].write = sess[s].write]
    BY <1>0, <1>2 DEF Check, TypeOK, SessionRecords
  <2>3. "checked" \in Places
    BY DEF Places
  <2> QED
    BY <1>0, <1>2, <2>1, <2>2, <2>3, MoveType DEF Check
<1>3. CASE Lookup(s)
  <2> DEFINE w == [sess[s].write EXCEPT !.seen = Reads(s, sess[s].write.nodes)]
  <2>1. sess[s].at = "checked" /\ sess[s].made < Writes[s]
    BY <1>0, <1>3 DEF Lookup, QueueFor
  <2>2. sess' = [sess EXCEPT ![s].at = "waiting", ![s].write = w]
    BY <1>3 DEF Lookup, Goes
  <2>3. "waiting" \in Places
    BY DEF Places
  <2>4. w \in WriteRecords
    BY <1>0, SeesType DEF WriteRecords
  <2> HIDE DEF w
  <2> QED
    BY <1>0, <1>3, <2>1, <2>2, <2>3, <2>4, MoveType DEF Lookup
<1>4. CASE Enter(s)
  <2>1. PICK w \in WriteRecords :
          sess' = [sess EXCEPT ![s].at = "inside", ![s].write = w]
    BY <1>4, EnterEffect
  <2>2. "inside" \in Places
    BY DEF Places
  <2>3. /\ sess' \in [Sessions -> SessionRecords]
        /\ sess'[s].at = "inside" /\ sess'[s].mine = sess[s].mine
        /\ sess'[s].made = sess[s].made
        /\ \A t \in Sessions : t # s => sess'[t] = sess[t]
    BY <1>0, <2>1, <2>2, GoesEffect
  <2>4. /\ sess[s].at = "waiting" /\ queue[ProcessOf[s]] = None
        /\ queue' = [queue EXCEPT ![ProcessOf[s]] = s]
        /\ UNCHANGED <<row, versions>>
    BY <1>4 DEF Enter
  <2>5. sess'[s].made <= Writes[s] /\ sess'[s].made # Writes[s]
    BY <1>0, <2>3, <2>4 DEF QueueFor
  <2>6. /\ queue' \in [Processes -> Sessions \cup {None}]
        /\ \A t \in Sessions : QueueFor(t)'
    BY <1>0, <2>3, <2>4, <2>5, QueueKept
  <2>7. LocksExclude'
    BY <1>0, <2>3 DEF LocksExclude, TypeOK
  <2> QED
    BY <1>0, <2>3, <2>4, <2>6, <2>7 DEF TypeOK, QueueFor
<1>5. CASE Write(s)
  <2>1. PICK n \in sess[s].write.todo, r \in Rows :
          /\ n \in Nodes
          /\ LockedBy(s, n) = {}
          /\ sess[s].at = "inside"
          /\ sess' \in [Sessions -> SessionRecords]
          /\ sess'[s].at = "inside" /\ sess'[s].made = sess[s].made
          /\ sess'[s].mine.rows = [sess[s].mine.rows EXCEPT ![n] = r]
          /\ \A t \in Sessions : t # s => sess'[t] = sess[t]
          /\ UNCHANGED <<row, versions, queue>>
    BY <1>5, WriteEffect
  <2>2. sess'[s].made <= Writes[s] /\ sess'[s].made # Writes[s]
    BY <1>0, <2>1 DEF QueueFor
  <2>3. /\ queue' \in [Processes -> Sessions \cup {None}]
        /\ \A t \in Sessions : QueueFor(t)'
    BY <1>0, <2>1, <2>2, QueueKept
  <2>4. LocksExclude'
    <3>1. sess[s].mine.rows \in [Nodes -> Rows \cup {None}]
      BY <1>0 DEF SessionRecords, Flushes
    <3>2. \A t \in Sessions : t # s => sess[t].mine.rows[n] = None
      BY <2>1 DEF LockedBy
    <3>3. \A m \in Nodes : m # n => sess'[s].mine.rows[m] = sess[s].mine.rows[m]
      BY <2>1, <3>1
    <3>4. ASSUME NEW t \in Sessions, sess'[t].mine.rows[n] # None PROVE t = s
      BY <2>1, <3>2, <3>4
    <3>5. \A t \in Sessions, m \in Nodes :
             m # n => sess'[t].mine.rows[m] = sess[t].mine.rows[m]
      BY <2>1, <3>3
    <3>6. LocksExclude
      BY <1>0 DEF TypeOK
    <3> QED
      BY <3>4, <3>5, <3>6 DEF LocksExclude
  <2> QED
    BY <1>0, <2>1, <2>3, <2>4 DEF TypeOK, QueueFor
<1>6. CASE Insert(s)
  <2>1. /\ sess[s].at = "inside" /\ sess' \in [Sessions -> SessionRecords]
        /\ sess'[s].at = "open" /\ sess'[s].made = sess[s].made + 1
        /\ sess'[s].mine.rows = sess[s].mine.rows
        /\ \A t \in Sessions : t # s => sess'[t] = sess[t]
        /\ UNCHANGED <<row, versions>> /\ Leaves(s)
    BY <1>6, InsertEffect
  <2>2. sess'[s].made <= Writes[s]
    BY <1>0, <2>1 DEF QueueFor
  <2>3. /\ queue' \in [Processes -> Sessions \cup {None}]
        /\ \A t \in Sessions : QueueFor(t)'
    BY <1>0, <2>1, <2>2, QueueKept
  <2>4. LocksExclude'
    BY <1>0, <2>1 DEF LocksExclude, TypeOK
  <2> QED
    BY <1>0, <2>1, <2>3, <2>4 DEF TypeOK, QueueFor
<1>7. CASE Gives(s)
  <2>1. /\ sess' = [sess EXCEPT ![s] = Ended]
        /\ UNCHANGED <<row, versions>>
        /\ \/ sess[s].at # "inside" /\ UNCHANGED queue
           \/ sess[s].at = "inside" /\ Leaves(s)
    BY <1>7, GivesEffect
  <2> QED
    BY <1>0, <2>1, EndType DEF TypeOK, QueueFor
<1>8. CASE Commit(s)
  <2>1. sess' = [sess EXCEPT ![s] = Ended] /\ UNCHANGED queue /\ sess[s].at # "inside"
    BY <1>8 DEF Commit
  <2>2. row' \in [Nodes -> Rows]
    BY <1>0, <1>8, SeesType DEF Commit
  <2>3. versions' \subseteq Versions
    BY <1>0, <1>8 DEF Commit, TypeOK, SessionRecords, Flushes
  <2> QED
    BY <1>0, <2>1, <2>2, <2>3, EndType DEF TypeOK, QueueFor
<1> QED
  BY <1>1, <1>2, <1>3, <1>4, <1>5, <1>6, <1>7, <1>8 DEF Step, Gives

-----------------------------------------------------------------------------
(***************************************************************************)
(* The invariant is kept.                                                  *)
(***************************************************************************)
\* What is said of a session depends on its own state and on what is committed.
LEMMA Alone ==
    ASSUME UNCHANGED <<row, versions>>, NEW t, sess'[t] = sess[t]
    PROVE  SessionOK(t)' <=> SessionOK(t)
  BY DEF SessionOK, WriteFor, FlushedFor, SeenFor, NextFor, Saw, Numbers, Reach, Known,
         Mine, Holds, Derives, Between, Sees, Of

\* A session that changes nothing committed has only its own clause to keep.
LEMMA OnlyOne ==
    ASSUME IInv, TypeOK', NEW s \in Sessions, UNCHANGED <<row, versions>>,
           \A t \in Sessions : t # s => sess'[t] = sess[t],
           SessionOK(s)'
    PROVE  IInv'
<1>1. CommittedOK'
  BY DEF IInv, CommittedOK, Of
<1>2. ASSUME NEW t \in Sessions PROVE SessionOK(t)'
  <2>1. CASE t = s
    BY <2>1
  <2>2. CASE t # s
    BY <2>2, Alone DEF IInv
  <2> QED
    BY <2>1, <2>2
<1> QED
  BY <1>1, <1>2 DEF IInv

LEMMA EndedOK ==
    ASSUME NEW s \in Sessions, sess'[s] = Ended
    PROVE  SessionOK(s)'
<1>1. /\ sess'[s].at = "ended" /\ sess'[s].write.kind = "none"
      /\ sess'[s].write.nodes = {} /\ sess'[s].write.todo = {}
      /\ sess'[s].mine.added = {} /\ \A n \in Nodes : sess'[s].mine.rows[n] = None
  BY EndedRecord
<1>2. WriteFor(s)'
  BY <1>1 DEF WriteFor, Versioning, Counting
<1>3. \A n \in Nodes : Mine(s, n)' = {} /\ ~Holds(s, n)' /\ ~Derives(s, n)'
  BY <1>1 DEF Mine, Holds, Derives
<1> QED
  BY <1>2, <1>3 DEF SessionOK, FlushedFor, SeenFor, NextFor

LEMMA GivesKeeps ==
    ASSUME IInv, NEW s \in Sessions, Gives(s)
    PROVE  IInv'
<1>1. sess' = [sess EXCEPT ![s] = Ended] /\ UNCHANGED <<row, versions>>
  BY GivesEffect
<1>2. sess'[s] = Ended /\ \A t \in Sessions : t # s => sess'[t] = sess[t]
  BY <1>1 DEF IInv, TypeOK
<1>3. SessionOK(s)'
  BY <1>2, EndedOK
<1>4. TypeOK'
  BY TypeStep DEF Gives, Step
<1> QED
  BY <1>1, <1>2, <1>3, <1>4, OnlyOne

\* A session that goes on without flushing.
LEMMA Moved ==
    ASSUME IInv, NEW s \in Sessions, UNCHANGED <<row, versions>>,
           sess'[s].mine = sess[s].mine, sess[s].at # "inside",
           \A n \in Nodes : ~Between(s, n)'
    PROVE  \A n \in Nodes :
              /\ FlushedFor(s, n)'
              /\ ~Between(s, n)
              /\ Reach(s, n)' = Reach(s, n)
              /\ Known(s, n)' = Known(s, n) /\ Mine(s, n)' = Mine(s, n)
              /\ Sees(s)'[n] = Sees(s)[n]
<1> SUFFICES ASSUME NEW n \in Nodes
             PROVE  /\ FlushedFor(s, n)'
                    /\ ~Between(s, n)
                    /\ Reach(s, n)' = Reach(s, n)
                    /\ Known(s, n)' = Known(s, n) /\ Mine(s, n)' = Mine(s, n)
                    /\ Sees(s)'[n] = Sees(s)[n]
  OBVIOUS
<1>1. ~Between(s, n) /\ ~Between(s, n)'
  BY DEF Between
<1>2. /\ Mine(s, n)' = Mine(s, n) /\ Known(s, n)' = Known(s, n)
      /\ Holds(s, n)' = Holds(s, n) /\ Sees(s)'[n] = Sees(s)[n]
      /\ sess'[s].mine.rows[n] = sess[s].mine.rows[n]
  BY DEF Mine, Known, Of, Holds, Sees
<1>3. Reach(s, n)' = Reach(s, n)
  BY <1>1, <1>2 DEF Reach
<1>4. FlushedFor(s, n)
  BY DEF IInv, SessionOK
<1>5. FlushedFor(s, n)'
  BY <1>1, <1>2, <1>3, <1>4 DEF FlushedFor
<1> QED
  BY <1>1, <1>2, <1>3, <1>5

\* What a session reads now is a state of the node.
LEMMA SawPresent ==
    ASSUME IInv, NEW s \in Sessions, NEW n \in Nodes, ~Between(s, n)
    PROVE  Saw(s, n, Sees(s)[n])
<1>1. Sees(s)[n] \in Rows
  BY SeesType DEF IInv
<1>2. /\ Reach(s, n) = Sees(s)[n].latest /\ Sees(s)[n].latest \in Nat
      /\ Told(Known(s, n), Sees(s)[n])
  BY SettledKnown
<1> QED
  BY <1>1, <1>2 DEF Saw, Told

LEMMA SawKept ==
    ASSUME NEW s, NEW n, NEW old, Saw(s, n, old), ~Between(s, n)', ~Between(s, n),
           Reach(s, n)' = Reach(s, n), Known(s, n)' = Known(s, n),
           Sees(s)'[n] = Sees(s)[n]
    PROVE  Saw(s, n, old)'
  BY Zenon DEF Saw

LEMMA BeginKeeps ==
    ASSUME IInv, NEW s \in Sessions,
           BeginUpdate(s) \/ BeginVersion(s) \/ BeginCounting(s)
    PROVE  IInv'
<1>1. PICK at \in {"read", "waiting"}, w \in WriteRecords :
        /\ sess' = [sess EXCEPT ![s].at = at, ![s].write = w]
        /\ Starts(s)
        /\ UNCHANGED <<row, versions, queue>>
        /\ w.todo = {} /\ w.entry \in Entries
        /\ \/ /\ at = "read" /\ w.kind = "update"
              /\ \E n \in Nodes : w.nodes = {n}
           \/ /\ at = "waiting" /\ w.kind \in Versioning
              /\ \E n \in Nodes : w.nodes = {n} /\ w.seen = Reads(s, {n})
           \/ /\ at = "waiting" /\ w.kind \in Counting
              /\ \E n, m \in Nodes : n <= m /\ w.nodes = {n, m}
  BY BeginShape DEF IInv
<1>2. at \in Places
  BY DEF Places
<1>3. /\ sess'[s].at = at /\ sess'[s].write = w
      /\ sess'[s].mine = sess[s].mine
      /\ \A t \in Sessions : t # s => sess'[t] = sess[t]
  <2>1. TypeOK
    BY DEF IInv
  <2>2. w \in WriteRecords /\ sess' = [sess EXCEPT ![s].at = at, ![s].write = w]
    BY <1>1
  <2> QED
    BY <2>1, <2>2 DEF TypeOK, SessionRecords
<1>4. sess[s].at # "inside" /\ \A n \in Nodes : ~Between(s, n)'
  BY <1>1, <1>3, StartsMore DEF IInv, Between
<1>5. \A n \in Nodes :
         /\ FlushedFor(s, n)'
         /\ ~Between(s, n) /\ ~Between(s, n)'
         /\ Reach(s, n)' = Reach(s, n) /\ Known(s, n)' = Known(s, n)
         /\ Sees(s)'[n] = Sees(s)[n]
  BY <1>1, <1>3, <1>4, Moved
<1>6. WriteFor(s)'
  <2>1. w.kind \in Versioning => \E n \in Nodes : w.nodes = {n}
    BY <1>1 DEF Versioning, Counting
  <2>2. \E n, m \in Nodes : n <= m /\ w.nodes = {n, m}
    <3>1. \A n \in Nodes : n <= n /\ {n} = {n, n}
      BY NodesAssumption DEF NodesAssumption
    <3> QED
      BY <1>1, <3>1
  <2>3. /\ w.kind \in Versioning \cup Counting
        /\ at = "read" => w.kind = "update"
    BY <1>1 DEF Versioning
  <2>4. at \notin {"idle", "open", "ended", "inside", "checked"}
    OBVIOUS
  <2> QED
    BY <1>1, <1>3, <2>1, <2>2, <2>3, <2>4 DEF WriteFor
<1>7. ASSUME NEW n \in Nodes PROVE SeenFor(s, n)' /\ NextFor(s, n)'
  <2>1. NextFor(s, n)'
    BY <1>3 DEF NextFor
  <2>2. SeenFor(s, n)'
    <3> SUFFICES ASSUME n \in w.nodes, w.kind \in Versioning, at = "waiting"
                 PROVE  Saw(s, n, w.seen[n])'
      BY <1>3 DEF SeenFor, Derives
    <3>1. w.nodes = {n} /\ w.seen = Reads(s, {n})
      BY <1>1 DEF Versioning, Counting
    <3>2. w.seen[n] = Sees(s)[n]
      BY <3>1 DEF Reads
    <3>3. Saw(s, n, w.seen[n])
      BY <1>5, <3>2, SawPresent
    <3> QED
      BY <1>5, <3>3, SawKept
  <2> QED
    BY <2>1, <2>2
<1>8. TypeOK'
  BY TypeStep
<1> QED
  BY <1>1, <1>3, <1>5, <1>6, <1>7, <1>8, OnlyOne DEF SessionOK

LEMMA CheckKeeps ==
    ASSUME IInv, NEW s \in Sessions, Check(s)
    PROVE  IInv'
<1>1. /\ sess[s].at = "read" /\ sess' = [sess EXCEPT ![s].at = "checked"]
      /\ UNCHANGED <<row, versions>>
  BY DEF Check
<1>2. TypeOK /\ WriteFor(s) /\ sess[s] \in SessionRecords
  BY DEF IInv, SessionOK, TypeOK
<1>3. /\ sess'[s].at = "checked" /\ sess'[s].write = sess[s].write
      /\ sess'[s].mine = sess[s].mine
      /\ \A t \in Sessions : t # s => sess'[t] = sess[t]
  BY <1>1, <1>2 DEF TypeOK, SessionRecords
<1>4. \A n \in Nodes : ~Between(s, n)'
  BY <1>3 DEF Between
<1>5. \A n \in Nodes : FlushedFor(s, n)'
  BY <1>1, <1>3, <1>4, Moved
<1>6. WriteFor(s)'
  BY <1>1, <1>2, <1>3 DEF WriteFor
<1>7. \A n \in Nodes : SeenFor(s, n)' /\ NextFor(s, n)'
  BY <1>3 DEF SeenFor, NextFor
<1>8. TypeOK'
  BY TypeStep DEF Step
<1> QED
  BY <1>1, <1>3, <1>5, <1>6, <1>7, <1>8, OnlyOne DEF SessionOK

LEMMA LookupKeeps ==
    ASSUME IInv, NEW s \in Sessions, Lookup(s)
    PROVE  IInv'
<1> DEFINE o == sess[s].write
<1>2. TypeOK /\ WriteFor(s) /\ o \in WriteRecords
  BY DEF IInv, SessionOK, TypeOK, SessionRecords
<1>0. PICK w \in WriteRecords : w = [o EXCEPT !.seen = Reads(s, o.nodes)]
  BY <1>2, SeesType DEF WriteRecords
<1>1. /\ sess[s].at = "checked"
      /\ sess' = [sess EXCEPT ![s].at = "waiting", ![s].write = w]
      /\ UNCHANGED <<row, versions>>
  BY <1>0 DEF Lookup, Goes
<1>3. /\ w.seen = Reads(s, o.nodes) /\ w.kind = o.kind /\ w.nodes = o.nodes
      /\ w.todo = o.todo /\ w.entry = o.entry
  BY <1>0, <1>2 DEF WriteRecords
<1>4. /\ sess'[s].at = "waiting" /\ sess'[s].write = w
      /\ sess'[s].mine = sess[s].mine
      /\ \A t \in Sessions : t # s => sess'[t] = sess[t]
  BY <1>1, <1>2 DEF TypeOK, SessionRecords
<1>5. \A n \in Nodes : ~Between(s, n)'
  BY <1>4 DEF Between
<1>6. \A n \in Nodes :
         /\ FlushedFor(s, n)'
         /\ ~Between(s, n) /\ ~Between(s, n)'
         /\ Reach(s, n)' = Reach(s, n) /\ Known(s, n)' = Known(s, n)
         /\ Sees(s)'[n] = Sees(s)[n]
  BY <1>1, <1>4, <1>5, Moved
<1>7. WriteFor(s)'
  BY <1>1, <1>2, <1>3, <1>4 DEF WriteFor
<1>8. ASSUME NEW n \in Nodes PROVE SeenFor(s, n)' /\ NextFor(s, n)'
  <2>1. NextFor(s, n)'
    BY <1>4 DEF NextFor
  <2>2. SeenFor(s, n)'
    <3> SUFFICES ASSUME n \in w.nodes
                 PROVE  Saw(s, n, w.seen[n])'
      BY <1>4 DEF SeenFor, Derives
    <3>1. w.seen[n] = Sees(s)[n]
      BY <1>3 DEF Reads
    <3>2. Saw(s, n, w.seen[n])
      BY <1>6, <3>1, SawPresent
    <3> QED
      BY <1>6, <3>2, SawKept
  <2> QED
    BY <2>1, <2>2
<1>9. TypeOK'
  BY TypeStep DEF Step
<1> QED
  BY <1>1, <1>4, <1>6, <1>7, <1>8, <1>9, OnlyOne DEF SessionOK

LEMMA EnterKeeps ==
    ASSUME IInv, NEW s \in Sessions, Enter(s)
    PROVE  IInv'
<1> DEFINE o == sess[s].write
<1>1. PICK w \in WriteRecords :
        /\ sess' = [sess EXCEPT ![s].at = "inside", ![s].write = w]
        /\ w.kind = o.kind /\ w.nodes = o.nodes /\ w.entry = o.entry
        /\ w.todo = w.nodes
        /\ w.kind \in Counting => w.seen = Reads(s, w.nodes)
        /\ w.kind \in Versioning =>
              /\ w.seen = o.seen
              /\ \A n \in w.nodes : w.next = Sees(s)[n].latest + 1
  BY EnterEffect
<1>2. sess[s].at = "waiting" /\ UNCHANGED <<row, versions>>
  BY DEF Enter
<1>3. TypeOK /\ WriteFor(s) /\ \A n \in Nodes : SeenFor(s, n)
  BY DEF IInv, SessionOK
<1>4. /\ sess'[s].at = "inside" /\ sess'[s].write = w
      /\ sess'[s].mine = sess[s].mine
      /\ \A t \in Sessions : t # s => sess'[t] = sess[t]
  BY <1>1, <1>3 DEF TypeOK, SessionRecords
<1>5. \A n \in Nodes : ~Between(s, n)'
  BY <1>1, <1>4 DEF Between, Derives
<1>6. \A n \in Nodes :
         /\ FlushedFor(s, n)'
         /\ ~Between(s, n) /\ ~Between(s, n)'
         /\ Reach(s, n)' = Reach(s, n) /\ Known(s, n)' = Known(s, n)
         /\ Mine(s, n)' = Mine(s, n)
         /\ Sees(s)'[n] = Sees(s)[n]
  BY <1>2, <1>4, <1>5, Moved
<1>7. \A n \in Nodes : n \in w.nodes /\ w.kind \in Versioning => Saw(s, n, w.seen[n])
  BY <1>1, <1>2, <1>3 DEF SeenFor, Derives
<1>8. w.kind \in Versioning \cup Counting /\ w.nodes \subseteq Nodes
  BY <1>1, <1>2, <1>3 DEF WriteFor, WriteRecords
<1>9. \A n \in w.nodes : w.seen[n] \in Rows
  <2> SUFFICES ASSUME NEW n \in w.nodes PROVE w.seen[n] \in Rows
    OBVIOUS
  <2>1. CASE w.kind \in Versioning
    BY <1>7, <1>8, <2>1 DEF Saw
  <2>2. CASE w.kind \in Counting
    <3>1. w.seen[n] = Sees(s)[n]
      BY <1>1, <1>8, <2>2 DEF Reads
    <3> QED
      BY <1>3, <1>8, <3>1, SeesType
  <2> QED
    BY <1>8, <2>1, <2>2
<1>10. WriteFor(s)'
  BY <1>1, <1>2, <1>3, <1>4, <1>8, <1>9 DEF WriteFor
<1>11. ASSUME NEW n \in Nodes PROVE SeenFor(s, n)' /\ NextFor(s, n)'
  <2>1. CASE ~(n \in w.nodes /\ w.kind \in Versioning)
    BY <1>4, <2>1 DEF SeenFor, NextFor, Derives
  <2>2. CASE n \in w.nodes /\ w.kind \in Versioning
    <3>1. Saw(s, n, w.seen[n])'
      BY <1>6, <1>7, <2>2, SawKept
    <3>2. /\ w.seen[n].latest <= Reach(s, n) /\ w.seen[n].latest \in Nat
          /\ w.next = Sees(s)[n].latest + 1
      BY <1>1, <1>7, <2>2 DEF Saw, Rows
    <3>3. Reach(s, n) = Sees(s)[n].latest /\ Sees(s)[n].latest \in Nat
      BY <1>6, SettledKnown
    <3>4. Numbers(s, n, w)'
      BY <1>6, <3>2, <3>3 DEF Numbers
    <3> QED
      BY <1>4, <3>1, <3>4 DEF SeenFor, NextFor
  <2> QED
    BY <2>1, <2>2
<1>12. TypeOK'
  BY TypeStep DEF Step
<1> QED
  BY <1>2, <1>4, <1>6, <1>10, <1>11, <1>12, OnlyOne DEF SessionOK

-----------------------------------------------------------------------------
\* Nothing happened to a session and a node.
LEMMA Untouched ==
    ASSUME NEW s, NEW n \in Nodes, FlushedFor(s, n),
           row'[n] = row[n], Of(n)' = Of(n), Mine(s, n)' = Mine(s, n),
           sess'[s].mine.rows[n] = sess[s].mine.rows[n],
           \/ ~Between(s, n) /\ ~Between(s, n)'
           \/ Between(s, n) /\ Between(s, n)' /\ sess'[s].write.next = sess[s].write.next
    PROVE  /\ FlushedFor(s, n)'
           /\ Reach(s, n)' = Reach(s, n) /\ Known(s, n)' = Known(s, n)
           /\ Sees(s)'[n] = Sees(s)[n] /\ Holds(s, n)' = Holds(s, n)
           /\ Between(s, n)' = Between(s, n)
<1>1. Known(s, n)' = Known(s, n) /\ Holds(s, n)' = Holds(s, n)
      /\ Sees(s)'[n] = Sees(s)[n]
  BY DEF Known, Holds, Sees
<1>2. Between(s, n)' = Between(s, n)
  BY DEF Between, Derives
<1>3. Reach(s, n)' = Reach(s, n)
  BY <1>1, <1>2 DEF Reach
<1>4. FlushedFor(s, n)'
  BY <1>1, <1>2, <1>3 DEF FlushedFor
<1> QED
  BY <1>1, <1>2, <1>3, <1>4

\* What it saw and its next number are then as good as before.
LEMMA UntouchedWrite ==
    ASSUME NEW s, NEW n \in Nodes, SeenFor(s, n), NextFor(s, n),
           Mine(s, n)' = Mine(s, n),
           sess'[s].mine.rows[n] = sess[s].mine.rows[n],
           Reach(s, n)' = Reach(s, n), Known(s, n)' = Known(s, n),
           Sees(s)'[n] = Sees(s)[n], Holds(s, n)' = Holds(s, n),
           Between(s, n)' = Between(s, n), Derives(s, n)' = Derives(s, n),
           sess'[s].at = sess[s].at,
           sess'[s].write.kind = sess[s].write.kind,
           sess'[s].write.seen = sess[s].write.seen,
           sess'[s].write.next = sess[s].write.next,
           sess'[s].write.entry = sess[s].write.entry
    PROVE  SeenFor(s, n)' /\ NextFor(s, n)'
<1>1. SeenFor(s, n)'
  BY DEF SeenFor, Saw
<1>2. Content(sess[s].write, n)' = Content(sess[s].write, n)
  BY DEF Content
<1>3. NextFor(s, n)'
  BY <1>2 DEF NextFor, Numbers
<1> QED
  BY <1>1, <1>3

LEMMA NumberedOnce ==
    ASSUME NEW S, NEW j \in Nat, NEW k \in Nat, j >= 1, k >= 1,
           Numbered(S, j), Numbered(S, k)
    PROVE  j = k
<1>1. PICK u \in S : u.no = j
  BY DEF Numbered
<1>2. PICK v \in S : v.no = k
  BY DEF Numbered
<1>3. u.no \in 1 .. k /\ v.no \in 1 .. j
  BY DEF Numbered
<1> QED
  BY <1>1, <1>2, <1>3

\* The update of a row by a write of a version.
LEMMA WriteVersion ==
    ASSUME IInv, TypeOK', NEW s \in Sessions, NEW n \in sess[s].write.todo, NEW r \in Rows,
           n \in Nodes, n \in sess[s].write.nodes,
           r = Written(sess[s].write, n, Sees(s)[n]),
           sess[s].write.kind \in Versioning,
           sess[s].at = "inside", sess'[s].at = "inside",
           sess'[s].write = [sess[s].write EXCEPT !.todo = @ \ {n}],
           sess'[s].mine.rows[n] = r, Mine(s, n)' = Mine(s, n),
           UNCHANGED <<row, versions>>
    PROVE  FlushedFor(s, n)' /\ SeenFor(s, n)' /\ NextFor(s, n)'
<1> DEFINE w == sess[s].write
           old == w.seen[n]
           k == Reach(s, n)
<1>1. w \in WriteRecords /\ w.next \in Nat
  BY DEF IInv, TypeOK, SessionRecords, WriteRecords
<1>2. /\ sess'[s].write.kind = w.kind /\ sess'[s].write.nodes = w.nodes
      /\ sess'[s].write.seen = w.seen /\ sess'[s].write.next = w.next
      /\ sess'[s].write.entry = w.entry
      /\ n \notin sess'[s].write.todo
  BY <1>1 DEF WriteRecords
<1>3. ~Between(s, n) /\ Between(s, n)' /\ Derives(s, n) /\ Derives(s, n)'
  BY <1>2 DEF Between, Derives
<1>4. /\ k = Sees(s)[n].latest /\ k \in Nat /\ k >= 1
      /\ row[n].latest \in Nat /\ k >= row[n].latest
      /\ Numbered(Known(s, n), k) /\ Derived(Known(s, n))
  BY <1>3, SettledKnown
<1>5. FlushedFor(s, n) /\ Saw(s, n, old) /\ Numbers(s, n, w)
  BY <1>3 DEF IInv, SessionOK, SeenFor, NextFor
<1>6. Holds(s, n)' /\ Known(s, n)' = Known(s, n) /\ Sees(s)'[n] = r
  BY NoneIsNoRow DEF Holds, Known, Of, Sees
<1>7. Reach(s, n)' = k
  <2>1. CASE Mine(s, n) = {}
    <3>1. Known(s, n) = Of(n)
      BY <2>1 DEF Known
    <3>2. Numbered(Of(n), row[n].latest) /\ row[n].latest >= 1
      BY DEF IInv, CommittedOK
    <3>3. row[n].latest = k
      BY <1>4, <3>1, <3>2, NumberedOnce
    <3> QED
      BY <1>3, <2>1, <3>3 DEF Reach
  <2>2. CASE Mine(s, n) # {}
    <3>1. w.next = k + 1
      BY <1>5, <2>2 DEF Numbers
    <3>2. Reach(s, n)' = w.next - 1
      BY <1>2, <1>3, <2>2 DEF Reach
    <3> QED
      BY <1>4, <3>1, <3>2
  <2> QED
    BY <2>1, <2>2
<1>8. FlushedFor(s, n)'
  BY <1>3, <1>4, <1>5, <1>6, <1>7 DEF FlushedFor
<1>9. /\ r.latest = w.next
      /\ w.kind = "forget" => r.text = Sees(s)[n].text
      /\ w.kind # "forget" => r.text = Content(w, n)
  <2>1. Sees(s)[n] \in Rows
    BY SeesType DEF IInv
  <2> QED
    BY <2>1 DEF Written, Versioning, Rows
<1>10. SeenFor(s, n)'
  <2>1. /\ old \in Rows /\ old.latest <= k
        /\ \A u \in Known(s, n) : u.no = old.latest /\ u.kind # "forget" => u.text = old.text
        /\ old.latest = k => old.text = Sees(s)[n].text
    BY <1>3, <1>5 DEF Saw
  <2>3. Saw(s, n, sess[s].write.seen[n])'
    BY <1>2, <1>3, <1>6, <1>7, <1>9, <2>1 DEF Saw
  <2> QED
    BY <2>3 DEF SeenFor
<1>11. Content(sess[s].write, n)' = Content(w, n)
  BY <1>2 DEF Content
<1>12. Numbers(s, n, sess[s].write)'
  BY <1>2, <1>5, <1>6, <1>7, <1>9, <1>11 DEF Numbers
<1> QED
  BY <1>8, <1>10, <1>12 DEF NextFor

LEMMA WriteKeeps ==
    ASSUME IInv, NEW s \in Sessions, Write(s)
    PROVE  IInv'
<1> DEFINE w == sess[s].write
<1>0. TypeOK'
  BY TypeStep DEF Step
<1>1. PICK n \in sess[s].write.todo, r \in Rows :
        /\ n \in Nodes /\ n \in sess[s].write.nodes
        /\ r = Written(sess[s].write, n, Sees(s)[n])
        /\ sess[s].at = "inside"
        /\ sess'[s].at = "inside"
        /\ sess'[s].write = [sess[s].write EXCEPT !.todo = @ \ {n}]
        /\ sess'[s].mine.rows = [sess[s].mine.rows EXCEPT ![n] = r]
        /\ sess'[s].mine.added = sess[s].mine.added
        /\ \A t \in Sessions : t # s => sess'[t] = sess[t]
        /\ UNCHANGED <<row, versions>>
  BY WriteEffect
<1>2. /\ WriteFor(s) /\ w \in WriteRecords
      /\ sess[s].mine.rows \in [Nodes -> Rows \cup {None}]
      /\ \A m \in Nodes : FlushedFor(s, m) /\ SeenFor(s, m) /\ NextFor(s, m)
  BY DEF IInv, SessionOK, TypeOK, SessionRecords, Flushes
<1>3. /\ sess'[s].write.kind = w.kind /\ sess'[s].write.nodes = w.nodes
      /\ sess'[s].write.seen = w.seen /\ sess'[s].write.next = w.next
      /\ sess'[s].write.entry = w.entry
      /\ sess'[s].write.todo = w.todo \ {n}
  BY <1>1, <1>2 DEF WriteRecords
<1>4. /\ sess'[s].mine.rows[n] = r
      /\ \A m \in Nodes : m # n => sess'[s].mine.rows[m] = sess[s].mine.rows[m]
  BY <1>1, <1>2
<1>5. \A m \in Nodes : Mine(s, m)' = Mine(s, m) /\ Of(m)' = Of(m) /\ row'[m] = row[m]
  BY <1>1 DEF Mine, Of
<1>6. WriteFor(s)'
  BY <1>1, <1>2, <1>3 DEF WriteFor
<1>7. ASSUME NEW m \in Nodes, m # n
      PROVE  FlushedFor(s, m)' /\ SeenFor(s, m)' /\ NextFor(s, m)'
  <2>1. Derives(s, m)' = Derives(s, m) /\ Between(s, m)' = Between(s, m)
    BY <1>1, <1>3, <1>7 DEF Derives, Between
  <2>2. /\ FlushedFor(s, m)'
        /\ Reach(s, m)' = Reach(s, m) /\ Known(s, m)' = Known(s, m)
        /\ Sees(s)'[m] = Sees(s)[m] /\ Holds(s, m)' = Holds(s, m)
    BY <1>2, <1>3, <1>4, <1>5, <1>7, <2>1, Untouched
  <2> QED
    BY <1>1, <1>2, <1>3, <1>4, <1>5, <1>7, <2>1, <2>2, UntouchedWrite
<1>8. FlushedFor(s, n)' /\ SeenFor(s, n)' /\ NextFor(s, n)'
  <2>1. CASE w.kind \in Versioning
    BY <1>0, <1>1, <1>4, <1>5, <2>1, WriteVersion
  <2>2. CASE w.kind \in Counting
    <3>1. ~Derives(s, n) /\ ~Derives(s, n)' /\ ~Between(s, n) /\ ~Between(s, n)'
      BY <1>3, <2>2 DEF Derives, Between, Versioning, Counting
    <3>2. /\ Reach(s, n) = Sees(s)[n].latest
          /\ Sees(s)[n].latest \in Nat /\ row[n].latest \in Nat
          /\ Sees(s)[n].latest >= row[n].latest
          /\ Numbered(Known(s, n), Sees(s)[n].latest)
          /\ Derived(Known(s, n)) /\ Told(Known(s, n), Sees(s)[n])
      BY <1>1, <3>1, SettledKnown
    <3>3. r.latest = Sees(s)[n].latest /\ r.text = Sees(s)[n].text
      <4>1. Sees(s)[n] \in Rows
        BY <1>1, SeesType DEF IInv
      <4> QED
        BY <1>1, <2>2, <4>1 DEF Written, Counting, Rows
    <3>4. /\ Holds(s, n)' /\ Known(s, n)' = Known(s, n) /\ Sees(s)'[n] = r
      BY <1>1, <1>4, <1>5, NoneIsNoRow DEF Holds, Known, Sees
    <3>5. Reach(s, n)' = Sees(s)[n].latest
      BY <3>1, <3>3, <3>4 DEF Reach
    <3>6. Told(Known(s, n), r)
      BY <3>2, <3>3 DEF Told
    <3>7. r.latest = row[n].latest => r.text = row[n].text
      <4>1. CASE Holds(s, n)
        <5>1. Sees(s)[n] = sess[s].mine.rows[n]
          BY <1>1, <4>1 DEF Sees, Holds
        <5>2. sess[s].mine.rows[n].latest = row[n].latest =>
                sess[s].mine.rows[n].text = row[n].text
          BY <1>1, <1>2, <3>1, <4>1 DEF FlushedFor
        <5> QED
          BY <3>3, <5>1, <5>2
      <4>2. CASE ~Holds(s, n)
        <5>1. Sees(s)[n] = row[n]
          BY <1>1, <4>2 DEF Sees, Holds
        <5> QED
          BY <3>3, <5>1
      <4> QED
        BY <4>1, <4>2
    <3>8. FlushedFor(s, n)'
      BY <1>1, <1>2, <1>4, <1>5, <3>2, <3>4, <3>5, <3>6, <3>7 DEF FlushedFor
    <3> QED
      BY <3>1, <3>8 DEF SeenFor, NextFor
  <2>3. w.kind \in Versioning \cup Counting
    BY <1>1, <1>2 DEF WriteFor
  <2> QED
    BY <2>1, <2>2, <2>3
<1> QED
  BY <1>0, <1>1, <1>6, <1>7, <1>8, OnlyOne DEF SessionOK

-----------------------------------------------------------------------------
\* One more version at the end.
LEMMA AppendNumbered ==
    ASSUME NEW S, NEW k \in Nat, NEW v, Numbered(S, k), v.no = k + 1
    PROVE  Numbered(S \cup {v}, k + 1)
<1>1. \A u \in S \cup {v} : u.no \in 1 .. k + 1
  BY DEF Numbered
<1>2. ASSUME NEW i \in 1 .. k + 1 PROVE \E u \in S \cup {v} : u.no = i
  <2>1. CASE i = k + 1
    BY <2>1
  <2>2. CASE i # k + 1
    <3>1. i \in 1 .. k
      BY <2>2
    <3> QED
      BY <3>1 DEF Numbered
  <2> QED
    BY <2>1, <2>2
<1>3. ASSUME NEW t \in S \cup {v}, NEW u \in S \cup {v}, t.no = u.no PROVE t = u
  <2>1. \A x \in S : x.no # k + 1
    BY DEF Numbered
  <2> QED
    BY <1>3, <2>1 DEF Numbered
<1> QED
  BY <1>1, <1>2, <1>3 DEF Numbered

LEMMA AppendDerived ==
    ASSUME NEW S, NEW k \in Nat, NEW v, Numbered(S, k), Derived(S),
           \A u \in S : u.base \in Nat,
           v.no = k + 1, v.base \in Nat, v.base < v.no,
           \A u \in S : u.no = v.base /\ u.kind # "forget" /\ v.kind = "log"
                           => u.text \subseteq v.text
    PROVE  Derived(S \cup {v})
<1>1. \A u \in S \cup {v} : u.base < u.no
  BY DEF Derived
<1>2. ASSUME NEW t \in S \cup {v}, NEW u \in S \cup {v},
             t.no = u.base, t.kind # "forget", u.kind = "log"
      PROVE  t.text \subseteq u.text
  <2>1. CASE t \in S /\ u \in S
    BY <1>2, <2>1 DEF Derived
  <2>2. CASE t \in S /\ u = v
    BY <1>2, <2>2
  <2>3. CASE t = v /\ u \in S
    <3>1. u.no \in 1 .. k /\ u.base < u.no /\ u.base \in Nat
      BY <2>3 DEF Numbered, Derived
    <3> QED
      BY <1>2, <2>3, <3>1
  <2>4. CASE t = v /\ u = v
    BY <1>2, <2>4
  <2> QED
    BY <2>1, <2>2, <2>3, <2>4
<1> QED
  BY <1>1, <1>2 DEF Derived

LEMMA InsertVersion ==
    ASSUME IInv, NEW s \in Sessions, NEW n \in Nodes, NEW v \in Versions,
           sess[s].write.kind \in Versioning, sess[s].write.nodes = {n},
           sess[s].at = "inside", sess[s].write.todo = {},
           ~Taken(sess[s].write), v = NewVersion(s, n),
           ~Between(s, n)',
           sess'[s].mine.rows[n] = sess[s].mine.rows[n],
           Mine(s, n)' = Mine(s, n) \cup {v},
           UNCHANGED <<row, versions>>
    PROVE  FlushedFor(s, n)'
<1> DEFINE w == sess[s].write
           k == Reach(s, n)
           old == w.seen[n]
           r == sess[s].mine.rows[n]
<1>1. Between(s, n) /\ Derives(s, n)
  BY DEF Between, Derives
<1>2. FlushedFor(s, n) /\ Saw(s, n, old) /\ Numbers(s, n, w)
  BY <1>1 DEF IInv, SessionOK, SeenFor, NextFor
<1>3. Holds(s, n) /\ r.latest = w.next
  BY <1>1, <1>2 DEF Numbers
<1>4. /\ row[n].latest \in Nat /\ row[n].latest >= 1 /\ w.next \in Nat
      /\ Numbered(Of(n), row[n].latest)
  BY DEF IInv, CommittedOK, TypeOK, Rows, SessionRecords, WriteRecords
<1>5. k \in Int /\ k >= row[n].latest
  BY <1>1, <1>2, <1>3, <1>4 DEF FlushedFor, Reach
<1>6. /\ Numbered(Known(s, n), k) /\ Derived(Known(s, n))
      /\ k \in Nat
  BY <1>2, <1>3, <1>4, <1>5 DEF FlushedFor
<1>7. old \in Rows /\ old.latest \in Nat /\ old.latest < w.next /\ old.latest <= k
  BY <1>2 DEF Saw, Numbers, Rows
<1>8. w.next = k + 1
  <2>1. CASE Mine(s, n) # {}
    BY <1>2, <2>1 DEF Numbers
  <2>2. CASE Mine(s, n) = {}
    <3>1. k = row[n].latest
      BY <1>1, <2>2 DEF Reach
    <3>2. w.next <= k + 1 /\ w.next >= 1
      BY <1>2, <1>7, <1>4 DEF Numbers
    <3>3. ASSUME w.next \in 1 .. k PROVE FALSE
      <4>1. PICK u \in Of(n) : u.no = w.next
        BY <1>4, <3>1, <3>3 DEF Numbered
      <4>2. Taken(w)
        BY <4>1 DEF Taken, Of
      <4> QED
        BY <4>2
    <3> QED
      BY <1>4, <1>6, <3>2, <3>3
  <2> QED
    BY <2>1, <2>2
<1>9. /\ v.no = k + 1 /\ v.base = old.latest /\ v.kind = w.kind
      /\ v.text = Content(w, n)
  BY <1>8 DEF NewVersion, Base, Snapshot
<1>10. /\ \A u \in Known(s, n) : u.no = old.latest /\ u.kind # "forget" => u.text = old.text
       /\ old.latest = k /\ w.kind = "forget" => old.text = r.text
  <2>1. Sees(s)[n] = r
    BY <1>3 DEF Sees, Holds
  <2> QED
    BY <1>1, <1>2, <2>1 DEF Saw
<1>11. \A u \in Known(s, n) : u.base \in Nat
  BY DEF Known, Of, Mine, IInv, TypeOK, SessionRecords, Flushes, Versions
<1>12. v.kind = "log" => old.text \subseteq v.text
  BY <1>9 DEF Content
<1>13. Known(s, n)' = Known(s, n) \cup {v}
  BY DEF Known, Of
<1>14. Numbered(Known(s, n)', k + 1)
  BY <1>6, <1>9, <1>13, AppendNumbered
<1>15. Derived(Known(s, n)')
  <2>1. v.base < v.no /\ v.base \in Nat
    BY <1>7, <1>8, <1>9
  <2>2. \A u \in Known(s, n) : u.no = v.base /\ u.kind # "forget" /\ v.kind = "log"
           => u.text \subseteq v.text
    BY <1>9, <1>10, <1>12
  <2> QED
    BY <1>6, <1>9, <1>11, <1>13, <2>1, <2>2, AppendDerived
<1>16. Holds(s, n)' /\ Reach(s, n)' = k + 1
  <2>1. Sees(s)'[n] = r /\ Holds(s, n)'
    BY <1>3 DEF Sees, Holds
  <2>2. Reach(s, n)' = Sees(s)'[n].latest
    BY DEF Reach
  <2> QED
    BY <1>3, <1>8, <2>1, <2>2
<1>17. Told(Known(s, n)', r)
  <2> SUFFICES ASSUME NEW u \in Known(s, n) \cup {v}, u.no = r.latest,
                      u.kind # "forget" \/ u.base = u.no - 1
               PROVE  r.text = u.text
    BY <1>13 DEF Told
  <2>1. u = v
    <3>1. \A x \in Known(s, n) : x.no # k + 1
      BY <1>6 DEF Numbered
    <3> QED
      BY <1>3, <1>8, <3>1
  <2>2. CASE w.kind # "forget"
    BY <1>1, <1>2, <1>9, <2>1, <2>2 DEF Numbers
  <2>3. CASE w.kind = "forget"
    <3>1. old.latest = k
      BY <1>6, <1>7, <1>9, <2>1, <2>3
    <3>2. v.text = old.text
      BY <1>9, <2>3 DEF Content
    <3> QED
      BY <1>10, <2>1, <2>3, <3>1, <3>2
  <2> QED
    BY <2>2, <2>3
<1>18. \A u \in Mine(s, n)' : u.no > row[n].latest
  BY <1>2, <1>4, <1>5, <1>6, <1>9 DEF FlushedFor
<1>19. r.latest # row[n].latest
  BY <1>3, <1>4, <1>5, <1>6, <1>8
<1>20. Reach(s, n)' >= row'[n].latest
  BY <1>4, <1>5, <1>6, <1>16
<1> QED
  BY <1>14, <1>15, <1>16, <1>17, <1>18, <1>19, <1>20 DEF FlushedFor

LEMMA InsertKeeps ==
    ASSUME IInv, NEW s \in Sessions, Insert(s)
    PROVE  IInv'
<1> DEFINE w == sess[s].write
<1>0. TypeOK'
  BY TypeStep DEF Step
<1>1. /\ sess[s].at = "inside" /\ w.todo = {}
      /\ w.kind \in Versioning => ~Taken(w)
      /\ sess'[s].at = "open" /\ sess'[s].write = NoWrite
      /\ sess'[s].mine.rows = sess[s].mine.rows
      /\ w.kind \in Counting => sess'[s].mine.added = sess[s].mine.added
      /\ w.kind \in Versioning =>
            \E n \in Nodes :
               /\ w.nodes = {n}
               /\ NewVersion(s, n) \in Versions
               /\ sess'[s].mine.added = sess[s].mine.added \cup {NewVersion(s, n)}
      /\ \A t \in Sessions : t # s => sess'[t] = sess[t]
      /\ UNCHANGED <<row, versions>>
  BY InsertEffect
<1>2. WriteFor(s) /\ \A m \in Nodes : FlushedFor(s, m)
  BY DEF IInv, SessionOK
<1>3. /\ sess'[s].write.kind = "none" /\ sess'[s].write.nodes = {}
      /\ sess'[s].write.todo = {}
  BY <1>1, EndedRecord
<1>4. WriteFor(s)'
  BY <1>1, <1>3 DEF WriteFor, Versioning
<1>5. \A m \in Nodes : ~Derives(s, m)' /\ ~Between(s, m)' /\ Of(m)' = Of(m) /\ row'[m] = row[m]
  BY <1>1, <1>3 DEF Derives, Between, Of
<1>6. \A m \in Nodes : SeenFor(s, m)' /\ NextFor(s, m)'
  BY <1>5 DEF SeenFor, NextFor
<1>7. \A m \in Nodes : FlushedFor(s, m)'
  <2>1. CASE w.kind \in Counting
    <3>1. \A m \in Nodes : ~Between(s, m)
      BY <2>1 DEF Between, Derives, Counting, Versioning
    <3>2. \A m \in Nodes : Mine(s, m)' = Mine(s, m)
      BY <1>1, <2>1 DEF Mine
    <3> QED
      BY <1>1, <1>2, <1>5, <3>1, <3>2, Untouched
  <2>2. CASE w.kind \in Versioning
    <3>1. PICK n \in Nodes :
            /\ w.nodes = {n}
            /\ NewVersion(s, n) \in Versions
            /\ sess'[s].mine.added = sess[s].mine.added \cup {NewVersion(s, n)}
      BY <1>1, <2>2
    <3>2. PICK v \in Versions : v = NewVersion(s, n)
      BY <3>1
    <3>3. v.node = n
      BY <3>2 DEF NewVersion
    <3>4. ASSUME NEW m \in Nodes, m # n PROVE FlushedFor(s, m)'
      <4>1. ~Between(s, m)
        BY <3>1, <3>4 DEF Between, Derives
      <4>2. Mine(s, m)' = Mine(s, m)
        BY <3>1, <3>2, <3>3, <3>4 DEF Mine
      <4> QED
        BY <1>1, <1>2, <1>5, <4>1, <4>2, Untouched
    <3>5. FlushedFor(s, n)'
      <4>1. Mine(s, n)' = Mine(s, n) \cup {v}
        BY <3>1, <3>2, <3>3 DEF Mine
      <4> QED
        BY <1>1, <1>5, <2>2, <3>1, <3>2, <4>1, InsertVersion
    <3> QED
      BY <3>4, <3>5
  <2>3. w.kind \in Versioning \cup Counting
    BY <1>1, <1>2 DEF WriteFor
  <2> QED
    BY <2>1, <2>2, <2>3
<1> QED
  BY <1>0, <1>1, <1>4, <1>6, <1>7, OnlyOne DEF SessionOK

LEMMA CommitKeeps ==
    ASSUME IInv, NEW s \in Sessions, Commit(s)
    PROVE  IInv'
<1>0. TypeOK'
  BY TypeStep DEF Step
<1>1. /\ sess[s].at = "open" /\ sess' = [sess EXCEPT ![s] = Ended]
      /\ row' = Sees(s) /\ versions' = versions \cup sess[s].mine.added
  BY DEF Commit
<1>2. sess'[s] = Ended /\ \A t \in Sessions : t # s => sess'[t] = sess[t]
  BY <1>1 DEF IInv, TypeOK
<1>3. \A n \in Nodes : ~Between(s, n) /\ Of(n)' = Known(s, n) /\ row'[n] = Sees(s)[n]
  BY <1>1 DEF Between, Of, Known, Mine
<1>4. \A n \in Nodes :
         /\ row'[n].latest \in Nat /\ row'[n].latest >= 1
         /\ row[n].latest \in Nat /\ row'[n].latest >= row[n].latest
         /\ Numbered(Of(n)', row'[n].latest)
         /\ Derived(Of(n)')
         /\ Told(Of(n)', row'[n])
  BY <1>3, SettledKnown
<1>5. CommittedOK'
  BY <1>4 DEF CommittedOK
<1>6. ASSUME NEW t \in Sessions, t # s PROVE SessionOK(t)'
  <2>1. sess'[t] = sess[t]
    BY <1>2, <1>6
  <2>2. SessionOK(t)
    BY DEF IInv
  <2>3. WriteFor(t)'
    BY <2>1, <2>2 DEF SessionOK, WriteFor
  <2>4. ASSUME NEW n \in Nodes
        PROVE  FlushedFor(t, n)' /\ SeenFor(t, n)' /\ NextFor(t, n)'
    <3>1. FlushedFor(t, n) /\ SeenFor(t, n) /\ NextFor(t, n) /\ FlushedFor(s, n)
      BY DEF IInv, SessionOK
    <3>2. /\ Mine(t, n)' = Mine(t, n)
          /\ Derives(t, n)' = Derives(t, n) /\ Between(t, n)' = Between(t, n)
          /\ Holds(t, n)' = Holds(t, n)
      BY <2>1 DEF Mine, Derives, Between, Holds
    <3>3. CASE Holds(t, n)
      <4>1. ~Holds(s, n)
        BY <1>6, <3>3 DEF IInv, TypeOK, LocksExclude, Holds
      <4>2. Sees(s)[n] = row[n] /\ Mine(s, n) = {}
        BY <3>1, <4>1 DEF Holds, Sees, FlushedFor
      <4>3. row'[n] = row[n] /\ Of(n)' = Of(n)
        BY <1>3, <4>2 DEF Known
      <4>4. /\ FlushedFor(t, n)'
            /\ Reach(t, n)' = Reach(t, n) /\ Known(t, n)' = Known(t, n)
            /\ Sees(t)'[n] = Sees(t)[n]
        BY <2>1, <3>1, <3>2, <4>3, Untouched
      <4> QED
        BY <2>1, <3>1, <3>2, <4>4, UntouchedWrite
    <3>4. CASE ~Holds(t, n)
      <4>1. Mine(t, n) = {}
        BY <3>1, <3>4 DEF FlushedFor
      <4>2. ~Between(t, n)
        BY <3>1, <3>4 DEF NextFor, Numbers, Between
      <4>3. /\ Sees(t)[n] = row[n] /\ Sees(t)'[n] = row'[n]
            /\ Known(t, n) = Of(n) /\ Known(t, n)' = Of(n)'
        BY <3>2, <3>4, <4>1 DEF Holds, Sees, Known
      <4>4. Reach(t, n) = row[n].latest /\ Reach(t, n)' = row'[n].latest
        BY <3>2, <4>2, <4>3 DEF Reach
      <4>5. FlushedFor(t, n)'
        BY <3>2, <3>4, <4>1 DEF FlushedFor
      <4>6. NextFor(t, n)'
        <5> SUFFICES ASSUME Numbers(t, n, sess[t].write) PROVE Numbers(t, n, sess[t].write)'
          BY <2>1, <3>1, <3>2 DEF NextFor
        <5>1. sess[t].write.next \in Nat
          BY DEF IInv, TypeOK, SessionRecords, WriteRecords
        <5>2. sess[t].write.next <= row'[n].latest + 1
          BY <1>4, <4>4, <5>1 DEF Numbers
        <5> QED
          BY <2>1, <3>2, <4>1, <4>2, <4>4, <5>2 DEF Numbers
      <4>7. SeenFor(t, n)'
        <5> DEFINE old == sess[t].write.seen[n]
        <5> SUFFICES ASSUME Saw(t, n, old) PROVE Saw(t, n, sess[t].write.seen[n])'
          BY <2>1, <3>1, <3>2 DEF SeenFor
        <5>1. /\ old \in Rows /\ old.latest \in Nat /\ old.latest <= row[n].latest
              /\ \A u \in Of(n) : u.no = old.latest /\ u.kind # "forget" => u.text = old.text
              /\ old.latest = row[n].latest => old.text = row[n].text
          BY <4>2, <4>3, <4>4 DEF Saw, Rows
        <5>2. old.latest <= row'[n].latest
          BY <1>4, <5>1
        <5>3. \A u \in Of(n)' : u.no = old.latest /\ u.kind # "forget" => u.text = old.text
          <6>1. \A u \in Mine(s, n) : u.no > row[n].latest
            BY <3>1 DEF FlushedFor
          <6>2. ASSUME NEW u \in Mine(s, n) PROVE u.no # old.latest
            <7>1. u.no \in Nat /\ u.no > row[n].latest
              BY <6>1 DEF Mine, IInv, TypeOK, SessionRecords, Flushes, Versions
            <7> QED
              BY <1>4, <5>1, <7>1
          <6> QED
            BY <1>3, <5>1, <6>2 DEF Known
        <5>4. old.latest = row'[n].latest => old.text = row'[n].text
          <6> SUFFICES ASSUME old.latest = row'[n].latest PROVE old.text = row'[n].text
            OBVIOUS
          <6>1. row[n].latest = row'[n].latest
            BY <1>4, <5>1
          <6>2. row'[n].text = row[n].text
            <7>1. CASE Holds(s, n)
              <8>1. row'[n] = sess[s].mine.rows[n]
                BY <1>3, <7>1 DEF Sees, Holds
              <8> QED
                BY <1>3, <3>1, <6>1, <7>1, <8>1 DEF FlushedFor
            <7>2. CASE ~Holds(s, n)
              BY <1>3, <7>2 DEF Sees, Holds
            <7> QED
              BY <7>1, <7>2
          <6> QED
            BY <5>1, <6>1, <6>2
        <5>5. sess[t].write.seen[n]' = old
          BY <2>1
        <5>6. Sees(t)'[n] = row'[n] /\ Known(t, n)' = Of(n)' /\ Reach(t, n)' = row'[n].latest
          BY <4>3, <4>4
        <5> QED
          BY <3>2, <4>2, <5>1, <5>2, <5>3, <5>4, <5>5, <5>6 DEF Saw
      <4> QED
        BY <4>5, <4>6, <4>7
    <3> QED
      BY <3>3, <3>4
  <2> QED
    BY <2>3, <2>4 DEF SessionOK
<1>7. \A t \in Sessions : SessionOK(t)'
  BY <1>2, <1>6, EndedOK
<1> QED
  BY <1>0, <1>5, <1>7 DEF IInv

-----------------------------------------------------------------------------
(***************************************************************************)
(* What follows from the invariant.                                        *)
(***************************************************************************)
LEMMA InitIInv ==
    Init => IInv
<1> SUFFICES ASSUME Init PROVE IInv
  OBVIOUS
<1>1. TypeOK
  BY InitType
<1>2. ASSUME NEW n \in Nodes
      PROVE  /\ row[n].latest = 1 /\ row[n].text = {}
             /\ \A v \in Of(n) : v.no = 1 /\ v.base = 0 /\ v.text = {} /\ v.kind = "revise"
             /\ \A u, v \in Of(n) : u = v
             /\ \E v \in Of(n) : TRUE
  <2> DEFINE first == [node |-> n, no |-> 1, base |-> 0, text |-> {},
                       kind |-> "revise", entry |-> NoEntry]
  <2>1. Of(n) = {first}
    BY DEF Init, Of
  <2>2. row[n].latest = 1 /\ row[n].text = {}
    BY DEF Init, NoRow
  <2> QED
    BY <2>1, <2>2
<1>3. ASSUME NEW n \in Nodes PROVE Numbered(Of(n), row[n].latest)
  <2>1. \A i \in 1 .. 1 : i = 1
    OBVIOUS
  <2>2. 1 \in 1 .. 1
    OBVIOUS
  <2> QED
    BY <1>2, <2>1, <2>2 DEF Numbered
<1>4. ASSUME NEW n \in Nodes PROVE Derived(Of(n)) /\ Told(Of(n), row[n])
  <2>1. \A v \in Of(n) : v.no = 1 /\ v.base = 0 /\ v.text = {} /\ row[n].text = {}
    BY <1>2
  <2>2. 0 < 1 /\ 0 # 1
    OBVIOUS
  <2>3. Derived(Of(n))
    BY <2>1, <2>2 DEF Derived
  <2>4. Told(Of(n), row[n])
    BY <2>1 DEF Told
  <2> QED
    BY <2>3, <2>4
<1>5. CommittedOK
  BY <1>2, <1>3, <1>4 DEF CommittedOK
<1>6. ASSUME NEW s \in Sessions PROVE SessionOK(s)
  <2>1. /\ sess[s].at = "idle" /\ sess[s].write = NoWrite /\ sess[s].mine = Nothing
    BY DEF Init, NoSession
  <2>2. WriteFor(s)
    BY <2>1 DEF WriteFor, NoWrite, Versioning, Counting
  <2>3. \A n \in Nodes : Mine(s, n) = {} /\ ~Holds(s, n) /\ ~Derives(s, n)
    BY <2>1 DEF Mine, Holds, Derives, NoWrite, Nothing
  <2> QED
    BY <2>2, <2>3 DEF SessionOK, FlushedFor, SeenFor, NextFor
<1> QED
  BY <1>1, <1>5, <1>6 DEF IInv

LEMMA NextIInv ==
    IInv /\ [Next]_vars => IInv'
<1> SUFFICES ASSUME IInv, [Next]_vars PROVE IInv'
  OBVIOUS
<1>1. CASE UNCHANGED vars
  <2>1. UNCHANGED <<row, versions>> /\ sess' = sess /\ queue' = queue
    BY <1>1 DEF vars
  <2>2. TypeOK'
    BY <2>1 DEF IInv, TypeOK, LocksExclude
  <2>3. CommittedOK'
    BY <2>1 DEF IInv, CommittedOK, Of
  <2>4. \A t \in Sessions : SessionOK(t)'
    BY <2>1, Alone DEF IInv
  <2> QED
    BY <2>2, <2>3, <2>4 DEF IInv
<1>2. CASE Next
  <2>1. PICK s \in Sessions :
          \/ BeginUpdate(s) \/ BeginVersion(s) \/ BeginCounting(s)
          \/ Step(s) \/ Rollback(s)
    BY <1>2 DEF Next
  <2> QED
    BY <2>1, BeginKeeps, CheckKeeps, LookupKeeps, EnterKeeps, WriteKeeps, InsertKeeps,
       CommitKeeps, GivesKeeps DEF Step, Gives
<1> QED
  BY <1>1, <1>2

LEMMA InvariantHolds ==
    Spec => []IInv
<1> QED
  BY InitIInv, NextIInv, PTL DEF Spec

\* Numbers from one to k, each once, are as many as k.
LEMMA NumberedCount ==
    ASSUME NEW S, NEW k \in Nat, Numbered(S, k)
    PROVE  Cardinality(S) = k /\ {v.no : v \in S} = 1 .. k
<1> DEFINE f == [i \in 1 .. k |-> CHOOSE v \in S : v.no = i]
<1>1. \A i \in 1 .. k : f[i] \in S /\ f[i].no = i
  BY DEF Numbered
<1>2. \A v \in S : v.no \in 1 .. k /\ f[v.no] = v
  BY <1>1 DEF Numbered
<1>3. f \in [1 .. k -> S]
  BY <1>1
<1> HIDE DEF f
<1>4. f \in Injection(1 .. k, S)
  BY <1>1, <1>3 DEF Injection, IsInjective
<1>5. f \in Surjection(1 .. k, S)
  BY <1>2, <1>3 DEF Surjection
<1>6. ExistsBijection(1 .. k, S)
  BY <1>4, <1>5 DEF ExistsBijection, Bijection
<1>7. IsFiniteSet(1 .. k) /\ Cardinality(1 .. k) = k
  BY FS_Interval
<1>8. Cardinality(S) = k
  BY <1>6, <1>7, FS_Bijection
<1>9. {v.no : v \in S} = 1 .. k
  BY <1>1, <1>2
<1> QED
  BY <1>8, <1>9

\* The rows, the versions, the queue and the sessions keep their types, the
\* queue of a process has at most one user and a row one holder of its lock.
THEOREM TypeCorrect ==
    Spec => []TypeOK
<1>1. IInv => TypeOK
  BY DEF IInv
<1> QED
  BY <1>1, InvariantHolds, PTL

\* For any nodes, sessions and processes the committed versions of a node are
\* numbered without gap or double, and its row points at the newest.
THEOREM NumberedThrough ==
    Spec => []VersionsNumbered
<1>1. IInv => VersionsNumbered
  <2> SUFFICES ASSUME IInv, NEW n \in Nodes
               PROVE  /\ {v.no : v \in Of(n)} = 1 .. Cardinality(Of(n))
                      /\ row[n].latest = Cardinality(Of(n))
                      /\ \A v \in Of(n) : v.base < v.no
    BY DEF VersionsNumbered
  <2>1. row[n].latest \in Nat /\ Numbered(Of(n), row[n].latest) /\ Derived(Of(n))
    BY DEF IInv, CommittedOK, TypeOK, Rows
  <2> QED
    BY <2>1, NumberedCount DEF Derived
<1> QED
  BY <1>1, InvariantHolds, PTL

\* A log entry keeps what the version it is derived from says.
THEOREM LossRecorded ==
    Spec => []LossIsRecorded
<1>1. IInv => LossIsRecorded
  <2> SUFFICES ASSUME IInv, NEW u \in versions, NEW v \in versions, u.node = v.node,
                      u.no = v.base, u.kind # "forget", v.kind = "log"
               PROVE  u.text \subseteq v.text
    BY DEF LossIsRecorded
  <2>1. v.node \in Nodes
    BY DEF IInv, TypeOK, Versions
  <2>2. Derived(Of(v.node)) /\ u \in Of(v.node) /\ v \in Of(v.node)
    BY <2>1 DEF IInv, CommittedOK, Of
  <2> QED
    BY <2>2 DEF Derived
<1> QED
  BY <1>1, InvariantHolds, PTL

\* A node says what its newest version says, but for a forgetting derived from
\* an older one.
THEOREM ContentMatches ==
    Spec => []ContentMatchesHistory
<1>1. IInv => ContentMatchesHistory
  <2> SUFFICES ASSUME IInv, NEW v \in versions, v.no = row[v.node].latest,
                      v.kind # "forget" \/ v.base = v.no - 1
               PROVE  row[v.node].text = v.text
    BY DEF ContentMatchesHistory
  <2>1. v.node \in Nodes
    BY DEF IInv, TypeOK, Versions
  <2>2. Told(Of(v.node), row[v.node]) /\ v \in Of(v.node)
    BY <2>1 DEF IInv, CommittedOK, Of
  <2> QED
    BY <2>2 DEF Told
<1> QED
  BY <1>1, InvariantHolds, PTL

-----------------------------------------------------------------------------
(***************************************************************************)
(* Counts.                                                                 *)
(***************************************************************************)
\* The counts of the rows are numbers, those a session sees are in order.
LEMMA SeesWithin ==
    ASSUME IInv, CountInv, NEW s \in Sessions, NEW n \in Nodes
    PROVE  /\ Within(Sees(s)[n])
           /\ Sees(s)[n] \in Rows /\ row[n] \in Rows
           /\ Sees(s)[n].children >= row[n].children
           /\ Sees(s)[n].edges >= row[n].edges
<1>1. Sees(s)[n] \in Rows /\ row[n] \in Rows
  BY SeesType DEF IInv, TypeOK
<1>2. CountFor(s, n) /\ Within(row[n])
  BY DEF CountInv
<1>3. CASE Holds(s, n)
  <2>1. Sees(s)[n] = sess[s].mine.rows[n]
    BY <1>3 DEF Holds, Sees
  <2> QED
    BY <1>1, <1>2, <1>3, <2>1 DEF CountFor
<1>4. CASE ~Holds(s, n)
  <2>1. Sees(s)[n] = row[n]
    BY <1>4 DEF Holds, Sees
  <2>2. row[n].children \in Nat /\ row[n].edges \in Nat
    BY <1>1 DEF Rows
  <2> QED
    BY <1>1, <1>2, <2>1, <2>2
<1> QED
  BY <1>3, <1>4

\* A session that changes nothing committed has only its own counts to keep.
LEMMA CountsAlone ==
    ASSUME CountInv, NEW s \in Sessions, UNCHANGED row,
           \A t \in Sessions : t # s => sess'[t] = sess[t],
           \A n \in Nodes : CountFor(s, n)'
    PROVE  CountInv'
<1>1. \A t \in Sessions, n \in Nodes : t # s => CountFor(t, n)'
  BY DEF CountInv, CountFor, Holds, Counts, Sees
<1> QED
  BY <1>1 DEF CountInv

LEMMA CountsQuiet ==
    ASSUME CountInv, NEW s \in Sessions, UNCHANGED row,
           \A t \in Sessions : t # s => sess'[t] = sess[t],
           sess'[s].mine.rows = sess[s].mine.rows, sess'[s].at # "inside"
    PROVE  CountInv'
<1>1. \A n \in Nodes : CountFor(s, n)'
  BY DEF CountInv, CountFor, Holds, Counts
<1> QED
  BY <1>1, CountsAlone

LEMMA EnterCounts ==
    ASSUME IInv, CountInv, NEW s \in Sessions, Enter(s)
    PROVE  CountInv'
<1>1. PICK w \in WriteRecords :
        /\ sess' = [sess EXCEPT ![s].at = "inside", ![s].write = w]
        /\ w.kind \in Counting => w.seen = Reads(s, w.nodes)
  BY EnterEffect
<1>2. UNCHANGED row
  BY DEF Enter
<1>3. /\ sess'[s].at = "inside" /\ sess'[s].write = w
      /\ sess'[s].mine = sess[s].mine
      /\ \A t \in Sessions : t # s => sess'[t] = sess[t]
  BY <1>1 DEF IInv, TypeOK, SessionRecords
<1>4. ASSUME NEW n \in Nodes PROVE CountFor(s, n)'
  <2>1. CountFor(s, n) /\ Within(Sees(s)[n])
    BY SeesWithin DEF CountInv
  <2>2. Sees(s)'[n] = Sees(s)[n] /\ Holds(s, n)' = Holds(s, n)
    BY <1>2, <1>3 DEF Sees, Holds
  <2>3. Counts(s, n)' => w.seen[n] = Sees(s)[n]
    BY <1>1, <1>3 DEF Counts, Reads
  <2> QED
    BY <1>2, <1>3, <2>1, <2>2, <2>3 DEF CountFor, Within
<1> QED
  BY <1>2, <1>3, <1>4, CountsAlone

LEMMA WriteCounts ==
    ASSUME IInv, CountInv, NEW s \in Sessions, Write(s)
    PROVE  CountInv'
<1> DEFINE w == sess[s].write
<1>1. PICK n \in sess[s].write.todo, r \in Rows :
        /\ n \in Nodes /\ n \in sess[s].write.nodes
        /\ r = Written(sess[s].write, n, Sees(s)[n])
        /\ sess[s].at = "inside"
        /\ sess'[s].at = "inside"
        /\ sess'[s].write = [sess[s].write EXCEPT !.todo = @ \ {n}]
        /\ sess'[s].mine.rows = [sess[s].mine.rows EXCEPT ![n] = r]
        /\ \A t \in Sessions : t # s => sess'[t] = sess[t]
        /\ UNCHANGED <<row, versions>>
  BY WriteEffect
<1>2. /\ WriteFor(s) /\ w \in WriteRecords
      /\ sess[s].mine.rows \in [Nodes -> Rows \cup {None}]
      /\ \A m \in Nodes : CountFor(s, m)
  BY DEF IInv, SessionOK, TypeOK, SessionRecords, Flushes, CountInv
<1>3. /\ sess'[s].write.kind = w.kind /\ sess'[s].write.nodes = w.nodes
      /\ sess'[s].write.seen = w.seen
      /\ sess'[s].write.todo = w.todo \ {n}
  BY <1>1, <1>2 DEF WriteRecords
<1>4. ASSUME NEW m \in Nodes, m # n PROVE CountFor(s, m)'
  <2>1. sess'[s].mine.rows[m] = sess[s].mine.rows[m]
    BY <1>1, <1>2, <1>4
  <2>2. /\ Sees(s)'[m] = Sees(s)[m] /\ Holds(s, m)' = Holds(s, m)
        /\ Counts(s, m)' => Counts(s, m)
    BY <1>1, <1>3, <2>1 DEF Sees, Holds, Counts
  <2> QED
    BY <1>1, <1>2, <1>3, <2>1, <2>2 DEF CountFor
<1>5. CountFor(s, n)'
  <2>1. ~Counts(s, n)'
    BY <1>3 DEF Counts
  <2>2. sess'[s].mine.rows[n] = r
    BY <1>1, <1>2
  <2>3. /\ Within(Sees(s)[n]) /\ Sees(s)[n] \in Rows /\ row[n] \in Rows
        /\ Sees(s)[n].children >= row[n].children
        /\ Sees(s)[n].edges >= row[n].edges
    BY <1>1, SeesWithin
  <2>4. /\ r.children \in Nat /\ r.edges \in Nat /\ r.kids \in Nat /\ r.links \in Nat
        /\ Sees(s)[n].children \in Nat /\ Sees(s)[n].edges \in Nat
        /\ Sees(s)[n].kids \in Nat /\ Sees(s)[n].links \in Nat
        /\ row[n].children \in Nat /\ row[n].edges \in Nat
    BY <2>3 DEF Rows
  <2>5. CASE w.kind \notin Counting
    <3>1. /\ r.kids = Sees(s)[n].kids /\ r.links = Sees(s)[n].links
          /\ r.children = Sees(s)[n].children /\ r.edges = Sees(s)[n].edges
      BY <1>1, <2>3, <2>5 DEF Written, Counting, Rows
    <3> QED
      BY <1>1, <2>1, <2>2, <2>3, <3>1 DEF CountFor, Within
  <2>6. CASE w.kind \in Counting
    <3>1. Counts(s, n)
      BY <1>1, <2>6 DEF Counts
    <3>2. /\ w.seen[n].kids <= Sees(s)[n].children
          /\ w.seen[n].links <= Sees(s)[n].edges
          /\ w.seen[n].kids \in Nat /\ w.seen[n].links \in Nat
      BY <1>1, <1>2, <3>1 DEF CountFor, WriteFor, Rows
    <3>3. CASE w.kind = "child"
      <4>1. /\ r.kids = w.seen[n].kids + 1 /\ r.links = Sees(s)[n].links
            /\ r.children = Sees(s)[n].children + 1 /\ r.edges = Sees(s)[n].edges
        BY <1>1, <2>3, <3>3 DEF Written, Count, Rows
      <4>2. Within(r) /\ r.children >= row[n].children /\ r.edges >= row[n].edges
        BY <2>3, <2>4, <3>2, <4>1 DEF Within
      <4> QED
        BY <1>1, <2>1, <2>2, <4>2 DEF CountFor
    <3>4. CASE w.kind = "edge"
      <4>1. /\ r.kids = Sees(s)[n].kids /\ r.links = w.seen[n].links + 1
            /\ r.children = Sees(s)[n].children /\ r.edges = Sees(s)[n].edges + 1
        BY <1>1, <2>3, <3>4 DEF Written, Count, Rows
      <4>2. Within(r) /\ r.children >= row[n].children /\ r.edges >= row[n].edges
        BY <2>3, <2>4, <3>2, <4>1 DEF Within
      <4> QED
        BY <1>1, <2>1, <2>2, <4>2 DEF CountFor
    <3> QED
      BY <2>6, <3>3, <3>4 DEF Counting
  <2> QED
    BY <2>5, <2>6
<1> QED
  BY <1>1, <1>4, <1>5, CountsAlone

LEMMA CommitCounts ==
    ASSUME IInv, CountInv, NEW s \in Sessions, Commit(s)
    PROVE  CountInv'
<1>1. /\ row' = Sees(s) /\ sess' = [sess EXCEPT ![s] = Ended]
  BY DEF Commit
<1>2. sess'[s] = Ended /\ \A t \in Sessions : t # s => sess'[t] = sess[t]
  BY <1>1 DEF IInv, TypeOK
<1>3. \A n \in Nodes : Within(row'[n])
  BY <1>1, SeesWithin
<1>4. ASSUME NEW t \in Sessions, NEW n \in Nodes PROVE CountFor(t, n)'
  <2>1. CASE t = s
    BY <1>2, <2>1, EndedRecord DEF CountFor, Holds, Counts
  <2>2. CASE t # s
    <3>1. sess'[t] = sess[t] /\ CountFor(t, n)
      BY <1>2, <2>2 DEF CountInv
    <3>2. CASE Holds(t, n)
      <4>1. ~Holds(s, n)
        BY <2>2, <3>2 DEF IInv, TypeOK, LocksExclude, Holds
      <4>2. row'[n] = row[n]
        BY <1>1, <4>1 DEF Sees, Holds
      <4> QED
        BY <3>1, <4>2 DEF CountFor, Holds, Counts, Sees
    <3>3. CASE ~Holds(t, n)
      <4>1. Sees(t)[n] = row[n] /\ Sees(t)'[n] = row'[n] /\ ~Holds(t, n)'
        BY <3>1, <3>3 DEF Sees, Holds
      <4>2. /\ row'[n].children >= row[n].children /\ row'[n].edges >= row[n].edges
            /\ row'[n] \in Rows /\ row[n] \in Rows
        BY <1>1, SeesWithin
      <4>3. CASE ~Counts(t, n)
        BY <3>1, <4>1, <4>3 DEF CountFor, Counts
      <4>4. CASE Counts(t, n)
        <5>1. sess[t].write.seen[n] \in Rows
          BY <4>4 DEF Counts, IInv, SessionOK, WriteFor
        <5>2. /\ sess[t].write.seen[n].kids <= row[n].children
              /\ sess[t].write.seen[n].links <= row[n].edges
          BY <3>1, <4>1, <4>4 DEF CountFor
        <5>3. /\ sess[t].write.seen[n].kids <= row'[n].children
              /\ sess[t].write.seen[n].links <= row'[n].edges
          BY <4>2, <5>1, <5>2 DEF Rows
        <5> QED
          BY <3>1, <4>1, <5>3 DEF CountFor
      <4> QED
        BY <4>3, <4>4
    <3> QED
      BY <3>2, <3>3
  <2> QED
    BY <2>1, <2>2
<1> QED
  BY <1>3, <1>4 DEF CountInv

LEMMA NextCounts ==
    IInv /\ CountInv /\ [Next]_vars => CountInv'
<1> SUFFICES ASSUME IInv, CountInv, [Next]_vars PROVE CountInv'
  OBVIOUS
<1>1. CASE UNCHANGED vars
  BY <1>1 DEF vars, CountInv, CountFor, Holds, Counts, Sees
<1>2. ASSUME NEW s \in Sessions,
             BeginUpdate(s) \/ BeginVersion(s) \/ BeginCounting(s)
      PROVE  CountInv'
  <2>1. PICK at \in {"read", "waiting"}, w \in WriteRecords :
          /\ sess' = [sess EXCEPT ![s].at = at, ![s].write = w]
          /\ UNCHANGED <<row, versions, queue>>
    BY <1>2, BeginShape DEF IInv
  <2>2. /\ sess'[s].mine = sess[s].mine /\ sess'[s].at = at
        /\ \A t \in Sessions : t # s => sess'[t] = sess[t]
    BY <2>1 DEF IInv, TypeOK, SessionRecords
  <2>3. at # "inside"
    OBVIOUS
  <2> QED
    BY <2>1, <2>2, <2>3, CountsQuiet
<1>3. ASSUME NEW s \in Sessions, Check(s) \/ Lookup(s) PROVE CountInv'
  <2>1. /\ sess'[s].mine = sess[s].mine /\ sess'[s].at # "inside"
        /\ \A t \in Sessions : t # s => sess'[t] = sess[t]
        /\ UNCHANGED row
    BY <1>3 DEF Check, Lookup, Goes, IInv, TypeOK, SessionRecords
  <2> QED
    BY <2>1, CountsQuiet
<1>4. ASSUME NEW s \in Sessions, Insert(s) PROVE CountInv'
  <2>1. /\ sess'[s].at = "open" /\ sess'[s].mine.rows = sess[s].mine.rows
        /\ \A t \in Sessions : t # s => sess'[t] = sess[t]
        /\ UNCHANGED <<row, versions>>
    BY <1>4, InsertEffect
  <2> QED
    BY <2>1, CountsQuiet
<1>5. ASSUME NEW s \in Sessions, Gives(s) PROVE CountInv'
  <2>1. sess' = [sess EXCEPT ![s] = Ended] /\ UNCHANGED <<row, versions>>
    BY <1>5, GivesEffect
  <2>2. sess'[s] = Ended /\ \A t \in Sessions : t # s => sess'[t] = sess[t]
    BY <2>1 DEF IInv, TypeOK
  <2>3. \A n \in Nodes : CountFor(s, n)'
    BY <2>2, EndedRecord DEF CountFor, Holds, Counts
  <2> QED
    BY <2>1, <2>2, <2>3, CountsAlone
<1>6. CASE Next
  BY <1>2, <1>3, <1>4, <1>5, <1>6, EnterCounts, WriteCounts, CommitCounts
     DEF Next, Step, Gives
<1> QED
  BY <1>1, <1>6

\* However the writers of a row race, it never counts more children or links
\* than it has.
THEOREM CountsWithin ==
    Spec => []CountsNeverExceed
<1>1. Init => CountInv
  <2> SUFFICES ASSUME Init PROVE CountInv
    OBVIOUS
  <2>1. \A n \in Nodes : Within(row[n])
    BY DEF Init, NoRow, Within
  <2>2. \A s \in Sessions, n \in Nodes : CountFor(s, n)
    BY DEF Init, NoSession, Nothing, CountFor, Holds, Counts
  <2> QED
    BY <2>1, <2>2 DEF CountInv
<1>2. CountInv => CountsNeverExceed
  BY DEF CountInv, CountsNeverExceed, Within
<1> QED
  BY <1>1, <1>2, NextCounts, InvariantHolds, PTL DEF Spec

=============================================================================
