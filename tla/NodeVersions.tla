---------------------------- MODULE NodeVersions ----------------------------
(***************************************************************************)
(* Writing to the nodes of the memory tree and their versions              *)
(* (persistence/repositories/memory.py, create_node to                     *)
(* append_memory_log_entry) from sessions of several processes on          *)
(* Postgres.                                                               *)
(*                                                                         *)
(* A write reads the row of its node, waits for the write queue of its     *)
(* process and branch (run_serialized_write, modelled by                   *)
(* KeyedOperationQueue), computes and flushes; the queue is left then, but *)
(* the transaction, and with it the row lock of the UPDATE, lasts until    *)
(* the session_scope is left.  A row read before the queue is not read     *)
(* again inside it when the caller keeps a reference to it.  Branches are  *)
(* independent of each other, so there is one.  A session makes one        *)
(* transaction.  What a version says is the set of entries in it; an entry *)
(* is named by the session and the write that brought it.                  *)
(***************************************************************************)
EXTENDS Integers, FiniteSets

CONSTANTS
    Nodes,          \* numbers, in the order in which a flush writes them
    Sessions, Processes,
    ProcessOf,      \* the process of a session
    KindsOf,        \* the kinds of write a session may make
    Writes,         \* bound: the writes a session makes
    None

\* Kinds of writes that append a version: an update checked against the version
\* its caller knows, an unchecked revision, a log entry, and a new status.
Versioning == {"update", "revise", "log", "forget"}
\* Kinds that count: a child of a node, an edge between two.
Counting == {"child", "edge"}

ASSUME NodesAssumption ==
    /\ Nodes \subseteq Nat /\ IsFiniteSet(Nodes)
    /\ ProcessOf \in [Sessions -> Processes]
    /\ KindsOf \in [Sessions -> SUBSET (Versioning \cup Counting)]
    /\ Writes \in [Sessions -> Nat \ {0}]
    /\ None \notin Sessions

VARIABLES
    row,            \* the committed row of a node
    versions,       \* the committed rows of node_versions
    queue,          \* who is in the write queue of a process
    sess            \* the sessions

vars == <<row, versions, queue, sess>>

-----------------------------------------------------------------------------
Entries == Sessions \X Nat
NoEntry == <<>>

\* Kids and links are the columns that count the rows children and edges.
Rows == [latest : Nat, text : SUBSET Entries, kids : Nat, links : Nat,
         children : Nat, edges : Nat]
ASSUME NoneIsNoRow == None \notin Rows

Versions == [node : Nodes, no : Nat, base : Nat, text : SUBSET Entries,
             kind : Versioning, entry : Entries \cup {NoEntry}]

\* A write: where it stands, what it saw, and the rows it has yet to write.
Places == {"idle", "read", "checked", "waiting", "inside", "open", "ended"}
NoWrite == [kind |-> "none", nodes |-> {}, entry |-> NoEntry, expected |-> 0,
            seen |-> [n \in Nodes |-> None], next |-> 0, todo |-> {}]

\* What a session has flushed and not committed.
Nothing == [rows |-> [n \in Nodes |-> None], added |-> {}]
NoRow == [latest |-> 0, text |-> {}, kids |-> 0, links |-> 0, children |-> 0, edges |-> 0]
NoSession == [at |-> "idle", write |-> NoWrite, mine |-> Nothing, made |-> 0]
Ended == [NoSession EXCEPT !.at = "ended"]

WriteRecords == [kind : Versioning \cup Counting \cup {"none"}, nodes : SUBSET Nodes,
                 entry : Entries \cup {NoEntry}, expected : Nat,
                 seen : [Nodes -> Rows \cup {None}],
                 next : Nat, todo : SUBSET Nodes]
Flushes == [rows : [Nodes -> Rows \cup {None}], added : SUBSET Versions]
SessionRecords == [at : Places, write : WriteRecords, mine : Flushes, made : Nat]

\* One session at a time holds the lock of a row.
LocksExclude ==
    \A s, t \in Sessions, n \in Nodes :
        sess[s].mine.rows[n] # None /\ sess[t].mine.rows[n] # None => s = t

TypeOK ==
    /\ row \in [Nodes -> Rows]
    /\ versions \subseteq Versions
    /\ queue \in [Processes -> Sessions \cup {None}]
    /\ sess \in [Sessions -> SessionRecords]
    /\ \A s \in Sessions :
          /\ sess[s].made <= Writes[s]
          /\ sess[s].made = Writes[s] => sess[s].at = "open"
          /\ sess[s].at = "inside" <=> queue[ProcessOf[s]] = s
    /\ LocksExclude

Init ==
    /\ row = [n \in Nodes |-> [NoRow EXCEPT !.latest = 1]]
    /\ versions = {[node |-> n, no |-> 1, base |-> 0, text |-> {},
                    kind |-> "revise", entry |-> NoEntry] : n \in Nodes}
    /\ queue = [p \in Processes |-> None]
    /\ sess = [s \in Sessions |-> NoSession]

-----------------------------------------------------------------------------
(***************************************************************************)
(* What a session sees: its own writes and what is committed.              *)
(***************************************************************************)
Sees(s) == [n \in Nodes |-> IF sess[s].mine.rows[n] = None THEN row[n]
                            ELSE sess[s].mine.rows[n]]
Reads(s, these) == [n \in Nodes |-> IF n \in these THEN Sees(s)[n] ELSE None]

Newest(all, n) == CHOOSE k \in {v.no : v \in {v \in all : v.node = n}} :
                      \A v \in all : v.node = n => v.no <= k

\* The session that holds the row lock of a node.
LockedBy(s, n) == {t \in Sessions \ {s} : sess[t].mine.rows[n] # None}

\* The row that a flush writes next, and who keeps it from doing so.
NextRow(s) == CHOOSE n \in sess[s].write.todo : \A m \in sess[s].write.todo : n <= m
Blockers(s) ==
    IF sess[s].at = "inside" /\ sess[s].write.todo # {} THEN LockedBy(s, NextRow(s))
    ELSE {}

-----------------------------------------------------------------------------
(***************************************************************************)
(* A write.                                                                *)
(***************************************************************************)
Goes(s, at, write) ==
    sess' = [sess EXCEPT ![s].at = at, ![s].write = write]

\* The first write of a transaction or another one.
Starts(s) ==
    \/ sess[s].at = "idle"
    \/ sess[s].at = "open" /\ sess[s].made < Writes[s]

Begin(s, at, write) ==
    /\ Starts(s)
    /\ write.kind \in KindsOf[s]
    /\ Goes(s, at, [write EXCEPT !.entry = <<s, sess[s].made>>])
    /\ UNCHANGED <<row, versions, queue>>

\* The caller of update_memory_with_version knows some version of the node; the
\* tool does nothing else in its session.
BeginUpdate(s) ==
    /\ sess[s].at = "idle"
    /\ \E n \in Nodes :
          Begin(s, "read", [NoWrite EXCEPT !.kind = "update", !.nodes = {n},
                                           !.expected = row[n].latest])

\* append_version and append_memory_log_entry read the node and keep it.
BeginVersion(s) ==
    \E n \in Nodes, kind \in {"revise", "log", "forget"} :
        Begin(s, "waiting", [NoWrite EXCEPT !.kind = kind, !.nodes = {n},
                                            !.seen = Reads(s, {n})])

\* create_node and create_edge read nothing before the queue.
BeginCounting(s) ==
    \/ \E n \in Nodes :
          Begin(s, "waiting", [NoWrite EXCEPT !.kind = "child", !.nodes = {n}])
    \/ \E n, m \in Nodes :
          n < m /\ Begin(s, "waiting", [NoWrite EXCEPT !.kind = "edge", !.nodes = {n, m}])

\* The node moved on: a conflict is reported and nothing written.
Conflict(s) ==
    /\ sess[s].at = "read"
    /\ \E n \in sess[s].write.nodes : Sees(s)[n].latest # sess[s].write.expected
    /\ sess' = [sess EXCEPT ![s] = Ended]
    /\ UNCHANGED <<row, versions, queue>>

\* It did not, as far as the tool saw: append_version reads it anew.
Check(s) ==
    /\ sess[s].at = "read"
    /\ \A n \in sess[s].write.nodes : Sees(s)[n].latest = sess[s].write.expected
    /\ sess' = [sess EXCEPT ![s].at = "checked"]
    /\ UNCHANGED <<row, versions, queue>>

Lookup(s) ==
    /\ sess[s].at = "checked"
    /\ Goes(s, "waiting", [sess[s].write EXCEPT !.seen = Reads(s, sess[s].write.nodes)])
    /\ UNCHANGED <<row, versions, queue>>

\* The number of the next version is read from the versions, in the queue.
NextVersion(s) ==
    LET n == CHOOSE n \in sess[s].write.nodes : TRUE IN
    Newest(versions \cup sess[s].mine.added, n) + 1

\* The queue is entered, and the parent or the ends of an edge are read.
Enter(s) ==
    LET w == sess[s].write
        counting == w.kind \in Counting IN
    /\ sess[s].at = "waiting"
    /\ queue[ProcessOf[s]] = None
    /\ queue' = [queue EXCEPT ![ProcessOf[s]] = s]
    /\ Goes(s, "inside", [w EXCEPT !.todo = w.nodes,
                                   !.seen = IF counting THEN Reads(s, w.nodes) ELSE @,
                                   !.next = IF counting THEN 0 ELSE NextVersion(s)])
    /\ UNCHANGED <<row, versions>>

\* The content of the node after the write.
Content(w, n) ==
    IF w.kind \in {"update", "revise"} THEN {w.entry}
    ELSE IF w.kind = "log" THEN w.seen[n].text \cup {w.entry}
    ELSE w.seen[n].text

\* Mutant: the version is taken before the content is set.
SnapshotBefore(w, n) == w.seen[n].text

\* What the new version says of it.
Snapshot(w, n) == Content(w, n)

Count(k) == k + 1

\* An UPDATE writes the columns that changed, with the values the session
\* computed from what it saw; the others keep what was committed meanwhile.
Written(w, n, now) ==
    IF w.kind = "child"
    THEN [now EXCEPT !.kids = Count(w.seen[n].kids), !.children = @ + 1]
    ELSE IF w.kind = "edge"
    THEN [now EXCEPT !.links = Count(w.seen[n].links), !.edges = @ + 1]
    ELSE IF w.kind = "forget" THEN [now EXCEPT !.latest = w.next]
    ELSE [now EXCEPT !.latest = w.next, !.text = Content(w, n)]

\* The UPDATE of a row waits for the transaction that has it locked.
Write(s) ==
    LET w == sess[s].write
        n == NextRow(s) IN
    /\ sess[s].at = "inside"
    /\ w.todo # {}
    /\ Blockers(s) = {}
    /\ sess' = [sess EXCEPT ![s].mine.rows[n] = Written(w, n, Sees(s)[n]),
                            ![s].write.todo = @ \ {n}]
    /\ UNCHANGED <<row, versions, queue>>

Leaves(s) == queue' = [queue EXCEPT ![ProcessOf[s]] = None]

\* Mutant: the unique constraint is missing.
NeverTaken(w) == FALSE

\* Another version has the number already.
Taken(w) == \E v \in versions : v.node \in w.nodes /\ v.no = w.next

Flushed(s) == sess[s].at = "inside" /\ sess[s].write.todo = {}

\* Mutant: a version is derived from the one that was there before it.
BaseOfQueue(w, n) == w.next - 1

\* The version that a new one is derived from.
Base(w, n) == w.seen[n].latest

\* The rest of the flush, the INSERT of the version; the queue is left, not the
\* transaction.
Insert(s) ==
    LET w == sess[s].write
        made == {[node |-> n, no |-> w.next, base |-> Base(w, n),
                  text |-> Snapshot(w, n), kind |-> w.kind, entry |-> w.entry] :
                     n \in w.nodes} IN
    /\ Flushed(s)
    /\ w.kind \in Versioning => ~Taken(w)
    /\ Leaves(s)
    /\ sess' = [sess EXCEPT ![s].at = "open", ![s].write = NoWrite, ![s].made = @ + 1,
                            ![s].mine.added = @ \cup (IF w.kind \in Versioning THEN made
                                                      ELSE {})]
    /\ UNCHANGED <<row, versions>>

-----------------------------------------------------------------------------
(***************************************************************************)
(* A transaction ends.                                                     *)
(***************************************************************************)
\* Mutant: an error in the queue leaves it taken.
LeavesNot(s) == UNCHANGED queue

\* The queue is left in a finally clause.
LeavesFailing(s) == Leaves(s)

\* An exception inside the queue rolls the whole transaction back.
Fails(s) ==
    /\ LeavesFailing(s)
    /\ sess' = [sess EXCEPT ![s] = Ended]
    /\ UNCHANGED <<row, versions>>

\* IntegrityError
Refused(s) ==
    /\ Flushed(s)
    /\ sess[s].write.kind \in Versioning
    /\ Taken(sess[s].write)
    /\ Fails(s)

\* Postgres finds a circle of row locks and aborts one of its transactions.
Circle(C) == C # {} /\ \A s \in C : Blockers(s) \cap C # {}
Deadlocked(s) ==
    /\ \E C \in SUBSET Sessions :
          s \in C /\ Circle(C) /\ \A D \in SUBSET C : Circle(D) => D = C
    /\ Fails(s)

\* Something else in the transaction goes wrong after the write.
Rollback(s) ==
    /\ sess[s].at = "open"
    /\ sess' = [sess EXCEPT ![s] = Ended]
    /\ UNCHANGED <<row, versions, queue>>

Commit(s) ==
    /\ sess[s].at = "open"
    /\ row' = Sees(s)
    /\ versions' = versions \cup sess[s].mine.added
    /\ sess' = [sess EXCEPT ![s] = Ended]
    /\ UNCHANGED <<queue>>

Step(s) ==
    \/ Conflict(s) \/ Check(s) \/ Lookup(s)
    \/ Enter(s) \/ Write(s) \/ Insert(s) \/ Refused(s) \/ Deadlocked(s) \/ Commit(s)

Next ==
    \E s \in Sessions :
        \/ BeginUpdate(s) \/ BeginVersion(s) \/ BeginCounting(s)
        \/ Step(s)
        \/ Rollback(s)

Spec == Init /\ [][Next]_vars

\* Threads and the database go on; nothing obliges a caller to begin, or a
\* transaction to fail.
FairSpec == Spec /\ \A s \in Sessions : WF_vars(Step(s))

-----------------------------------------------------------------------------
(***************************************************************************)
(* Properties.                                                             *)
(***************************************************************************)
Of(n) == {v \in versions : v.node = n}

\* Whatever rows the writers saw, the committed versions of a node are numbered
\* from one without a gap or a double, the row points at the newest, and a
\* version is derived from an older one (memory.py:187-244).
VersionsNumbered ==
    \A n \in Nodes :
        /\ {v.no : v \in Of(n)} = 1 .. Cardinality(Of(n))
        /\ row[n].latest = Cardinality(Of(n))
        /\ \A v \in Of(n) : v.base < v.no

\* A log entry that overwrites others says so: it keeps all that the version
\* before it said when it is derived from it (memory.py:237).
LossIsRecorded ==
    \A u, v \in versions :
        u.node = v.node /\ u.no = v.base /\ u.kind # "forget" /\ v.kind = "log"
            => u.text \subseteq v.text

\* A node says what its newest version says, except after a forgetting that did
\* not see the version before it (memory.py:198-236).
ContentMatchesHistory ==
    \A v \in versions :
        v.no = row[v.node].latest /\ (v.kind # "forget" \/ v.base = v.no - 1)
            => row[v.node].text = v.text

\* The counts of a node may lose children and edges to a race but never gain any
\* (memory.py:137, 175-179).
CountsNeverExceed ==
    \A n \in Nodes : row[n].kids <= row[n].children /\ row[n].links <= row[n].edges

\* Every write ends, although the queue is held while a row lock is waited for,
\* as long as no two sessions of one process write more than once.
SessionsEnd == \A s \in Sessions : sess[s].at # "idle" ~> sess[s].at = "ended"

\* Log entries appended concurrently are all kept
\* (tests/runtime/test_runtime_core_and_memory.py:593).
LogKeepsEntries ==
    \A n \in Nodes :
        (\A v \in Of(n) : v.kind = "log" \/ v.no = 1)
            => row[n].text = {v.entry : v \in Of(n)} \ {NoEntry}
=============================================================================
