------------------------- MODULE KeyedOperationQueue -------------------------
(***************************************************************************)
(* persistence/write_queue.py: the in-process registry of one lock per     *)
(* write key.  A thread registers for a key under the meta lock (creating  *)
(* the key's lock when it is absent), acquires the lock it was given, runs *)
(* its operation, releases the lock, and in a second section of the meta   *)
(* lock gives up its reference; the last reference removes the lock from   *)
(* the registry.  The next thread then gets a lock object of its own, so   *)
(* the count must never reach zero while somebody still holds or awaits    *)
(* the old object.                                                         *)
(*                                                                         *)
(* Each section of the meta lock is one action.  Lock objects come from a  *)
(* pool: a new threading.Lock() is an object nothing refers to.  An        *)
(* operation may call run_serialized_write again for another key; Nests    *)
(* holds the pairs <<outer, inner>> for which it does.                     *)
(***************************************************************************)
EXTENDS Integers, FiniteSets

CONSTANTS
    Threads,            \* threads of the process
    Keys,               \* write keys
    Nests,              \* <<outer, inner>>: an operation of outer may enter inner
    Locks,              \* threading.Lock objects
    None                \* no lock, or nobody

ASSUME QueueAssumption ==
    /\ IsFiniteSet(Threads)
    /\ None \notin Threads \cup Locks
    /\ Nests \subseteq Keys \X Keys
    \* no operation enters, through others, the key it is running under
    /\ \A j, k \in Keys : <<j, k>> \in Nests => j # k /\ <<k, j>> \notin Nests
    /\ \A i, j, k \in Keys :
          <<i, j>> \in Nests /\ <<j, k>> \in Nests => <<i, k>> \in Nests

VARIABLES
    locks,              \* _locks: key -> lock object, None when absent
    refCounts,          \* _ref_counts: key -> count, 0 when absent
    owner,              \* lock object -> the thread that holds it
    handle,             \* the local `lock` of acquire(), per thread and key
    pc                  \* where a thread is in acquire(key)

vars == <<locks, refCounts, owner, handle, pc>>

Phase == {"out", "waiting", "in", "leaving"}

TypeOK ==
    /\ locks \in [Keys -> Locks \cup {None}]
    /\ refCounts \in [Keys -> 0 .. Cardinality(Threads)]
    /\ owner \in [Locks -> Threads \cup {None}]
    /\ handle \in [Threads -> [Keys -> Locks \cup {None}]]
    /\ pc \in [Threads -> [Keys -> Phase]]

Init ==
    /\ locks = [k \in Keys |-> None]
    /\ refCounts = [k \in Keys |-> 0]
    /\ owner = [l \in Locks |-> None]
    /\ handle = [t \in Threads |-> [k \in Keys |-> None]]
    /\ pc = [t \in Threads |-> [k \in Keys |-> "out"]]

\* Threads with a reference to the key's entry.
Users(k) == {t \in Threads : pc[t][k] # "out"}

\* A lock object just made by threading.Lock().
Fresh(l) ==
    /\ \A k \in Keys : locks[k] # l
    /\ \A t \in Threads, k \in Keys : handle[t][k] # l

\* The thread's program is at a point where it calls acquire(k): it is outside
\* every operation, or inside operations that may all enter k.
MayEnter(t, k) ==
    /\ pc[t][k] = "out"
    /\ \A j \in Keys \ {k} :
          \/ pc[t][j] = "out"
          \/ pc[t][j] = "in" /\ <<j, k>> \in Nests

\* The operation that runs under k has returned from what it entered.
Innermost(t, k) == \A j \in Keys : <<k, j>> \in Nests => pc[t][j] = "out"

\* First section of the meta lock: setdefault and the reference.
Register(t, k) ==
    /\ MayEnter(t, k)
    /\ \E l \in Locks :
          /\ IF locks[k] = None THEN Fresh(l) ELSE l = locks[k]
          /\ locks' = [locks EXCEPT ![k] = l]
          /\ handle' = [handle EXCEPT ![t][k] = l]
    /\ refCounts' = [refCounts EXCEPT ![k] = @ + 1]
    /\ pc' = [pc EXCEPT ![t][k] = "waiting"]
    /\ UNCHANGED owner

\* lock.acquire()
Acquire(t, k) ==
    /\ pc[t][k] = "waiting"
    /\ owner[handle[t][k]] = None
    /\ owner' = [owner EXCEPT ![handle[t][k]] = t]
    /\ pc' = [pc EXCEPT ![t][k] = "in"]
    /\ UNCHANGED <<locks, refCounts, handle>>

\* Mutant: the operation returns without the finally clause.
ReleaseForgetsLock(t, k) ==
    /\ pc[t][k] = "in"
    /\ Innermost(t, k)
    /\ pc' = [pc EXCEPT ![t][k] = "leaving"]
    /\ UNCHANGED <<locks, refCounts, owner, handle>>

\* The operation returned or raised: lock.release() of the finally clause.
Release(t, k) ==
    /\ pc[t][k] = "in"
    /\ Innermost(t, k)
    /\ owner' = [owner EXCEPT ![handle[t][k]] = None]
    /\ pc' = [pc EXCEPT ![t][k] = "leaving"]
    /\ UNCHANGED <<locks, refCounts, handle>>

\* Mutant: the first thread to leave removes the entry.
UnregisterDropsEntry(t, k) ==
    /\ pc[t][k] = "leaving"
    /\ refCounts' = [refCounts EXCEPT ![k] = @ - 1]
    /\ locks' = [locks EXCEPT ![k] = None]
    /\ handle' = [handle EXCEPT ![t][k] = None]
    /\ pc' = [pc EXCEPT ![t][k] = "out"]
    /\ UNCHANGED owner

\* Second section of the meta lock: the last reference removes the entry.
Unregister(t, k) ==
    /\ pc[t][k] = "leaving"
    /\ LET remaining == (IF refCounts[k] = 0 THEN 1 ELSE refCounts[k]) - 1 IN
          IF remaining <= 0
          THEN /\ refCounts' = [refCounts EXCEPT ![k] = 0]
               /\ locks' = [locks EXCEPT ![k] = None]
          ELSE /\ refCounts' = [refCounts EXCEPT ![k] = remaining]
               /\ UNCHANGED locks
    /\ handle' = [handle EXCEPT ![t][k] = None]
    /\ pc' = [pc EXCEPT ![t][k] = "out"]
    /\ UNCHANGED owner

Next ==
    \E t \in Threads, k \in Keys :
        \/ Register(t, k)
        \/ Acquire(t, k)
        \/ Release(t, k)
        \/ Unregister(t, k)

(***************************************************************************)
(* A thread inside acquire() keeps running; a free lock is given to one of *)
(* its waiters, threading.Lock does not say to which.  Nothing obliges a   *)
(* thread to start another write.                                          *)
(***************************************************************************)
Fairness ==
    \A k \in Keys :
        /\ WF_vars(\E t \in Threads : Acquire(t, k))
        /\ \A t \in Threads : WF_vars(Release(t, k)) /\ WF_vars(Unregister(t, k))

Spec == Init /\ [][Next]_vars
FairSpec == Spec /\ Fairness

-----------------------------------------------------------------------------
(***************************************************************************)
(* Properties.                                                             *)
(***************************************************************************)

\* Two threads are never inside operations of the same key, whatever the
\* order in which entries were dropped and made again (write_queue.py:20-36).
MutualExclusion ==
    \A k \in Keys : \A t, u \in Threads :
        pc[t][k] = "in" /\ pc[u][k] = "in" => t = u

\* The registry neither leaks an entry nor drops one in use: the reference
\* count is the number of threads between the two sections of the meta lock,
\* and there is a lock exactly when that number is not zero.
RegistryMatchesUsers ==
    \A k \in Keys :
        /\ refCounts[k] = Cardinality(Users(k))
        /\ locks[k] = None <=> Users(k) = {}

\* No wake-up is lost when the entry of a key is dropped and made again, and
\* nested keys do not block one another: while somebody waits for a key,
\* somebody enters it.
QueueMoves ==
    \A k \in Keys :
        (\E t \in Threads : pc[t][k] = "waiting")
            ~> (\E t \in Threads : pc[t][k] = "in")
=============================================================================
