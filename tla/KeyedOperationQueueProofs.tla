---------------------- MODULE KeyedOperationQueueProofs ----------------------
(***************************************************************************)
(* The keyed write queue serialises the writes of a key, for any threads,  *)
(* keys, nesting of keys and pool of lock objects.                         *)
(*                                                                         *)
(* MutualExclusion is not inductive: nothing in it says that two threads   *)
(* of a key hold the same lock object.  They do because an entry lives as  *)
(* long as somebody counts in it, so the invariant carries the count, the  *)
(* entry and what every registered thread holds.                           *)
(***************************************************************************)
EXTENDS KeyedOperationQueue, FiniteSetTheorems, TLAPS

\* A registered thread holds the lock object of its key's entry.
HandleIsEntry ==
    \A t \in Threads, k \in Keys :
        pc[t][k] # "out" => locks[k] \in Locks /\ handle[t][k] = locks[k]

\* A lock object serves one key.
EntriesDiffer ==
    \A j, k \in Keys : locks[j] = locks[k] /\ locks[j] # None => j = k

\* Whoever runs an operation holds the lock of its key.
InsideHoldsLock ==
    \A t \in Threads, k \in Keys :
        pc[t][k] = "in" => owner[locks[k]] = t

IInv ==
    /\ TypeOK
    /\ HandleIsEntry
    /\ EntriesDiffer
    /\ InsideHoldsLock
    /\ RegistryMatchesUsers

-----------------------------------------------------------------------------
LEMMA UsersFinite ==
    ASSUME NEW k \in Keys
    PROVE  /\ IsFiniteSet(Users(k))
           /\ Cardinality(Threads) \in Nat
           /\ Cardinality(Users(k)) \in 0 .. Cardinality(Threads)
<1>1. Users(k) \subseteq Threads
  BY DEF Users
<1>2. IsFiniteSet(Threads)
  BY QueueAssumption DEF QueueAssumption
<1>3. IsFiniteSet(Users(k)) /\ Cardinality(Users(k)) <= Cardinality(Threads)
  BY <1>1, <1>2, FS_Subset
<1>4. Cardinality(Users(k)) \in Nat /\ Cardinality(Threads) \in Nat
  BY <1>2, <1>3, FS_CardinalityType
<1> QED
  BY <1>3, <1>4

\* The primed copy of the lemma above.
LEMMA UsersFiniteNext ==
    ASSUME NEW k \in Keys
    PROVE  Cardinality(Users(k)') \in 0 .. Cardinality(Threads)
<1>1. Users(k)' \subseteq Threads
  BY DEF Users
<1>2. IsFiniteSet(Threads)
  BY QueueAssumption DEF QueueAssumption
<1>3. IsFiniteSet(Users(k)') /\ Cardinality(Users(k)') <= Cardinality(Threads)
  BY <1>1, <1>2, FS_Subset
<1>4. Cardinality(Users(k)') \in Nat /\ Cardinality(Threads) \in Nat
  BY <1>2, <1>3, FS_CardinalityType
<1> QED
  BY <1>3, <1>4

\* Only Register and Unregister change who is registered for a key.
LEMMA UsersKept ==
    ASSUME NEW t \in Threads, NEW k \in Keys, NEW p \in Phase \ {"out"},
           TypeOK, pc[t][k] # "out",
           pc' = [pc EXCEPT ![t][k] = p]
    PROVE  \A j \in Keys : Users(j)' = Users(j)
BY DEF Users, TypeOK, Phase

LEMMA RegisterUsers ==
    ASSUME NEW t \in Threads, NEW k \in Keys, TypeOK, Register(t, k)
    PROVE  /\ t \notin Users(k)
           /\ Users(k)' = Users(k) \cup {t}
           /\ \A j \in Keys \ {k} : Users(j)' = Users(j)
BY DEF Users, TypeOK, Register, MayEnter, Phase

LEMMA UnregisterUsers ==
    ASSUME NEW t \in Threads, NEW k \in Keys, TypeOK, Unregister(t, k)
    PROVE  /\ t \in Users(k)
           /\ Users(k)' = Users(k) \ {t}
           /\ \A j \in Keys \ {k} : Users(j)' = Users(j)
BY DEF Users, TypeOK, Unregister, Phase

-----------------------------------------------------------------------------
LEMMA InitIInv == Init => IInv
<1> SUFFICES ASSUME Init PROVE IInv
  OBVIOUS
<1>1. \A k \in Keys : Users(k) = {}
  BY DEF Init, Users
<1>2. Cardinality({}) = 0
  BY FS_EmptySet
<1>3. 0 \in 0 .. Cardinality(Threads)
  BY QueueAssumption, FS_CardinalityType DEF QueueAssumption
<1> QED
  BY <1>1, <1>2, <1>3, QueueAssumption
  DEF Init, IInv, TypeOK, Phase, HandleIsEntry, EntriesDiffer, InsideHoldsLock,
      RegistryMatchesUsers

LEMMA RegisterIInv ==
    ASSUME NEW t \in Threads, NEW k \in Keys, IInv, Register(t, k)
    PROVE  IInv'
<1> USE QueueAssumption DEF QueueAssumption
<1>1. PICK l \in Locks :
         /\ IF locks[k] = None THEN Fresh(l) ELSE l = locks[k]
         /\ locks' = [locks EXCEPT ![k] = l]
         /\ handle' = [handle EXCEPT ![t][k] = l]
  BY DEF Register
<1>2. TypeOK'
  <2>1. refCounts'[k] \in 0 .. Cardinality(Threads)
    <3>1. t \notin Users(k) /\ Users(k)' = Users(k) \cup {t}
      BY RegisterUsers DEF IInv
    <3>2. Cardinality(Users(k)') = Cardinality(Users(k)) + 1
      BY <3>1, UsersFinite, FS_AddElement
    <3>3. refCounts'[k] = Cardinality(Users(k)) + 1
      BY DEF IInv, TypeOK, Register, RegistryMatchesUsers
    <3> QED
      BY <3>2, <3>3, UsersFiniteNext
  <2>2. refCounts' = [refCounts EXCEPT ![k] = refCounts'[k]]
    BY DEF IInv, TypeOK, Register
  <2> QED
    BY <1>1, <2>1, <2>2 DEF IInv, TypeOK, Register, Phase
<1>3. l # None /\ locks'[k] = l
  BY <1>1 DEF IInv, TypeOK
<1>4. \A j \in Keys \ {k} : locks'[j] = locks[j] /\ locks[j] # l
  BY <1>1 DEF IInv, TypeOK, Fresh, EntriesDiffer
<1>5. HandleIsEntry'
  <2> SUFFICES ASSUME NEW u \in Threads, NEW j \in Keys, pc'[u][j] # "out"
               PROVE  locks'[j] \in Locks /\ handle'[u][j] = locks'[j]
    BY DEF HandleIsEntry
  <2>1. CASE u = t /\ j = k
    BY <2>1, <1>1, <1>3 DEF IInv, TypeOK
  <2>2. CASE ~(u = t /\ j = k)
    <3>1. pc'[u][j] = pc[u][j] /\ handle'[u][j] = handle[u][j]
      BY <2>2, <1>1 DEF IInv, TypeOK, Register
    <3>2. locks[j] \in Locks /\ handle[u][j] = locks[j]
      BY <3>1 DEF IInv, HandleIsEntry
    <3>3. locks'[j] = locks[j]
      BY <3>2, <1>1, <1>3, <1>4
    <3> QED
      BY <3>1, <3>2, <3>3
  <2> QED
    BY <2>1, <2>2
<1>6. EntriesDiffer'
  BY <1>3, <1>4 DEF IInv, EntriesDiffer
<1>7. InsideHoldsLock'
  <2> SUFFICES ASSUME NEW u \in Threads, NEW j \in Keys, pc'[u][j] = "in"
               PROVE  owner'[locks'[j]] = u
    BY DEF InsideHoldsLock
  <2>1. pc[u][j] = "in"
    BY DEF IInv, TypeOK, Register
  <2>2. locks'[j] = locks[j]
    BY <2>1, <1>1, <1>3, <1>4 DEF IInv, HandleIsEntry
  <2> QED
    BY <2>1, <2>2 DEF IInv, InsideHoldsLock, Register
<1>8. RegistryMatchesUsers'
  <2>1. /\ t \notin Users(k)
        /\ Users(k)' = Users(k) \cup {t}
        /\ \A j \in Keys \ {k} : Users(j)' = Users(j)
    BY RegisterUsers DEF IInv
  <2>2. Cardinality(Users(k)') = Cardinality(Users(k)) + 1
    BY <2>1, UsersFinite, FS_AddElement
  <2>3. refCounts'[k] = refCounts[k] + 1
    BY DEF IInv, TypeOK, Register
  <2>4. \A j \in Keys \ {k} : refCounts'[j] = refCounts[j]
    BY DEF IInv, TypeOK, Register
  <2> QED
    BY <2>1, <2>2, <2>3, <2>4, <1>3, <1>4 DEF IInv, RegistryMatchesUsers
<1> QED
  BY <1>2, <1>5, <1>6, <1>7, <1>8 DEF IInv

LEMMA AcquireIInv ==
    ASSUME NEW t \in Threads, NEW k \in Keys, IInv, Acquire(t, k)
    PROVE  IInv'
<1>1. handle[t][k] = locks[k] /\ locks[k] \in Locks /\ pc[t][k] = "waiting"
  BY DEF IInv, HandleIsEntry, Acquire
<1>2. TypeOK'
  BY <1>1 DEF IInv, TypeOK, Acquire, Phase
<1>3. HandleIsEntry'
  BY DEF IInv, HandleIsEntry, Acquire, TypeOK
<1>4. EntriesDiffer'
  BY DEF IInv, EntriesDiffer, Acquire
<1>5. InsideHoldsLock'
  <2> SUFFICES ASSUME NEW u \in Threads, NEW j \in Keys, pc'[u][j] = "in"
               PROVE  owner'[locks[j]] = u
    BY DEF InsideHoldsLock, Acquire
  <2>1. CASE u = t /\ j = k
    BY <2>1, <1>1 DEF IInv, TypeOK, Acquire
  <2>2. CASE ~(u = t /\ j = k)
    <3>1. pc[u][j] = "in"
      BY <2>2 DEF IInv, TypeOK, Acquire
    <3>2. owner[locks[j]] = u /\ locks[j] \in Locks
      BY <3>1 DEF IInv, InsideHoldsLock, HandleIsEntry
    <3>3. u # None
      BY QueueAssumption DEF QueueAssumption
    <3>4. locks[j] # locks[k]
      BY <3>2, <3>3, <1>1 DEF Acquire
    <3> QED
      BY <3>2, <3>4, <1>1 DEF IInv, TypeOK, Acquire
  <2> QED
    BY <2>1, <2>2
<1>6. RegistryMatchesUsers'
  BY <1>1, UsersKept DEF IInv, RegistryMatchesUsers, Acquire, Phase
<1> QED
  BY <1>2, <1>3, <1>4, <1>5, <1>6 DEF IInv

LEMMA ReleaseIInv ==
    ASSUME NEW t \in Threads, NEW k \in Keys, IInv, Release(t, k)
    PROVE  IInv'
<1>1. handle[t][k] = locks[k] /\ locks[k] \in Locks /\ pc[t][k] = "in"
  BY DEF IInv, HandleIsEntry, Release
<1>2. TypeOK'
  BY <1>1 DEF IInv, TypeOK, Release, Phase
<1>3. HandleIsEntry'
  BY DEF IInv, HandleIsEntry, Release, TypeOK
<1>4. EntriesDiffer'
  BY DEF IInv, EntriesDiffer, Release
<1>5. InsideHoldsLock'
  <2> SUFFICES ASSUME NEW u \in Threads, NEW j \in Keys, pc'[u][j] = "in"
               PROVE  owner'[locks[j]] = u
    BY DEF InsideHoldsLock, Release
  <2>1. pc[u][j] = "in" /\ ~(u = t /\ j = k)
    BY DEF IInv, TypeOK, Release
  <2>2. owner[locks[j]] = u /\ locks[j] \in Locks /\ owner[locks[k]] = t
    BY <2>1, <1>1 DEF IInv, InsideHoldsLock, HandleIsEntry
  <2>3. locks[j] # None
    BY <2>2, QueueAssumption DEF QueueAssumption
  <2>4. locks[j] # locks[k]
    BY <2>1, <2>2, <2>3 DEF IInv, EntriesDiffer
  <2> QED
    BY <2>2, <2>4, <1>1 DEF IInv, TypeOK, Release
<1>6. RegistryMatchesUsers'
  BY <1>1, UsersKept DEF IInv, RegistryMatchesUsers, Release, Phase
<1> QED
  BY <1>2, <1>3, <1>4, <1>5, <1>6 DEF IInv

LEMMA UnregisterIInv ==
    ASSUME NEW t \in Threads, NEW k \in Keys, IInv, Unregister(t, k)
    PROVE  IInv'
<1>1. /\ t \in Users(k)
      /\ Users(k)' = Users(k) \ {t}
      /\ \A j \in Keys \ {k} : Users(j)' = Users(j)
  BY UnregisterUsers DEF IInv
<1>2. refCounts[k] = Cardinality(Users(k)) /\ refCounts[k] \in Nat
  BY DEF IInv, RegistryMatchesUsers, TypeOK
<1>3. /\ Cardinality(Users(k)') = refCounts[k] - 1
      /\ refCounts[k] # 0
  <2>1. IsFiniteSet(Users(k))
    BY UsersFinite
  <2>2. Cardinality(Users(k) \ {t}) = Cardinality(Users(k)) - 1
    BY <1>1, <2>1, FS_RemoveElement
  <2>3. Cardinality(Users(k)) # 0
    BY <1>1, <2>1, FS_EmptySet
  <2> QED
    BY <1>1, <1>2, <2>2, <2>3
<1>4. IsFiniteSet(Users(k)') /\ (refCounts[k] = 1 <=> Users(k)' = {})
  <2>1. IsFiniteSet(Users(k)')
    BY <1>1, UsersFinite, FS_Subset
  <2>2. Cardinality(Users(k)') = 0 <=> Users(k)' = {}
    BY <2>1, FS_EmptySet
  <2> QED
    BY <1>2, <1>3, <2>1, <2>2
<1>5. /\ refCounts' = [refCounts EXCEPT ![k] = refCounts[k] - 1]
      /\ locks' = IF refCounts[k] = 1 THEN [locks EXCEPT ![k] = None] ELSE locks
  <2>1. CASE refCounts[k] = 1
    BY <2>1, <1>2, <1>3 DEF Unregister
  <2>2. CASE refCounts[k] > 1
    BY <2>2, <1>2, <1>3 DEF Unregister
  <2> QED
    BY <2>1, <2>2, <1>2, <1>3
<1>6. TypeOK'
  <2>1. refCounts[k] - 1 \in 0 .. Cardinality(Threads)
    BY <1>2, <1>3, UsersFinite
  <2> QED
    BY <1>5, <2>1 DEF IInv, TypeOK, Unregister, Phase
<1>7. HandleIsEntry'
  <2> SUFFICES ASSUME NEW u \in Threads, NEW j \in Keys, pc'[u][j] # "out"
               PROVE  locks'[j] \in Locks /\ handle'[u][j] = locks'[j]
    BY DEF HandleIsEntry
  <2>1. pc[u][j] # "out" /\ ~(u = t /\ j = k)
    BY DEF IInv, TypeOK, Unregister
  <2>2. handle'[u][j] = handle[u][j]
    BY <2>1 DEF IInv, TypeOK, Unregister
  <2>3. j = k => u \in Users(k)'
    BY <2>1, <1>1 DEF Users
  <2>4. locks'[j] = locks[j]
    BY <2>3, <1>4, <1>5 DEF IInv, TypeOK
  <2> QED
    BY <2>1, <2>2, <2>4 DEF IInv, HandleIsEntry
<1>8. EntriesDiffer'
  BY <1>5 DEF IInv, TypeOK, EntriesDiffer
<1>9. InsideHoldsLock'
  <2> SUFFICES ASSUME NEW u \in Threads, NEW j \in Keys, pc'[u][j] = "in"
               PROVE  owner'[locks'[j]] = u
    BY DEF InsideHoldsLock
  <2>1. pc[u][j] = "in" /\ ~(u = t /\ j = k)
    BY DEF IInv, TypeOK, Unregister
  <2>2. j = k => u \in Users(k)'
    BY <2>1, <1>1 DEF Users
  <2>3. locks'[j] = locks[j]
    BY <2>2, <1>4, <1>5 DEF IInv, TypeOK
  <2> QED
    BY <2>1, <2>3 DEF IInv, InsideHoldsLock, Unregister
<1>10. RegistryMatchesUsers'
  <2> SUFFICES ASSUME NEW j \in Keys
               PROVE  /\ refCounts'[j] = Cardinality(Users(j)')
                      /\ locks'[j] = None <=> Users(j)' = {}
    BY DEF RegistryMatchesUsers
  <2>1. CASE j = k
    <3>1. locks[k] # None
      BY <1>1 DEF IInv, RegistryMatchesUsers
    <3> QED
      BY <2>1, <3>1, <1>3, <1>4, <1>5 DEF IInv, TypeOK
  <2>2. CASE j # k
    BY <2>2, <1>1, <1>5 DEF IInv, TypeOK, RegistryMatchesUsers
  <2> QED
    BY <2>1, <2>2
<1> QED
  BY <1>6, <1>7, <1>8, <1>9, <1>10 DEF IInv

LEMMA StutterIInv == IInv /\ UNCHANGED vars => IInv'
<1> SUFFICES ASSUME IInv, UNCHANGED vars PROVE IInv'
  OBVIOUS
<1>1. TypeOK'
  BY DEF IInv, vars, TypeOK
<1>2. HandleIsEntry' /\ EntriesDiffer' /\ InsideHoldsLock'
  BY DEF IInv, vars, HandleIsEntry, EntriesDiffer, InsideHoldsLock
<1>3. \A k \in Keys : Users(k)' = Users(k)
  BY DEF Users, vars
<1>4. RegistryMatchesUsers'
  BY <1>3 DEF IInv, vars, RegistryMatchesUsers
<1> QED
  BY <1>1, <1>2, <1>4 DEF IInv

LEMMA NextIInv == IInv /\ [Next]_vars => IInv'
BY RegisterIInv, AcquireIInv, ReleaseIInv, UnregisterIInv, StutterIInv DEF Next

LEMMA SpecIInv == Spec => []IInv
BY InitIInv, NextIInv, PTL DEF Spec

-----------------------------------------------------------------------------
LEMMA IInvExclusion == IInv => MutualExclusion
BY DEF IInv, InsideHoldsLock, MutualExclusion

\* The registry keeps its types.
THEOREM TypeCorrect == Spec => []TypeOK
BY SpecIInv, PTL DEF IInv

\* Two threads are never inside operations of one key.
THEOREM WritesExclusive == Spec => []MutualExclusion
BY SpecIInv, IInvExclusion, PTL

\* The count of a key is the number of its users, and its entry lives exactly
\* as long as it has some.
THEOREM RegistryExact == Spec => []RegistryMatchesUsers
BY SpecIInv, PTL DEF IInv

=============================================================================
