----------------------------- MODULE OutboxProofs -----------------------------
(***************************************************************************)
(* The outbox for any number of events, publishers and consumers, any      *)
(* limit, batch and number of deaths:                                      *)
(*   - the rows, the requests and the messages keep their types;           *)
(*   - an event that is called published reached the stream, and is there, *)
(*     with a consumer, or was handled;                                    *)
(*   - a message leaves the bus only when what its handler emits is        *)
(*     committed;                                                          *)
(*   - with at most two publishers no more failed attempts than the limit  *)
(*     are made of one event, and one more.                                *)
(***************************************************************************)
EXTENDS Outbox, TLAPS, FiniteSetTheorems

\* Where a message that was sent can be.
Reached == stream \cup unacked \cup emitted

\* A publisher that had its acknowledgement knows the message to be there.
SentReached == \A p \in Publishers : pub[p].at = "sent" => Current(p) \in Reached

\* A consumer is done with an event only when its handler's events are committed.
HandledEmitted == \A c \in Consumers : con[c].at = "handled" => con[c].event \in emitted

\* Outside "idle" a consumer has an event.
Holding == \A c \in Consumers : con[c].at # "idle" => con[c].event \in Events

TypeInv == TypeOK /\ Holding
Inv == TypeInv /\ SentReached /\ HandledEmitted /\ PublishedWasSent

-----------------------------------------------------------------------------
(***************************************************************************)
(* Least elements.                                                         *)
(***************************************************************************)
\* A finite set of numbers has a least one.
LEMMA LeastOf ==
    ASSUME NEW T \in SUBSET Nat, IsFiniteSet(T), T # {}
    PROVE  \E x \in T : \A y \in T : x <= y
<1> DEFINE Under(x) == {y \in T : y < x}
           All == {Under(x) : x \in T}
<1>1. \A x \in T : Under(x) \in SUBSET T
  OBVIOUS
<1>2. All # {} /\ \A U \in All : U \in FiniteSubsetsOf(T)
  <2>1. FiniteSubsetsOf(T) = SUBSET T
    BY FS_FiniteSubsetsOfFinite
  <2> HIDE DEF Under
  <2>2. \A U \in All : U \in SUBSET T
    BY <1>1
  <2>3. PICK x \in T : TRUE
    OBVIOUS
  <2>4. Under(x) \in All
    OBVIOUS
  <2> HIDE DEF All
  <2> QED
    BY <2>1, <2>2, <2>4
<1>3. PICK U \in All : \A V \in All : ~ (<<V, U>> \in StrictSubsetOrdering(T))
  <2>1. IsWellFoundedOn(StrictSubsetOrdering(T), FiniteSubsetsOf(T))
    BY FS_StrictSubsetOrderingWellFounded
  <2>2. All \subseteq FiniteSubsetsOf(T) /\ All # {}
    BY <1>2
  <2> HIDE DEF All
  <2> QED
    BY <2>1, <2>2, WFMin, Zenon
<1>4. PICK x \in T : U = Under(x)
  <2> HIDE DEF Under
  <2> QED
    BY <1>3
<1>5. ASSUME NEW y \in T, y < x PROVE FALSE
  <2>1. ASSUME NEW z \in Under(y) PROVE z \in Under(x)
    <3>1. z \in T /\ z < y /\ z \in Nat /\ y \in Nat /\ x \in Nat
      OBVIOUS
    <3> QED
      BY <3>1, <1>5
  <2>2. y \in Under(x) /\ y \notin Under(y)
    BY <1>5
  <2>3. Under(x) \in SUBSET T /\ Under(y) \in SUBSET T
    BY <1>1
  <2>4. <<Under(y), U>> \in StrictSubsetOrdering(T)
    <3> HIDE DEF Under
    <3> QED
      BY <2>1, <2>2, <2>3, <1>4 DEF StrictSubsetOrdering
  <2>5. Under(y) \in All
    OBVIOUS
  <2> QED
    BY <2>4, <2>5, <1>3
<1> QED
  BY <1>5

\* The event a publisher is at is one of those it has to publish.
LEMMA CurrentHeld ==
    ASSUME NEW p \in Publishers, TypeOK, pub[p].at # "idle"
    PROVE  Current(p) \in pub[p].todo /\ Current(p) \in Events
<1>1. pub[p].todo \in SUBSET Events /\ pub[p].todo # {}
  BY DEF TypeOK
<1>2. pub[p].todo \in SUBSET Nat /\ IsFiniteSet(pub[p].todo)
  BY <1>1, OutboxAssumption, FS_Subset DEF OutboxAssumption
<1>3. \E e \in pub[p].todo : \A d \in pub[p].todo : e <= d
  BY <1>1, <1>2, LeastOf
<1> QED
  BY <1>1, <1>3 DEF Current

LEMMA OldestFound ==
    ASSUME TypeOK, Pending # {}
    PROVE  Oldest # {} /\ Oldest \in SUBSET Events
<1>1. Pending \in SUBSET Events
  BY DEF Pending
<1>2. Pending \in SUBSET Nat /\ IsFiniteSet(Pending)
  BY <1>1, OutboxAssumption, FS_Subset DEF OutboxAssumption
<1>3. PICK e \in Pending : \A d \in Pending : e <= d
  BY <1>2, LeastOf
<1>4. {d \in Pending : d < e} = {}
  <2>1. ASSUME NEW d \in Pending, d < e PROVE FALSE
    <3>1. d \in Nat /\ e \in Nat /\ e <= d
      BY <1>2, <1>3
    <3> QED
      BY <2>1, <3>1
  <2> QED
    BY <2>1
<1>5. Cardinality({d \in Pending : d < e}) = 0
  BY <1>4, FS_EmptySet
<1>6. e \in Oldest
  BY <1>3, <1>5, OutboxAssumption DEF Oldest, OutboxAssumption
<1> QED
  BY <1>1, <1>6 DEF Oldest

-----------------------------------------------------------------------------
(***************************************************************************)
(* Type correctness.                                                       *)
(***************************************************************************)
RecordRows == [status : Statuses, attempts : Nat]
PublisherStates == [at : Publishing, todo : SUBSET Events, attempts : [Events -> Nat]]

LEMMA InitType == Init => TypeInv
BY OutboxAssumption
DEF OutboxAssumption, Init, TypeInv, TypeOK, Holding, Idle, Waiting, Statuses, Publishing,
    Consuming

\* What a publisher's step keeps when it replaces its own state.
LEMMA PublisherMoves ==
    ASSUME NEW p \in Publishers, TypeOK, NEW new \in PublisherStates,
           (new.at = "idle") <=> (new.todo = {}),
           pub' = [pub EXCEPT ![p] = new]
    PROVE  /\ pub' \in [Publishers -> PublisherStates]
           /\ \A q \in Publishers : pub'[q].at = "idle" <=> pub'[q].todo = {}
<1>1. pub' \in [Publishers -> PublisherStates]
  BY DEF TypeOK, PublisherStates
<1>2. \A q \in Publishers : pub'[q] = IF q = p THEN new ELSE pub[q]
  BY DEF TypeOK
<1>3. \A q \in Publishers : pub[q].at = "idle" <=> pub[q].todo = {}
  BY DEF TypeOK
<1> QED
  BY <1>1, <1>2, <1>3

LEMMA RecordType ==
    ASSUME NEW e \in Events, TypeInv, Record(e)
    PROVE  TypeInv'
BY DEF TypeInv, TypeOK, Holding, Record, Statuses, busVars, consumerVars

LEMMA SelectType ==
    ASSUME NEW p \in Publishers, TypeInv, Select(p)
    PROVE  TypeInv'
<1> DEFINE new == [at |-> "selected", todo |-> Oldest,
                   attempts |-> [e \in Events |-> IF e \in Oldest THEN record[e].attempts
                                                  ELSE 0]]
<1>1. new \in PublisherStates /\ new.at # "idle" /\ new.todo # {}
  BY OldestFound DEF Select, TypeInv, TypeOK, PublisherStates, Publishing
<1>2. pub' = [pub EXCEPT ![p] = new]
  BY DEF Select
<1> HIDE DEF new
<1>3. /\ pub' \in [Publishers -> PublisherStates]
      /\ \A q \in Publishers : pub'[q].at = "idle" <=> pub'[q].todo = {}
  BY <1>1, <1>2, PublisherMoves DEF TypeInv
<1> QED
  BY <1>3 DEF TypeInv, TypeOK, Holding, Select, busVars, consumerVars, PublisherStates

LEMMA ClaimType ==
    ASSUME NEW p \in Publishers, TypeInv, Claim(p)
    PROVE  TypeInv'
<1> DEFINE attempts == [e \in Events |-> IF e \in pub[p].todo
                                         THEN CountedAttempt(pub[p].attempts[e])
                                         ELSE 0]
           new == [pub[p] EXCEPT !.at = "next", !.attempts = attempts]
<1>1. pub[p] \in PublisherStates
  BY DEF TypeInv, TypeOK, PublisherStates
<1>2. attempts \in [Events -> Nat]
  BY <1>1 DEF CountedAttempt, PublisherStates
<1>3. new \in PublisherStates /\ new.at # "idle" /\ new.todo # {}
  <2>1. pub[p].todo # {}
    BY DEF TypeInv, TypeOK, Claim
  <2> HIDE DEF attempts
  <2> QED
    BY <1>1, <1>2, <2>1 DEF PublisherStates, Publishing
<1>4. pub' = [pub EXCEPT ![p] = new]
  BY <1>1 DEF Claim, TypeInv, TypeOK, PublisherStates
<1>5. record' \in [Events -> RecordRows]
  <2>1. record' = [e \in Events |-> IF e \in pub[p].todo
                                    THEN [status |-> "publishing", attempts |-> attempts[e]]
                                    ELSE record[e]]
    BY DEF Claim
  <2> HIDE DEF attempts
  <2> QED
    BY <1>2, <2>1 DEF TypeInv, TypeOK, RecordRows, Statuses
<1> HIDE DEF new
<1>6. /\ pub' \in [Publishers -> PublisherStates]
      /\ \A q \in Publishers : pub'[q].at = "idle" <=> pub'[q].todo = {}
  BY <1>3, <1>4, PublisherMoves DEF TypeInv
<1>7. UNCHANGED <<stream, unacked, reachable, con, emitted, abandoned, deaths>>
  BY DEF Claim, busVars, consumerVars
<1> QED
  BY <1>5, <1>6, <1>7 DEF TypeInv, TypeOK, Holding, PublisherStates, RecordRows

\* The steps of a publisher that only change where it is.
Turns(p, at) ==
    /\ pub[p].at # "idle"
    /\ at \in Publishing \ {"idle"}
    /\ pub' = [pub EXCEPT ![p].at = at]

LEMMA TurnsType ==
    ASSUME NEW p \in Publishers, NEW at, TypeOK, Turns(p, at)
    PROVE  /\ pub' \in [Publishers -> PublisherStates]
           /\ \A q \in Publishers : pub'[q].at = "idle" <=> pub'[q].todo = {}
<1> DEFINE new == [pub[p] EXCEPT !.at = at]
<1>1. new \in PublisherStates /\ new.at # "idle" /\ new.todo # {}
  BY DEF TypeOK, PublisherStates, Turns
<1>2. pub' = [pub EXCEPT ![p] = new]
  BY DEF TypeOK, Turns
<1> HIDE DEF new
<1> QED
  BY <1>1, <1>2, PublisherMoves

LEMMA PublishType ==
    ASSUME NEW p \in Publishers, TypeInv, Publish(p)
    PROVE  TypeInv'
<1>1. Current(p) \in Events
  BY CurrentHeld DEF TypeInv, Publish
<1>2. PICK at \in {"sent", "refused"} : pub' = [pub EXCEPT ![p].at = at]
  BY DEF Publish
<1>3. Turns(p, at)
  BY <1>2 DEF Turns, Publish, Publishing
<1>4. /\ pub' \in [Publishers -> PublisherStates]
      /\ \A q \in Publishers : pub'[q].at = "idle" <=> pub'[q].todo = {}
  BY <1>3, TurnsType DEF TypeInv
<1> QED
  BY <1>1, <1>4 DEF TypeInv, TypeOK, Holding, Publish, consumerVars, PublisherStates

\* The message is not sent, or what becomes of it is not recorded.
LEMMA RefusedType ==
    ASSUME NEW p \in Publishers, TypeInv, Unreachable(p) \/ MarkFails(p)
    PROVE  TypeInv'
<1>1. Turns(p, "refused")
  BY DEF Turns, Unreachable, MarkFails, Publishing
<1>2. /\ pub' \in [Publishers -> PublisherStates]
      /\ \A q \in Publishers : pub'[q].at = "idle" <=> pub'[q].todo = {}
  BY <1>1, TurnsType DEF TypeInv
<1>3. UNCHANGED <<record, stream, unacked, reachable, con, emitted, abandoned, deaths>>
  BY DEF Unreachable, MarkFails, busVars, consumerVars
<1> QED
  BY <1>2, <1>3 DEF TypeInv, TypeOK, Holding, PublisherStates

LEMMA MarkType ==
    ASSUME NEW p \in Publishers, NEW status \in Statuses, TypeInv,
           pub[p].at # "idle", Mark(p, status)
    PROVE  TypeInv'
<1> DEFINE e == Current(p)
           new == IF pub[p].todo = {e} THEN Idle
                  ELSE [at |-> "next", todo |-> pub[p].todo \ {e},
                        attempts |-> [pub[p].attempts EXCEPT ![e] = 0]]
<1>1. pub[p] \in PublisherStates /\ pub[p].todo # {} /\ e \in Events
  BY CurrentHeld DEF TypeInv, TypeOK, PublisherStates
<1>2. new \in PublisherStates /\ (new.at = "idle" <=> new.todo = {})
  <2> HIDE DEF e
  <2> QED
    BY <1>1 DEF PublisherStates, Publishing, Idle
<1>3. pub' = [pub EXCEPT ![p] = new]
  BY DEF Mark
<1>4. record' \in [Events -> RecordRows]
  BY <1>1 DEF Mark, TypeInv, TypeOK, RecordRows
<1> HIDE DEF new
<1>5. /\ pub' \in [Publishers -> PublisherStates]
      /\ \A q \in Publishers : pub'[q].at = "idle" <=> pub'[q].todo = {}
  BY <1>2, <1>3, PublisherMoves DEF TypeInv
<1>6. UNCHANGED <<stream, unacked, reachable, con, emitted, abandoned, deaths>>
  BY DEF Mark, busVars, consumerVars
<1> QED
  BY <1>4, <1>5, <1>6 DEF TypeInv, TypeOK, Holding, PublisherStates, RecordRows

\* The three ways to mark an event.
Marks(p) == MarkPublished(p) \/ MarkPending(p) \/ MarkDeadLetter(p)

LEMMA MarksMark ==
    ASSUME NEW p \in Publishers, Marks(p)
    PROVE  /\ pub[p].at \in {"sent", "refused"}
           /\ \E status \in Statuses : /\ Mark(p, status)
                                       /\ status = "published" => pub[p].at = "sent"
BY DEF Marks, MarkPublished, MarksPublished, MarkPending, MarkDeadLetter, Statuses, Returned

LEMMA MarksType ==
    ASSUME NEW p \in Publishers, TypeInv, Marks(p)
    PROVE  TypeInv'
<1>1. PICK status \in Statuses : Mark(p, status)
  BY MarksMark
<1>2. pub[p].at # "idle"
  BY MarksMark
<1> QED
  BY <1>1, <1>2, MarkType

LEMMA PublisherDiesType ==
    ASSUME NEW p \in Publishers, TypeInv, PublisherDies(p)
    PROVE  TypeInv'
<1>1. Idle \in PublisherStates /\ Idle.at = "idle" /\ Idle.todo = {}
  BY DEF PublisherStates, Idle, Publishing
<1>2. pub' = [pub EXCEPT ![p] = Idle]
  BY DEF PublisherDies
<1>3. /\ pub' \in [Publishers -> PublisherStates]
      /\ \A q \in Publishers : pub'[q].at = "idle" <=> pub'[q].todo = {}
  BY <1>1, <1>2, PublisherMoves DEF TypeInv
<1>4. deaths' \in 0 .. MaxDeaths
  BY OutboxAssumption DEF OutboxAssumption, PublisherDies, TypeInv, TypeOK
<1>5. abandoned' \subseteq Events
  BY DEF PublisherDies, TypeInv, TypeOK
<1>6. UNCHANGED <<record, stream, unacked, reachable, con, emitted>>
  BY DEF PublisherDies, busVars, consumerVars
<1> QED
  BY <1>3, <1>4, <1>5, <1>6 DEF TypeInv, TypeOK, Holding, PublisherStates

LEMMA ConsumerType ==
    ASSUME NEW c \in Consumers, TypeInv, ConsumerStep(c) \/ ConsumerDies(c)
    PROVE  TypeInv'
<1>1. CASE Fetch(c)
  BY <1>1, OutboxAssumption
  DEF OutboxAssumption, TypeInv, TypeOK, Holding, Fetch, Consuming
<1>2. CASE Handle(c)
  BY <1>2 DEF TypeInv, TypeOK, Holding, Handle, Consuming, busVars
<1>3. CASE Ack(c)
  BY <1>3 DEF TypeInv, TypeOK, Holding, Ack, Acks, Waiting, Consuming
<1>4. CASE Nak(c)
  BY <1>4 DEF TypeInv, TypeOK, Holding, Nak, Waiting, Consuming
<1>5. CASE ConsumerDies(c)
  BY <1>5, OutboxAssumption
  DEF OutboxAssumption, TypeInv, TypeOK, Holding, ConsumerDies, Waiting, Consuming, busVars
<1> QED
  BY <1>1, <1>2, <1>3, <1>4, <1>5 DEF ConsumerStep

LEMMA ExpireType ==
    ASSUME NEW e \in Events, TypeInv, Expire(e)
    PROVE  TypeInv'
BY DEF TypeInv, TypeOK, Holding, Expire, consumerVars

LEMMA StepType == TypeInv /\ [Next]_vars => TypeInv'
<1> SUFFICES ASSUME TypeInv, [Next]_vars PROVE TypeInv'
  OBVIOUS
<1>1. CASE \E e \in Events : Record(e) \/ Expire(e)
  BY <1>1, RecordType, ExpireType
<1>2. CASE \E p \in Publishers : PublisherStep(p) \/ PublisherDies(p)
  <2>1. PICK p \in Publishers : PublisherStep(p) \/ PublisherDies(p)
    BY <1>2
  <2>2. CASE Marks(p)
    BY <2>2, MarksType
  <2>3. CASE ~ Marks(p)
    BY <2>1, <2>3, SelectType, ClaimType, PublishType, RefusedType, PublisherDiesType
    DEF PublisherStep, Marks
  <2> QED
    BY <2>2, <2>3
<1>3. CASE \E c \in Consumers : ConsumerStep(c) \/ ConsumerDies(c)
  BY <1>3, ConsumerType
<1>4. CASE UNCHANGED vars
  BY <1>4 DEF TypeInv, TypeOK, Holding, vars
<1>5. CASE BusTurns
  BY <1>5 DEF TypeInv, TypeOK, Holding, BusTurns, consumerVars
<1> QED
  BY <1>1, <1>2, <1>3, <1>4, <1>5 DEF Next

\* The rows, the requests and the messages keep their types, and a publisher has
\* events to publish exactly while it is at work (eventing.py:241-291).
THEOREM TypeCorrect == Spec => []TypeOK
<1>1. TypeInv => TypeOK
  BY DEF TypeInv
<1> QED
  BY InitType, StepType, <1>1, PTL DEF Spec

-----------------------------------------------------------------------------
(***************************************************************************)
(* Messages that were sent stay within reach.                              *)
(***************************************************************************)
LEMMA ReachedGrows == Inv /\ [Next]_vars => Reached \subseteq Reached'
<1> SUFFICES ASSUME Inv, [Next]_vars PROVE Reached \subseteq Reached'
  OBVIOUS
<1>1. CASE \E e \in Events : Record(e) \/ Expire(e)
  BY <1>1 DEF Reached, Record, Expire, busVars, consumerVars
<1>2. CASE \E p \in Publishers : PublisherStep(p) \/ PublisherDies(p)
  <2>1. PICK p \in Publishers : PublisherStep(p) \/ PublisherDies(p)
    BY <1>2
  <2>2. CASE Marks(p)
    BY <2>2, MarksMark DEF Reached, Mark, busVars, consumerVars
  <2>3. CASE ~ Marks(p)
    BY <2>1, <2>3
    DEF Reached, PublisherStep, Marks, Select, Claim, Publish, Unreachable, MarkFails,
        PublisherDies, busVars, consumerVars
  <2> QED
    BY <2>2, <2>3
<1>3. CASE \E c \in Consumers : ConsumerStep(c) \/ ConsumerDies(c)
  <2>1. PICK c \in Consumers : ConsumerStep(c) \/ ConsumerDies(c)
    BY <1>3
  <2>2. CASE Ack(c)
    BY <2>2 DEF Reached, Ack, Acks, Inv, HandledEmitted
  <2>3. CASE ~ Ack(c)
    BY <2>1, <2>3 DEF Reached, ConsumerStep, Fetch, Handle, Nak, ConsumerDies, busVars
  <2> QED
    BY <2>2, <2>3
<1>4. CASE UNCHANGED vars
  BY <1>4 DEF Reached, vars
<1>5. CASE BusTurns
  BY <1>5 DEF Reached, BusTurns, consumerVars
<1> QED
  BY <1>1, <1>2, <1>3, <1>4, <1>5 DEF Next

LEMMA HandledStep == Inv /\ [Next]_vars => HandledEmitted'
<1> SUFFICES ASSUME Inv, [Next]_vars PROVE HandledEmitted'
  OBVIOUS
<1>1. CASE \E e \in Events : Record(e) \/ Expire(e)
  BY <1>1 DEF Inv, HandledEmitted, Record, Expire, consumerVars
<1>2. CASE \E p \in Publishers : PublisherStep(p) \/ PublisherDies(p)
  <2>1. UNCHANGED <<con, emitted>>
    BY <1>2, MarksMark
    DEF PublisherStep, Marks, Mark, Select, Claim, Publish, Unreachable, MarkFails,
        PublisherDies, consumerVars
  <2> QED
    BY <2>1 DEF Inv, HandledEmitted
<1>3. CASE \E c \in Consumers : ConsumerStep(c) \/ ConsumerDies(c)
  <2>1. PICK c \in Consumers : ConsumerStep(c) \/ ConsumerDies(c)
    BY <1>3
  <2>2. CASE Handle(c)
    BY <2>2 DEF Inv, TypeInv, TypeOK, HandledEmitted, Handle
  <2>3. CASE ~ Handle(c)
    <3>1. /\ con'[c].at # "handled"
          /\ \A d \in Consumers \ {c} : con'[d] = con[d]
          /\ emitted' = emitted
      BY <2>1, <2>3
      DEF Inv, TypeInv, TypeOK, ConsumerStep, Fetch, Ack, Nak, ConsumerDies, Waiting
    <3> QED
      BY <3>1 DEF Inv, HandledEmitted
  <2> QED
    BY <2>2, <2>3
<1>4. CASE UNCHANGED vars
  BY <1>4 DEF Inv, HandledEmitted, vars
<1>5. CASE BusTurns
  BY <1>5 DEF Inv, HandledEmitted, BusTurns, consumerVars
<1> QED
  BY <1>1, <1>2, <1>3, <1>4, <1>5 DEF Next

\* A publisher that keeps what it has to publish keeps its place in it.
LEMMA CurrentKept ==
    ASSUME NEW p \in Publishers, pub'[p].todo = pub[p].todo
    PROVE  Current(p)' = Current(p)
BY DEF Current

LEMMA SentStep == Inv /\ [Next]_vars => SentReached'
<1> SUFFICES ASSUME Inv, [Next]_vars, NEW p \in Publishers, pub'[p].at = "sent"
             PROVE  Current(p)' \in Reached'
  BY DEF SentReached
<1>1. Reached \subseteq Reached'
  BY ReachedGrows
<1>2. CASE pub'[p] = pub[p]
  BY <1>1, <1>2, CurrentKept DEF Inv, SentReached
<1>3. CASE pub'[p] # pub[p]
  <2>1. PublisherStep(p) \/ PublisherDies(p)
    <3>1. pub' # pub
      BY <1>3
    <3>2. PICK q \in Publishers : PublisherStep(q) \/ PublisherDies(q)
      BY <3>1
      DEF Next, vars, BusTurns, Record, Expire, ConsumerStep, Fetch, Handle, Ack, Nak, ConsumerDies
    <3>3. \A r \in Publishers \ {q} : pub'[r] = pub[r]
      BY <3>2, MarksMark
      DEF Inv, TypeInv, TypeOK, PublisherStep, Marks, Mark, Select, Claim, Publish,
          Unreachable, MarkFails, PublisherDies
    <3> QED
      BY <1>3, <3>2, <3>3
  <2>2. Publish(p)
    <3>1. pub[p] \in PublisherStates /\ pub \in [Publishers -> PublisherStates]
      BY DEF Inv, TypeInv, TypeOK, PublisherStates
    <3>2. ~ Marks(p)
      BY <3>1, MarksMark DEF Mark, Idle
    <3> QED
      BY <2>1, <3>1, <3>2
      DEF PublisherStep, Marks, Select, Claim, Unreachable, MarkFails, PublisherDies, Idle,
          PublisherStates
  <2>3. pub'[p].todo = pub[p].todo
    BY <2>2 DEF Publish, Inv, TypeInv, TypeOK
  <2>4. Current(p) \in stream'
    BY <2>2 DEF Publish
  <2> QED
    BY <2>3, <2>4, CurrentKept DEF Reached
<1> QED
  BY <1>2, <1>3

LEMMA PublishedStep == Inv /\ [Next]_vars => PublishedWasSent'
<1> SUFFICES ASSUME Inv, [Next]_vars, NEW e \in Events, record'[e].status = "published"
             PROVE  e \in Reached'
  BY DEF PublishedWasSent, Reached
<1>1. Reached \subseteq Reached'
  BY ReachedGrows
<1>2. CASE record[e].status = "published"
  BY <1>1, <1>2 DEF Inv, PublishedWasSent, Reached
<1>3. CASE record[e].status # "published"
  <2>1. PICK p \in Publishers : Marks(p)
    <3>1. record' # record
      BY <1>3
    <3>2. CASE \E d \in Events : Record(d)
      BY <1>3, <3>2 DEF Record, Inv, TypeInv, TypeOK
    <3>3. CASE \E p \in Publishers : Claim(p)
      BY <1>3, <3>3 DEF Claim
    <3> QED
      BY <3>1, <3>2, <3>3
      DEF Next, vars, BusTurns, Expire, ConsumerStep, Fetch, Handle, Ack, Nak, ConsumerDies,
          PublisherStep, Marks, Select, Publish, Unreachable, MarkFails, PublisherDies
  <2>2. PICK status \in Statuses : /\ Mark(p, status)
                                   /\ status = "published" => pub[p].at = "sent"
    BY <2>1, MarksMark
  <2>3. record' = [record EXCEPT ![Current(p)].status = status]
    BY <2>2 DEF Mark
  <2>4. e = Current(p) /\ status = "published"
    BY <1>3, <2>3 DEF Inv, TypeInv, TypeOK
  <2>5. Current(p) \in Reached
    BY <2>2, <2>4 DEF Inv, SentReached
  <2> QED
    BY <1>1, <2>4, <2>5
<1> QED
  BY <1>2, <1>3

LEMMA InitInv == Init => Inv
BY InitType
DEF Init, Inv, SentReached, HandledEmitted, PublishedWasSent, Idle, Waiting

LEMMA StepInv == Inv /\ [Next]_vars => Inv'
<1>1. Inv /\ [Next]_vars => TypeInv'
  BY StepType DEF Inv
<1> QED
  BY <1>1, SentStep, HandledStep, PublishedStep DEF Inv

\* Whatever claims interleave and whoever dies, an event that is called published
\* reached the stream (eventing.py:269-274).
THEOREM PublishedReachedStream == Spec => []PublishedWasSent
<1>1. Inv => PublishedWasSent
  BY DEF Inv
<1> QED
  BY InitInv, StepInv, <1>1, PTL DEF Spec

\* A message leaves the bus only when what its handler emits is committed
\* (module_platform.py:606-640).
THEOREM AckLosesNothing == Spec => NothingLostByAck
<1> DEFINE Kept == \A e \in unacked \ unacked' : e \in stream' \cup emitted'
<1>1. Inv /\ [Next]_vars => Kept
  <2>1. Inv /\ [Next]_vars => Reached \subseteq Reached'
    BY ReachedGrows
  <2> QED
    BY <2>1 DEF Reached
<1>2. Inv /\ [Next]_vars => [Kept]_vars
  BY <1>1
<1> QED
  BY InitInv, StepInv, <1>2, PTL DEF Spec, NothingLostByAck

-----------------------------------------------------------------------------
(***************************************************************************)
(* Attempts, for two publishers at most.                                   *)
(***************************************************************************)
Holds(p, e) == e \in pub[p].todo

\* The attempts that a publisher has counted for an event, or will with its claim.
Aims(p, e) ==
    IF pub[p].at = "selected" THEN pub[p].attempts[e] + 1 ELSE pub[p].attempts[e]

\* Who holds an event below the limit may return it to pending.
Low(p, e) == Holds(p, e) /\ Aims(p, e) < Limit

\* The event had its last attempt and was, or is about to be, claimed once more.
Late(e) ==
    \/ record[e].attempts > Limit
    \/ record[e].attempts = Limit /\ record[e].status = "pending"
    \/ \E p \in Publishers : Holds(p, e) /\ Aims(p, e) > Limit

Unrecorded(e) ==
    record[e].status = "absent" =>
        record[e].attempts = 0 /\ \A p \in Publishers : ~Holds(p, e)

\* Two publishers: once the limit is reached one of them at most can return the
\* event, and once it is late neither can.
WithTwo(e) ==
    /\ record[e].attempts <= Limit + 1
    /\ \A p \in Publishers : Holds(p, e) => Aims(p, e) <= Limit + 1
    /\ record[e].status = "pending" => record[e].attempts <= Limit
    /\ record[e].attempts >= Limit =>
          \A p, q \in Publishers : Low(p, e) /\ Low(q, e) => p = q
    /\ Late(e) => record[e].attempts >= Limit /\ \A p \in Publishers : ~Low(p, e)

\* One publisher: it knows the row.
WithOne(e) ==
    /\ record[e].attempts <= Limit
    /\ record[e].status = "pending" => record[e].attempts < Limit
    /\ \A p \in Publishers : Holds(p, e) =>
          Aims(p, e) <= Limit /\ Aims(p, e) \in {record[e].attempts, record[e].attempts + 1}

AtMostOne == \A p, q \in Publishers : p = q
AtMostTwo == \A p, q, r \in Publishers : p = q \/ q = r \/ p = r

AttemptInv ==
    \A e \in Events : /\ Unrecorded(e)
                      /\ AtMostTwo => WithTwo(e)
                      /\ AtMostOne => WithOne(e)
                      /\ Publishers = {} => record[e].attempts = 0

-----------------------------------------------------------------------------
\* What a step is for one event.  A publisher keeps what it aims at, or lets go.
Keep(p, e) == Holds(p, e)' => Holds(p, e) /\ Aims(p, e)' = Aims(p, e)
OthersKeep(p, e) == \A q \in Publishers \ {p} : Keep(q, e)

Passes(e) == record'[e] = record[e] /\ \A p \in Publishers : Keep(p, e)
IsRecorded(e) ==
    /\ record[e].status = "absent"
    /\ record'[e].status = "pending" /\ record'[e].attempts = record[e].attempts
    /\ \A p \in Publishers : Keep(p, e)
IsSelected(p, e) ==
    /\ record'[e] = record[e] /\ record[e].status = "pending"
    /\ Holds(p, e)' => Aims(p, e)' = record[e].attempts + 1
    /\ OthersKeep(p, e)
IsClaimed(p, e) ==
    /\ Holds(p, e)
    /\ record'[e].status = "publishing" /\ record'[e].attempts = Aims(p, e)
    /\ Keep(p, e) /\ OthersKeep(p, e)
IsMarked(p, e) ==
    /\ Holds(p, e) /\ ~Holds(p, e)'
    /\ record'[e].attempts = record[e].attempts
    /\ \/ record'[e].status \in Settled
       \/ record'[e].status = "pending" /\ Aims(p, e) < Limit
    /\ OthersKeep(p, e)

Handles(e) ==
    \/ Passes(e) \/ IsRecorded(e)
    \/ \E p \in Publishers : IsSelected(p, e) \/ IsClaimed(p, e) \/ IsMarked(p, e)

LEMMA AimsType ==
    ASSUME TypeOK, NEW p \in Publishers, NEW e \in Events PROVE Aims(p, e) \in Nat
BY DEF TypeOK, Aims

\* A step of a publisher other than p leaves p where it is.
LEMMA OthersStay ==
    ASSUME TypeOK, NEW p \in Publishers, NEW new, pub' = [pub EXCEPT ![p] = new]
    PROVE  pub'[p] = new /\ \A q \in Publishers \ {p} : \A e \in Events : Keep(q, e)
<1>1. pub'[p] = new /\ \A q \in Publishers \ {p} : pub'[q] = pub[q]
  BY DEF TypeOK
<1> QED
  BY <1>1 DEF Keep, Holds, Aims

LEMMA PublishersPass ==
    ASSUME pub' = pub, record' = record, NEW e PROVE Passes(e)
BY DEF Passes, Keep, Holds, Aims

LEMMA SelectHandles ==
    ASSUME TypeOK, NEW p \in Publishers, Select(p), NEW e \in Events
    PROVE  Handles(e)
<1> DEFINE new == [at |-> "selected", todo |-> Oldest,
                   attempts |-> [d \in Events |-> IF d \in Oldest THEN record[d].attempts
                                                 ELSE 0]]
<1>1. pub' = [pub EXCEPT ![p] = new] /\ record' = record
  BY DEF Select
<1>2. /\ new.todo = Oldest /\ new.at = "selected"
      /\ e \in Oldest => new.attempts[e] = record[e].attempts
  OBVIOUS
<1> HIDE DEF new
<1>3. pub'[p] = new /\ OthersKeep(p, e)
  BY <1>1, OthersStay DEF OthersKeep
<1>4. e \in Oldest => record[e].status = "pending"
  BY DEF Oldest, Pending
<1>5. CASE e \in Oldest
  <2>1. Aims(p, e)' = record[e].attempts + 1
    BY <1>2, <1>3, <1>5 DEF Aims
  <2> QED
    BY <1>1, <1>3, <1>4, <1>5, <2>1 DEF Handles, IsSelected
<1>6. CASE e \notin Oldest
  <2>1. ~Holds(p, e)'
    BY <1>2, <1>3, <1>6 DEF Holds
  <2>2. \A q \in Publishers : Keep(q, e)
    BY <1>3, <2>1 DEF OthersKeep, Keep
  <2> QED
    BY <1>1, <2>2 DEF Handles, Passes
<1> QED
  BY <1>5, <1>6

LEMMA ClaimHandles ==
    ASSUME TypeOK, NEW p \in Publishers, Claim(p), NEW e \in Events
    PROVE  Handles(e)
<1> DEFINE attempts == [d \in Events |-> IF d \in pub[p].todo
                                         THEN CountedAttempt(pub[p].attempts[d]) ELSE 0]
           new == [pub[p] EXCEPT !.at = "next", !.attempts = attempts]
<1>1. pub[p] \in PublisherStates
  BY DEF TypeOK, PublisherStates
<1>2. /\ pub' = [pub EXCEPT ![p] = new]
      /\ record'[e] = IF e \in pub[p].todo
                      THEN [status |-> "publishing", attempts |-> attempts[e]] ELSE record[e]
  BY <1>1 DEF Claim, TypeOK, PublisherStates
<1>3. e \in pub[p].todo => attempts[e] = Aims(p, e)
  BY DEF Claim, Aims, CountedAttempt
<1> HIDE DEF attempts
<1>4. new.at = "next" /\ new.todo = pub[p].todo /\ new.attempts = attempts
  BY <1>1 DEF PublisherStates
<1> HIDE DEF new
<1>5. pub'[p] = new /\ OthersKeep(p, e)
  BY <1>2, OthersStay DEF OthersKeep
<1>6. Holds(p, e)' <=> Holds(p, e)
  BY <1>4, <1>5 DEF Holds
<1>7. Keep(p, e)
  <2>1. Aims(p, e)' = attempts[e]
    BY <1>4, <1>5 DEF Aims
  <2> QED
    BY <1>3, <1>6, <2>1 DEF Keep, Holds
<1>8. CASE Holds(p, e)
  BY <1>2, <1>3, <1>5, <1>7, <1>8 DEF Handles, IsClaimed, Holds
<1>9. CASE ~Holds(p, e)
  BY <1>2, <1>5, <1>7, <1>9 DEF Handles, Passes, Holds, OthersKeep
<1> QED
  BY <1>8, <1>9

\* Publishing, and whatever goes wrong with it, moves nobody's aim.
LEMMA TurnHandles ==
    ASSUME TypeOK, NEW p \in Publishers, NEW e \in Events,
           Publish(p) \/ Unreachable(p) \/ MarkFails(p)
    PROVE  Handles(e)
<1>1. PICK at \in {"sent", "refused"} : pub' = [pub EXCEPT ![p].at = at]
  BY DEF Publish, Unreachable, MarkFails
<1>2. record' = record /\ pub[p].at # "selected"
  BY DEF Publish, Unreachable, MarkFails
<1>3. /\ pub'[p].at = at /\ pub'[p].todo = pub[p].todo /\ pub'[p].attempts = pub[p].attempts
      /\ \A q \in Publishers \ {p} : pub'[q] = pub[q]
  BY <1>1 DEF TypeOK
<1>4. \A q \in Publishers : Keep(q, e)
  BY <1>2, <1>3 DEF Keep, Holds, Aims
<1> QED
  BY <1>2, <1>4 DEF Handles, Passes

LEMMA MarkHandles ==
    ASSUME TypeOK, NEW p \in Publishers, Marks(p), NEW e \in Events
    PROVE  Handles(e)
<1>1. PICK status : Mark(p, status) /\ \/ status \in Settled
                                       \/ status = "pending" /\ ~Exhausted(pub[p].attempts[Current(p)])
  BY DEF Marks, MarkPublished, MarkPending, MarkDeadLetter, Settled, Returned
<1>2. pub[p].at \in {"sent", "refused"}
  BY MarksMark
<1>3. PICK d : d = Current(p)
  OBVIOUS
<1>4. d \in pub[p].todo /\ d \in Events
  BY <1>2, <1>3, CurrentHeld
<1> DEFINE new == IF pub[p].todo = {d} THEN Idle
                  ELSE [at |-> "next", todo |-> pub[p].todo \ {d},
                        attempts |-> [pub[p].attempts EXCEPT ![d] = 0]]
<1>5. /\ pub' = [pub EXCEPT ![p] = new]
      /\ record' = [record EXCEPT ![d].status = status]
  BY <1>1, <1>3 DEF Mark
<1>6. /\ new.at # "selected" /\ new.todo = pub[p].todo \ {d}
      /\ e \in new.todo => new.attempts[e] = pub[p].attempts[e]
  BY DEF Idle, TypeOK
<1> HIDE DEF new
<1>7. pub'[p] = new /\ OthersKeep(p, e)
  BY <1>5, OthersStay DEF OthersKeep
<1>8. Keep(p, e)
  BY <1>2, <1>6, <1>7 DEF Keep, Holds, Aims
<1>9. CASE e = d
  <2>1. record'[e].status = status /\ record'[e].attempts = record[e].attempts
    BY <1>4, <1>5, <1>9 DEF TypeOK
  <2>2. Holds(p, e) /\ ~Holds(p, e)'
    BY <1>4, <1>6, <1>7, <1>9 DEF Holds
  <2>3. status = "pending" /\ ~Exhausted(pub[p].attempts[e]) => Aims(p, e) < Limit
    BY <1>2, OutboxAssumption DEF OutboxAssumption, Exhausted, Aims, TypeOK
  <2>4. \/ status \in Settled
        \/ status = "pending" /\ Aims(p, e) < Limit
    BY <1>1, <1>3, <1>9, <2>3 DEF Settled
  <2> QED
    BY <1>7, <2>1, <2>2, <2>4 DEF Handles, IsMarked
<1>10. CASE e # d
  <2>1. record'[e] = record[e]
    BY <1>5, <1>10 DEF TypeOK
  <2> QED
    BY <1>7, <1>8, <2>1 DEF Handles, Passes, OthersKeep
<1> QED
  BY <1>9, <1>10

LEMMA DeathHandles ==
    ASSUME TypeOK, NEW p \in Publishers, PublisherDies(p), NEW e \in Events
    PROVE  Handles(e)
<1>1. pub' = [pub EXCEPT ![p] = Idle] /\ record' = record
  BY DEF PublisherDies
<1>2. pub'[p] = Idle /\ OthersKeep(p, e)
  <2>1. PICK new : new = Idle
    OBVIOUS
  <2> QED
    BY <1>1, <2>1, OthersStay DEF OthersKeep
<1>3. Keep(p, e)
  BY <1>2 DEF Keep, Holds, Idle
<1> QED
  BY <1>1, <1>2, <1>3 DEF Handles, Passes, OthersKeep

LEMMA StepHandles ==
    ASSUME TypeOK, [Next]_vars, NEW e \in Events
    PROVE  Handles(e)
<1>1. CASE UNCHANGED <<pub, record>>
  BY <1>1, PublishersPass DEF Handles
<1>2. ASSUME NEW d \in Events, Record(d) PROVE Handles(e)
  <2>1. /\ record[d].status = "absent" /\ pub' = pub
        /\ record' = [record EXCEPT ![d].status = "pending"]
    BY <1>2 DEF Record
  <2>2. \A p \in Publishers : Keep(p, e)
    BY <2>1 DEF Keep, Holds, Aims
  <2>3. IF e = d THEN record'[e].status = "pending" /\ record'[e].attempts = record[e].attempts
        ELSE record'[e] = record[e]
    BY <2>1 DEF TypeOK
  <2> QED
    BY <2>1, <2>2, <2>3 DEF Handles, IsRecorded, Passes
<1>3. ASSUME NEW p \in Publishers, PublisherStep(p) \/ PublisherDies(p) PROVE Handles(e)
  BY <1>3, SelectHandles, ClaimHandles, TurnHandles, MarkHandles, DeathHandles
  DEF PublisherStep, Marks
<1>4. ASSUME NEW c \in Consumers, ConsumerStep(c) \/ ConsumerDies(c) PROVE UNCHANGED <<pub, record>>
  BY <1>4 DEF ConsumerStep, Fetch, Handle, Ack, Nak, ConsumerDies
<1>5. ASSUME NEW d \in Events, Expire(d) PROVE UNCHANGED <<pub, record>>
  BY <1>5 DEF Expire
<1>6. CASE UNCHANGED vars
  BY <1>1, <1>6 DEF vars
<1>7. CASE BusTurns
  BY <1>1, <1>7 DEF BusTurns
<1> QED
  BY <1>1, <1>2, <1>3, <1>4, <1>5, <1>6, <1>7 DEF Next

-----------------------------------------------------------------------------
\* What becomes of the numbers of one event in such a step.
LEMMA TypesOf ==
    ASSUME TypeOK, TypeOK', NEW e \in Events
    PROVE  /\ Limit \in Nat /\ Limit >= 1
           /\ record[e].attempts \in Nat /\ record'[e].attempts \in Nat
           /\ \A p \in Publishers : Aims(p, e) \in Nat /\ Aims(p, e)' \in Nat
<1>1. record[e].attempts \in Nat /\ record'[e].attempts \in Nat
  BY DEF TypeOK
<1>2. \A p \in Publishers : Aims(p, e) \in Nat /\ Aims(p, e)' \in Nat
  BY DEF TypeOK, Aims
<1> QED
  BY <1>1, <1>2, OutboxAssumption DEF OutboxAssumption

LEMMA UnrecordedStep ==
    ASSUME TypeOK, TypeOK', NEW e \in Events, Unrecorded(e), Handles(e)
    PROVE  Unrecorded(e)'
BY DEF Unrecorded, Handles, Passes, IsRecorded, IsSelected, IsClaimed, IsMarked, Keep, OthersKeep,
   Settled

LEMMA WithOneStep ==
    ASSUME TypeOK, TypeOK', NEW e \in Events, Unrecorded(e), AtMostOne, WithOne(e), Handles(e)
    PROVE  WithOne(e)'
<1>1. /\ Limit \in Nat /\ Limit >= 1
      /\ record[e].attempts \in Nat /\ record'[e].attempts \in Nat
      /\ \A p \in Publishers : Aims(p, e) \in Nat /\ Aims(p, e)' \in Nat
  BY TypesOf
<1>2. CASE Passes(e)
  BY <1>1, <1>2 DEF WithOne, Passes, Keep
<1>3. CASE IsRecorded(e)
  BY <1>1, <1>3 DEF WithOne, IsRecorded, Keep, Unrecorded
<1>4. ASSUME NEW p \in Publishers, IsSelected(p, e) PROVE WithOne(e)'
  <2>1. \A q \in Publishers : q = p
    BY DEF AtMostOne
  <2> QED
    BY <1>1, <1>4, <2>1 DEF WithOne, IsSelected
<1>5. ASSUME NEW p \in Publishers, IsClaimed(p, e) PROVE WithOne(e)'
  <2>1. \A q \in Publishers : q = p
    BY DEF AtMostOne
  <2> QED
    BY <1>1, <1>5, <2>1 DEF WithOne, IsClaimed, Keep
<1>6. ASSUME NEW p \in Publishers, IsMarked(p, e) PROVE WithOne(e)'
  <2>1. \A q \in Publishers : q = p
    BY DEF AtMostOne
  <2> QED
    BY <1>1, <1>6, <2>1 DEF WithOne, IsMarked, Settled
<1> QED
  BY <1>2, <1>3, <1>4, <1>5, <1>6 DEF Handles

LEMMA WithTwoStep ==
    ASSUME TypeOK, TypeOK', NEW e \in Events, Unrecorded(e), AtMostTwo, WithTwo(e), Handles(e)
    PROVE  WithTwo(e)'
<1>1. /\ Limit \in Nat /\ Limit >= 1
      /\ record[e].attempts \in Nat /\ record'[e].attempts \in Nat
      /\ \A p \in Publishers : Aims(p, e) \in Nat /\ Aims(p, e)' \in Nat
  BY TypesOf
<1>2. \A p \in Publishers : Keep(p, e) /\ Low(p, e)' => Low(p, e)
  BY <1>1 DEF Keep, Low
<1>3. CASE Passes(e)
  <2>1. Late(e)' => Late(e)
    BY <1>3 DEF Passes, Late, Keep
  <2> QED
    BY <1>1, <1>2, <1>3, <2>1 DEF WithTwo, Passes, Keep
<1>4. CASE IsRecorded(e)
  <2>1. record'[e].attempts = 0 /\ \A p \in Publishers : ~Holds(p, e)'
    BY <1>4 DEF IsRecorded, Unrecorded, Keep
  <2> QED
    BY <1>1, <2>1 DEF WithTwo, Late, Low
<1>5. ASSUME NEW p \in Publishers, IsSelected(p, e) PROVE WithTwo(e)'
  <2>1. /\ record'[e] = record[e] /\ record[e].status = "pending" /\ record[e].attempts <= Limit
        /\ Holds(p, e)' => Aims(p, e)' = record[e].attempts + 1
        /\ \A q \in Publishers : q # p => Keep(q, e)
    BY <1>5 DEF IsSelected, OthersKeep, WithTwo
  <2>2. \A q \in Publishers : Holds(q, e)' => Aims(q, e)' <= Limit + 1
    BY <1>1, <2>1 DEF WithTwo, Keep
  <2>3. record[e].attempts >= Limit => \A q \in Publishers : ~Low(q, e)'
    <3>1. record[e].attempts >= Limit => Late(e)
      BY <1>1, <2>1 DEF Late
    <3>2. record[e].attempts >= Limit => ~Low(p, e)'
      BY <1>1, <2>1 DEF Low
    <3> QED
      BY <1>2, <2>1, <3>1, <3>2 DEF WithTwo
  <2>4. Late(e)' => record[e].attempts >= Limit
    <3>1. \A q \in Publishers : q # p /\ Holds(q, e)' /\ Aims(q, e)' > Limit => Late(e)
      BY <2>1 DEF Keep, Late
    <3> QED
      BY <1>1, <2>1, <3>1 DEF Late, WithTwo
  <2> QED
    BY <2>1, <2>2, <2>3, <2>4 DEF WithTwo
<1>6. ASSUME NEW p \in Publishers, IsClaimed(p, e) PROVE WithTwo(e)'
  <2>1. /\ Holds(p, e) /\ record'[e].status = "publishing" /\ record'[e].attempts = Aims(p, e)
        /\ \A q \in Publishers : Keep(q, e)
    BY <1>6 DEF IsClaimed, OthersKeep
  <2>2. Aims(p, e) <= Limit + 1 /\ \A q \in Publishers : Holds(q, e)' => Aims(q, e)' <= Limit + 1
    BY <2>1 DEF WithTwo, Keep
  <2>3. Late(e)' => Late(e)
    BY <2>1 DEF Late, Keep
  <2>4. Late(e) => Aims(p, e) >= Limit /\ \A q \in Publishers : ~Low(q, e)'
    BY <1>1, <1>2, <2>1 DEF WithTwo, Low
  <2>5. Aims(p, e) >= Limit => \A q, r \in Publishers : Low(q, e)' /\ Low(r, e)' => q = r
    <3>1. Aims(p, e) >= Limit => ~Low(p, e)'
      BY <1>1, <1>2, <2>1 DEF Low
    <3> QED
      BY <3>1 DEF AtMostTwo
  <2> QED
    BY <2>1, <2>2, <2>3, <2>4, <2>5 DEF WithTwo
<1>7. ASSUME NEW p \in Publishers, IsMarked(p, e) PROVE WithTwo(e)'
  <2>1. /\ Holds(p, e) /\ ~Holds(p, e)' /\ record'[e].attempts = record[e].attempts
        /\ \/ record'[e].status \in Settled
           \/ record'[e].status = "pending" /\ Low(p, e)
        /\ \A q \in Publishers : Keep(q, e)
    BY <1>7 DEF IsMarked, OthersKeep, Low, Keep
  <2>2. \A q \in Publishers : /\ Holds(q, e)' => Aims(q, e)' <= Limit + 1
                              /\ Low(q, e)' => q # p /\ Low(q, e)
    BY <1>2, <2>1 DEF WithTwo, Keep, Low
  <2>3. Low(p, e) => record[e].attempts <= Limit
    BY <1>1 DEF WithTwo, Late
  <2>4. record'[e].status = "pending" /\ record[e].attempts >= Limit
          => \A q \in Publishers : ~Low(q, e)'
    BY <2>1, <2>2 DEF WithTwo, Settled
  <2>5. Late(e)' => \/ Late(e)
                    \/ record'[e].status = "pending" /\ record[e].attempts = Limit
    BY <2>1 DEF Late, Keep
  <2>6. Late(e)' => record[e].attempts >= Limit /\ \A q \in Publishers : ~Low(q, e)'
    BY <1>1, <2>2, <2>4, <2>5 DEF WithTwo
  <2>7. record'[e].status = "pending" => record[e].attempts <= Limit
    BY <2>1, <2>3 DEF Settled
  <2> QED
    BY <2>1, <2>2, <2>6, <2>7 DEF WithTwo
<1> QED
  BY <1>3, <1>4, <1>5, <1>6, <1>7 DEF Handles

LEMMA AttemptStep == TypeOK /\ TypeOK' /\ AttemptInv /\ [Next]_vars => AttemptInv'
<1> SUFFICES ASSUME TypeOK, TypeOK', AttemptInv, [Next]_vars, NEW e \in Events
             PROVE  /\ Unrecorded(e)'
                    /\ AtMostTwo => WithTwo(e)'
                    /\ AtMostOne => WithOne(e)'
                    /\ Publishers = {} => record'[e].attempts = 0
  BY DEF AttemptInv, AtMostTwo, AtMostOne
<1>1. Handles(e)
  BY StepHandles
<1>2. Unrecorded(e)' /\ (AtMostTwo => WithTwo(e)') /\ (AtMostOne => WithOne(e)')
  BY <1>1, UnrecordedStep, WithTwoStep, WithOneStep DEF AttemptInv
<1>3. Publishers = {} => record'[e].attempts = 0
  BY <1>1 DEF AttemptInv, Handles, Passes, IsRecorded
<1> QED
  BY <1>2, <1>3

LEMMA AttemptInit == Init => AttemptInv
<1> SUFFICES ASSUME Init, NEW e \in Events
             PROVE  Unrecorded(e) /\ WithTwo(e) /\ WithOne(e) /\ record[e].attempts = 0
  BY DEF AttemptInv
<1>1. /\ record[e].status = "absent" /\ record[e].attempts = 0
      /\ \A p \in Publishers : ~Holds(p, e)
  BY DEF Init, Holds, Idle
<1>2. Limit \in Nat /\ Limit >= 1
  BY OutboxAssumption DEF OutboxAssumption
<1> QED
  BY <1>1, <1>2 DEF Unrecorded, WithTwo, WithOne, Late, Low

-----------------------------------------------------------------------------
LEMMA TwoPublishers ==
    ASSUME Cardinality(Publishers) <= 2 PROVE AtMostTwo
<1> SUFFICES ASSUME NEW p \in Publishers, NEW q \in Publishers, NEW r \in Publishers,
                    p # q, q # r, p # r
             PROVE  FALSE
  BY DEF AtMostTwo
<1>1. IsFiniteSet(Publishers)
  BY OutboxAssumption DEF OutboxAssumption
<1>2. IsFiniteSet({p}) /\ Cardinality({p}) = 1
  BY FS_Singleton
<1>3. IsFiniteSet({p} \cup {q}) /\ Cardinality({p} \cup {q}) = 2
  <2>1. q \notin {p}
    OBVIOUS
  <2> QED
    BY <1>2, <2>1, FS_AddElement
<1>4. Cardinality(({p} \cup {q}) \cup {r}) = 3
  <2>1. r \notin {p} \cup {q}
    OBVIOUS
  <2> QED
    BY <1>3, <2>1, FS_AddElement
<1>5. Cardinality(({p} \cup {q}) \cup {r}) <= Cardinality(Publishers)
  <2>1. ({p} \cup {q}) \cup {r} \in SUBSET Publishers
    OBVIOUS
  <2> QED
    BY <1>1, <2>1, FS_Subset
<1>6. Cardinality(Publishers) \in Nat
  BY <1>1, FS_CardinalityType
<1> QED
  BY <1>4, <1>5, <1>6

LEMMA OnePublisher ==
    ASSUME Cardinality(Publishers) <= 1 PROVE AtMostOne
<1> SUFFICES ASSUME NEW p \in Publishers, NEW q \in Publishers, p # q PROVE FALSE
  BY DEF AtMostOne
<1>1. IsFiniteSet(Publishers)
  BY OutboxAssumption DEF OutboxAssumption
<1>2. IsFiniteSet({p}) /\ Cardinality({p}) = 1
  BY FS_Singleton
<1>3. Cardinality({p} \cup {q}) = 2
  <2>1. q \notin {p}
    OBVIOUS
  <2> QED
    BY <1>2, <2>1, FS_AddElement
<1>4. Cardinality({p} \cup {q}) <= Cardinality(Publishers)
  <2>1. {p} \cup {q} \in SUBSET Publishers
    OBVIOUS
  <2> QED
    BY <1>1, <2>1, FS_Subset
<1>5. Cardinality(Publishers) \in Nat
  BY <1>1, FS_CardinalityType
<1> QED
  BY <1>3, <1>4, <1>5

LEMMA NoPublisher ==
    ASSUME Cardinality(Publishers) <= 0 PROVE Publishers = {}
<1>1. IsFiniteSet(Publishers)
  BY OutboxAssumption DEF OutboxAssumption
<1>2. Cardinality(Publishers) \in Nat
  BY <1>1, FS_CardinalityType
<1>3. Cardinality(Publishers) = 0
  BY <1>2
<1> QED
  BY <1>1, <1>3, FS_EmptySet

LEMMA AttemptsFollow == AttemptInv /\ TypeOK => AttemptsBounded
<1> SUFFICES ASSUME AttemptInv, TypeOK, Cardinality(Publishers) <= 2, NEW e \in Events
             PROVE  record[e].attempts <= Limit + Cardinality(Publishers) - 1
  BY DEF AttemptsBounded
<1>1. Cardinality(Publishers) \in Nat
  BY FS_CardinalityType, OutboxAssumption DEF OutboxAssumption
<1>2. Limit \in Nat /\ Limit >= 1 /\ record[e].attempts \in Nat
  BY OutboxAssumption DEF OutboxAssumption, TypeOK
<1>3. CASE Cardinality(Publishers) = 0
  BY <1>2, <1>3, NoPublisher DEF AttemptInv
<1>4. CASE Cardinality(Publishers) = 1
  <2>1. record[e].attempts <= Limit
    BY <1>4, OnePublisher DEF AttemptInv, WithOne
  <2> QED
    BY <1>2, <1>4, <2>1
<1>5. CASE Cardinality(Publishers) = 2
  <2>1. record[e].attempts <= Limit + 1
    BY <1>5, TwoPublishers DEF AttemptInv, WithTwo
  <2> QED
    BY <1>2, <1>5, <2>1
<1> QED
  BY <1>1, <1>3, <1>4, <1>5

\* One or two publishers try an event no more often than the limit allows, and
\* once: stale claims may undo a dead letter, but only below the limit
\* (eventing.py:278-288).
THEOREM AttemptsStayBounded == Spec => []AttemptsBounded
<1> QED
  BY AttemptInit, AttemptStep, AttemptsFollow, TypeCorrect, PTL DEF Spec
=============================================================================
