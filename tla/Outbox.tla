------------------------------- MODULE Outbox -------------------------------
(***************************************************************************)
(* The outbox of domain events: rows written with the change they announce *)
(* (OutboxRepository.record_event), published by OutboxPublisher to a      *)
(* JetStream stream and consumed by the modules that subscribe             *)
(* (NatsJetStreamBus.consume, ModulePlatformService._dispatch_event).      *)
(*                                                                         *)
(* Publishing is a request of the module host, so several may run at once; *)
(* a claim locks nothing while it reads, and its UPDATE sets status and    *)
(* attempts to what it computed.  A request claims nothing unless the      *)
(* stream answered it first.  A message is the event it carries: a second  *)
(* copy of a message that waits makes no difference.                       *)
(***************************************************************************)
EXTENDS Integers, FiniteSets

CONSTANTS
    Events,         \* numbers, in the order of their creation
    Publishers,     \* requests that publish, one after another each
    Consumers,      \* requests that consume for one subscription
    Subscribed,     \* the events of its type
    Limit,          \* attempts after which an event is a dead letter (5)
    Batch,          \* how many events a claim takes at most
    MaxDeaths       \* bound: requests that end in the middle

ASSUME OutboxAssumption ==
    /\ Events \subseteq Nat /\ IsFiniteSet(Events)
    /\ Subscribed \subseteq Events
    /\ IsFiniteSet(Publishers)
    /\ Limit \in Nat \ {0} /\ Batch \in Nat \ {0} /\ MaxDeaths \in Nat

VARIABLES
    record,         \* the committed row of an event
    pub, con,       \* the publishers and the consumers
    stream,         \* messages that the bus will deliver
    unacked,        \* messages delivered and not acknowledged
    reachable,      \* the bus and its stream answer
    emitted,        \* history: messages whose handler's own events are committed
    abandoned,      \* history: events that were claimed when their publisher died
    deaths

vars == <<record, pub, con, stream, unacked, reachable, emitted, abandoned, deaths>>
busVars == <<stream, unacked, reachable>>
consumerVars == <<con, emitted>>

-----------------------------------------------------------------------------
Statuses == {"absent", "pending", "publishing", "published", "dead-letter"}
Settled == {"published", "dead-letter"}
NoEvent == -1

\* A publisher: the events it still has to publish, with the attempts that its
\* claim gave them.
Publishing == {"idle", "selected", "next", "sent", "refused"}
Idle == [at |-> "idle", todo |-> {}, attempts |-> [e \in Events |-> 0]]

Consuming == {"idle", "handling", "handled"}
Waiting == [at |-> "idle", event |-> NoEvent]

TypeOK ==
    /\ record \in [Events -> [status : Statuses, attempts : Nat]]
    /\ pub \in [Publishers -> [at : Publishing, todo : SUBSET Events,
                               attempts : [Events -> Nat]]]
    /\ con \in [Consumers -> [at : Consuming, event : Events \cup {NoEvent}]]
    /\ stream \subseteq Events /\ unacked \subseteq Events /\ reachable \in BOOLEAN
    /\ emitted \subseteq Events /\ abandoned \subseteq Events
    /\ deaths \in 0 .. MaxDeaths
    /\ \A p \in Publishers :
          pub[p].at = "idle" <=> pub[p].todo = {}

Init ==
    /\ record = [e \in Events |-> [status |-> "absent", attempts |-> 0]]
    /\ pub = [p \in Publishers |-> Idle]
    /\ con = [c \in Consumers |-> Waiting]
    /\ stream = {} /\ unacked = {} /\ reachable = TRUE
    /\ emitted = {} /\ abandoned = {}
    /\ deaths = 0

-----------------------------------------------------------------------------
(***************************************************************************)
(* Recording and publishing.                                               *)
(***************************************************************************)
\* The transaction that changes something commits the row of its event.
Record(e) ==
    /\ record[e].status = "absent"
    /\ \A d \in Events : d < e => record[d].status # "absent"
    /\ record' = [record EXCEPT ![e].status = "pending"]
    /\ UNCHANGED <<pub, busVars, consumerVars, abandoned, deaths>>

Pending == {e \in Events : record[e].status = "pending"}

Oldest == {e \in Pending : Cardinality({d \in Pending : d < e}) < Batch}

\* The stream answers, and the SELECT of a claim takes the oldest pending
\* events.  The bus may fail before the SELECT as well as after it: nothing
\* here happens only while it is away.
Select(p) ==
    /\ pub[p].at = "idle"
    /\ reachable
    /\ Pending # {}
    /\ pub' = [pub EXCEPT ![p] = [at |-> "selected", todo |-> Oldest,
                                  attempts |-> [e \in Events |-> IF e \in Oldest
                                                                THEN record[e].attempts
                                                                ELSE 0]]]
    /\ UNCHANGED <<record, busVars, consumerVars, abandoned, deaths>>

CountedAttempt(k) == k + 1

\* Its UPDATE and the commit, whatever became of the rows meanwhile.
Claim(p) ==
    LET attempts == [e \in Events |-> IF e \in pub[p].todo
                                      THEN CountedAttempt(pub[p].attempts[e])
                                      ELSE 0] IN
    /\ pub[p].at = "selected"
    /\ record' = [e \in Events |-> IF e \in pub[p].todo
                                   THEN [status |-> "publishing", attempts |-> attempts[e]]
                                   ELSE record[e]]
    /\ pub' = [pub EXCEPT ![p].at = "next", ![p].attempts = attempts]
    /\ UNCHANGED <<busVars, consumerVars, abandoned, deaths>>

\* The claimed events are published one by one, the oldest first.
Current(p) == CHOOSE e \in pub[p].todo : \A d \in pub[p].todo : e <= d

\* The stream has the message; the acknowledgement reaches the publisher, or it
\* does not.
Publish(p) ==
    /\ pub[p].at = "next"
    /\ reachable
    /\ stream' = stream \cup {Current(p)}
    /\ \E at \in {"sent", "refused"} : pub' = [pub EXCEPT ![p].at = at]
    /\ UNCHANGED <<record, unacked, reachable, consumerVars, abandoned, deaths>>

\* The connection of this request fails, or the bus is away.
Unreachable(p) ==
    /\ pub[p].at = "next"
    /\ pub' = [pub EXCEPT ![p].at = "refused"]
    /\ UNCHANGED <<record, busVars, consumerVars, abandoned, deaths>>

\* The event is marked, each in a transaction of its own.
Mark(p, status) ==
    /\ record' = [record EXCEPT ![Current(p)].status = status]
    /\ pub' = [pub EXCEPT ![p] = IF @.todo = {Current(p)} THEN Idle
                                ELSE [at |-> "next", todo |-> @.todo \ {Current(p)},
                                      attempts |-> [@.attempts EXCEPT ![Current(p)] = 0]]]
    /\ UNCHANGED <<busVars, consumerVars, abandoned, deaths>>

\* Mutant: a refusal is taken for a success.
MarksAny(p) == pub[p].at \in {"sent", "refused"}

MarksPublished(p) == pub[p].at = "sent"

MarkPublished(p) == MarksPublished(p) /\ Mark(p, "published")

\* The transaction that marks the event published fails.
MarkFails(p) ==
    /\ pub[p].at = "sent"
    /\ pub' = [pub EXCEPT ![p].at = "refused"]
    /\ UNCHANGED <<record, busVars, consumerVars, abandoned, deaths>>

\* Mutant: the limit is passed over.
ExhaustedBeyond(k) == k > Limit

Exhausted(k) == k >= Limit

\* Mutant: an event that was refused stays claimed.
StaysClaimed == "publishing"

Returned == "pending"

MarkPending(p) ==
    /\ pub[p].at = "refused"
    /\ ~Exhausted(pub[p].attempts[Current(p)])
    /\ Mark(p, Returned)

MarkDeadLetter(p) ==
    /\ pub[p].at = "refused"
    /\ Exhausted(pub[p].attempts[Current(p)])
    /\ Mark(p, "dead-letter")

\* The process dies, or an exception leaves the loop: the envelope of an event
\* cannot be read, or the transaction after a refusal fails too.  Nobody looks
\* for events that are being published.
PublisherDies(p) ==
    /\ pub[p].at # "idle"
    /\ deaths < MaxDeaths
    /\ deaths' = deaths + 1
    /\ abandoned' = IF pub[p].at = "selected" THEN abandoned
                    ELSE abandoned \cup pub[p].todo
    /\ pub' = [pub EXCEPT ![p] = Idle]
    /\ UNCHANGED <<record, busVars, consumerVars>>

-----------------------------------------------------------------------------
(***************************************************************************)
(* Consuming.                                                              *)
(***************************************************************************)
Fetch(c) ==
    \E e \in stream \cap Subscribed :
        /\ con[c].at = "idle"
        /\ reachable
        /\ con' = [con EXCEPT ![c] = [at |-> "handling", event |-> e]]
        /\ stream' = stream \ {e}
        /\ unacked' = unacked \cup {e}
        /\ UNCHANGED <<record, pub, reachable, emitted, abandoned, deaths>>

\* The handler of the module returned, and what it emits is recorded and
\* committed.
Handle(c) ==
    /\ con[c].at = "handling"
    /\ con' = [con EXCEPT ![c].at = "handled"]
    /\ emitted' = emitted \cup {con[c].event}
    /\ UNCHANGED <<record, pub, busVars, abandoned, deaths>>

\* Mutant: the message is acknowledged when it arrives.
AcksEarly(c) == con[c].at # "idle"

Acks(c) == con[c].at = "handled"

Ack(c) ==
    /\ Acks(c)
    /\ reachable
    /\ unacked' = unacked \ {con[c].event}
    /\ con' = [con EXCEPT ![c] = Waiting]
    /\ UNCHANGED <<record, pub, stream, reachable, emitted, abandoned, deaths>>

\* The handler failed, or said that it did.
Nak(c) ==
    /\ con[c].at # "idle"
    /\ reachable
    /\ stream' = stream \cup {con[c].event}
    /\ unacked' = unacked \ {con[c].event}
    /\ con' = [con EXCEPT ![c] = Waiting]
    /\ UNCHANGED <<record, pub, reachable, emitted, abandoned, deaths>>

\* It ends with neither, by itself or because it cannot reach the bus.
ConsumerDies(c) ==
    /\ con[c].at # "idle"
    /\ \/ reachable /\ deaths < MaxDeaths /\ deaths' = deaths + 1
       \/ ~reachable /\ UNCHANGED deaths
    /\ con' = [con EXCEPT ![c] = Waiting]
    /\ UNCHANGED <<record, pub, busVars, emitted, abandoned>>

\* The bus delivers again what was not acknowledged in time, whether or not its
\* consumer is still at it.
Expire(e) ==
    /\ e \in unacked
    /\ stream' = stream \cup {e}
    /\ unacked' = unacked \ {e}
    /\ UNCHANGED <<record, pub, reachable, consumerVars, abandoned, deaths>>

\* The bus, or its stream, goes away and comes back with its messages.
BusTurns ==
    /\ reachable' = ~reachable
    /\ UNCHANGED <<record, pub, stream, unacked, consumerVars, abandoned, deaths>>

-----------------------------------------------------------------------------
PublisherStep(p) ==
    \/ Select(p) \/ Claim(p)
    \/ Publish(p) \/ Unreachable(p)
    \/ MarkPublished(p) \/ MarkFails(p) \/ MarkPending(p) \/ MarkDeadLetter(p)

ConsumerStep(c) == Fetch(c) \/ Handle(c) \/ Ack(c) \/ Nak(c)

Next ==
    \/ \E e \in Events : Record(e) \/ Expire(e)
    \/ \E p \in Publishers : PublisherStep(p) \/ PublisherDies(p)
    \/ \E c \in Consumers : ConsumerStep(c) \/ ConsumerDies(c)
    \/ BusTurns

Spec == Init /\ [][Next]_vars

\* Somebody keeps asking for publication and a request that runs goes on; a
\* claim may be refused as often as one likes once it is made.
FairSpec == Spec /\ \A p \in Publishers : WF_vars(PublisherStep(p))

-----------------------------------------------------------------------------
(***************************************************************************)
(* Properties.                                                             *)
(***************************************************************************)
\* However claims interleave, an event that is called published waits in the
\* stream, is being handled, or was (eventing.py:269-274).
PublishedWasSent ==
    \A e \in Events :
        record[e].status = "published" => e \in stream \cup unacked \cup emitted

\* Claims that read the same row give it the same number of attempts, and one
\* may return to pending what another would bury.  Two publishers share one
\* attempt beyond the limit and no more; the bound is stated for two and does
\* not carry over to three (eventing.py:278-288).
AttemptsBounded ==
    Cardinality(Publishers) <= 2 =>
        \A e \in Events :
            record[e].attempts <= Limit + Cardinality(Publishers) - 1

\* A message is acknowledged only after what its handler emits is committed, so
\* a consumer that dies in between loses nothing (module_platform.py:606-640).
NothingLostByAck ==
    [][\A e \in unacked \ unacked' : e \in stream' \cup emitted']_vars

\* Once the bus stays reachable every event is published or a dead letter in
\* the end, and stays so whatever late claims there were, however single
\* requests are refused, but for those whose publisher died: they stay as they
\* were claimed (platform_core.py:543-557).  While the bus is away nothing is
\* claimed and an event waits (eventing.py:251-259).
EventsSettle ==
    <>[]reachable =>
        <>[](\A e \in Events :
                record[e].status # "absent" =>
                    record[e].status \in Settled \/ e \in abandoned)
=============================================================================
