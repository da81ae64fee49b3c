\* Two publishers and a consumer, two events, one request that dies.
CONSTANTS
    p1 = p1
    p2 = p2
    c1 = c1
    Events <- MCEvents
    Publishers <- MCPublishers
    Consumers <- MCConsumers
    Subscribed <- MCSubscribed
    Limit = 2
    Batch = 2
    MaxDeaths = 1
SPECIFICATION FairSpec
CHECK_DEADLOCK FALSE
INVARIANTS PublishedWasSent AttemptsBounded
PROPERTIES NothingLostByAck EventsSettle
