SPECIFICATION FairSpec
CONSTANTS
    k1 = k1
    k2 = k2
    Consumer <- MCConsumer
    BatchSize = 2
    MaxEntries = 4
    MaxStops = 2
    MaxErrors = 2
INVARIANTS
    TypeOK
    DeliveredHasOneOwner
    InHandIsPending
PROPERTIES
    YieldedInOrder
    AbandonedIsLost
    ImplementsWorkQueue
    EveryEntryIsDelivered
