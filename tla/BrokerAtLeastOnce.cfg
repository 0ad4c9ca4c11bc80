SPECIFICATION FairSpec
CONSTANTS
    k1 = k1
    k2 = k2
    Consumer <- MCConsumer
    BatchSize = 2
    MaxEntries = 2
    MaxStops = 1
    MaxErrors = 0
PROPERTIES
    EveryEntryIsHandled
