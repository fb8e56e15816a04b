\* Two replicas over an oplog of sendable, undecodable and unrelated entries.
CONSTANTS
    i1 = i1
    i2 = i2
    Instances = {i1, i2}
    None = None
    TokenBatchSize = 2
    PoisonHandler = {i1, i2}
    Kind <- Mixed
    ContendedStart = FALSE
    Troubles <- AllTroubles
    MaxHead = 5
    MaxTroubles = 2
SPECIFICATION FairSpec
INVARIANTS TypeOK TokenNeverSkips CommitOrder
PROPERTIES TokenMonotone EventuallyCommitted
