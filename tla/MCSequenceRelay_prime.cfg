\* The first Offset read of a fresh group may fail.
CONSTANTS
    i1 = i1
    i2 = i2
    g1 = g1
    g2 = g2
    Groups = {g1}
    Instances = {i1}
    GroupOf <- OneReplica
    None = None
    BatchSize = 2
    SequenceBatchSize = 2
    MaxPagesPerTick = 2
    PoisonHandler = {}
    StartFromBeginning = {}
    Batching = {}
    Fenced = TRUE
    Kind <- AllOk
    FaultPoints = {"prime"}
    MaxMsgs = 3
    MaxFaults = 1
    MaxSteals = 0
    MaxCrashes = 0
    MaxDeletes = 0
SPECIFICATION Spec
INVARIANTS FreshGroupOwedBacklog
