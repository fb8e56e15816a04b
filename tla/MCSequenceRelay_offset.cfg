\* A leader whose lease is taken and given back while its pass runs.
CONSTANTS
    i1 = i1
    i2 = i2
    g1 = g1
    g2 = g2
    Groups = {g1}
    Instances = {i1, i2}
    GroupOf <- TwoReplicas
    None = None
    BatchSize = 2
    SequenceBatchSize = 2
    MaxPagesPerTick = 2
    PoisonHandler = {}
    StartFromBeginning = {}
    Batching = {}
    Fenced = TRUE
    Kind <- AllOk
    FaultPoints = {}
    MaxMsgs = 3
    MaxFaults = 0
    MaxSteals = 1
    MaxCrashes = 1
    MaxDeletes = 0
SPECIFICATION Spec
INVARIANTS LocalOffsetIsCommitted
