\* Two replicas of one unfenced group, one row per page: every event is disposed of.
CONSTANTS
    i1 = i1
    i2 = i2
    g1 = g1
    g2 = g2
    Groups = {g1}
    Instances = {i1, i2}
    GroupOf <- TwoReplicas
    None = None
    BatchSize = 1
    SequenceBatchSize = 2
    MaxPagesPerTick = 2
    PoisonHandler = {i1, i2}
    StartFromBeginning = {}
    Batching = {}
    Fenced = FALSE
    Kind <- PoisonThenOk
    FaultPoints = {"acquire", "sequence", "list", "send", "park", "commit"}
    MaxMsgs = 2
    MaxFaults = 1
    MaxSteals = 1
    MaxCrashes = 1
    MaxDeletes = 0
SPECIFICATION FairSpec
INVARIANTS StaleOverlapBounded FreshGroupOwedBacklog
PROPERTIES EventuallyDisposed
