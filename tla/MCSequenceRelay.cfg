\* Two replicas of one group race for the lease over a log with a poison row.
CONSTANTS
    i1 = i1
    i2 = i2
    g1 = g1
    g2 = g2
    Groups = {g1}
    Instances = {i1, i2}
    GroupOf <- TwoReplicas
    None = None
    BatchSize = 2
    SequenceBatchSize = 2
    MaxPagesPerTick = 2
    PoisonHandler = {i1}
    StartFromBeginning = {i1, i2}
    Batching = {}
    Fenced = TRUE
    Kind <- OnePoisonOneUnsendable
    FaultPoints = {"prime", "acquire", "sequence", "list", "send", "park", "commit"}
    MaxMsgs = 3
    MaxFaults = 1
    MaxSteals = 2
    MaxCrashes = 1
    MaxDeletes = 0
SPECIFICATION Spec
INVARIANTS TypeOK AtLeastOnce SweepKeepsUndelivered NoSkipAhead
PROPERTIES WatermarkMonotone
