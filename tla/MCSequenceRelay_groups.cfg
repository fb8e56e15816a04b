\* Two groups, one replaying and one starting at the latest seq, batched sends;
\* either may be decommissioned while it runs.
CONSTANTS
    i1 = i1
    i2 = i2
    g1 = g1
    g2 = g2
    Groups = {g1, g2}
    Instances = {i1, i2}
    GroupOf <- TwoGroups
    None = None
    BatchSize = 2
    SequenceBatchSize = 2
    MaxPagesPerTick = 2
    PoisonHandler = {i1}
    StartFromBeginning = {i1}
    Batching = {i1, i2}
    Fenced = TRUE
    Kind <- UnsendableThenOk
    FaultPoints = {"send", "park", "commit", "prime"}
    MaxMsgs = 3
    MaxFaults = 1
    MaxSteals = 0
    MaxCrashes = 1
    MaxDeletes = 1
SPECIFICATION Spec
INVARIANTS AtLeastOnce SweepKeepsUndelivered
