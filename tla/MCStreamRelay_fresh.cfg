\* A fresh group whose first leader loses its lease before the baseline is saved.
CONSTANTS
    i1 = i1
    i2 = i2
    Instances = {i1, i2}
    None = None
    TokenBatchSize = 2
    PoisonHandler = {i1, i2}
    Kind <- AllOk
    ContendedStart = TRUE
    Troubles = {"steal"}
    MaxHead = 1
    MaxTroubles = 1
SPECIFICATION Spec
INVARIANTS TokenNeverSkips
