\* Three transactions, three events, pages of two, two contending sequencers.
CONSTANTS
    Txns = {t1, t2, t3}
    Events = {e1, e2, e3}
    Sequencers = {s1, s2}
    None = None
    Limit = 2
    MaxId = 3
    MaxFaults = 1
SPECIFICATION Spec
SYMMETRY Symmetry
INVARIANTS TypeOK CausalOrder EmitOrder DenseLog
PROPERTIES AppendOnly ImplementsCausalLog
CHECK_DEADLOCK FALSE
