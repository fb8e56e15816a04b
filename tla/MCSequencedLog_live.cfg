\* Two publishers, two events, pages of one row, two contending sequencers.
CONSTANTS
    Txns = {t1, t2}
    Events = {e1, e2}
    Sequencers = {s1, s2}
    None = None
    Limit = 1
    MaxId = 2
    MaxFaults = 2
SPECIFICATION FairSpec
PROPERTIES EventuallySequenced
CHECK_DEADLOCK FALSE
