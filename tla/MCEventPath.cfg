CONSTANTS
    e1 = e1
    e2 = e2
    e3 = e3
    Events = {e1, e2, e3}
    None = None
    Cases <- MCCases
    ChanDepth = 1
SPECIFICATION Spec
INVARIANTS
    FaithfulDelivery
    StaysSendable
    CloseDrains
PROPERTY ChannelDrains
CHECK_DEADLOCK FALSE
