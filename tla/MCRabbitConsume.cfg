CONSTANTS
    m1 = m1
    m2 = m2
    Messages = {m1, m2}
    None = None
    Events = {"created", "removed"}
    Cases <- MCCases
    MaxRetries = 2
    Base = 1
    Cap = 3
    Troubles = {"channel", "unbind", "handshake", "unanswered", "nack", "silent", "shutdown", "drain", "setup"}
    MaxTroubles = 2
    MaxCount = 3
SPECIFICATION Spec
INVARIANTS
    TypeOK
    NothingLost
    NoStranded
    RetriesBounded
    HandlersBound
PROPERTY Settles
CHECK_DEADLOCK FALSE
