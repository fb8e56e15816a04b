CONSTANTS
    a = a
    b = b
    o = o
    relay = relay
    app = app
    Messages = {a, b, o}
    Callers = {relay, app}
    Relay = relay
    Others <- MCOthers
    Chans = {c1, c2}
    None = None
    SenderCases <- MCSenderCases
    LaneCases <- MCLaneCases
    Threshold = 1
    MaxTroubles = 1
    MaxAttempts = 2
SPECIFICATION Spec
INVARIANTS
    TypeOK
    ConfirmedPrefix
    ConfirmMode
    LaneDisposes
PROPERTIES
    EpisodeKept
    CallsReturn
    NoSilentStall
CHECK_DEADLOCK FALSE
