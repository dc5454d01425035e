SPECIFICATION FairMwSpec
CONSTANTS
    Connections = {c1, c2, c3}
    BufferSize = 1
    RateLimit = 2
    ConcurrencyLimit = 1
    KeepAlive = TRUE
INVARIANTS MwTypeOK Isolated
PROPERTY Answered
CHECK_DEADLOCK FALSE
