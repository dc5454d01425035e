SPECIFICATION MwSpec
CONSTANTS
    Connections = {c1, c2, c3}
    BufferSize = 1
    RateLimit = 2
    ConcurrencyLimit = 1
    KeepAlive = TRUE
INVARIANT InFlightLimited
CHECK_DEADLOCK FALSE
