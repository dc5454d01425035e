SPECIFICATION WsSpec
CONSTANTS
    ServerEvents = {"connect", "receive", "disconnect"}
    AppEvents = {"accept", "send", "close", "other"}
    BackpressureSize = 1
    MaxMessages = 3
    KeepsEndpoints = TRUE
INVARIANT UnexpectedMeansNoResult
CHECK_DEADLOCK FALSE
