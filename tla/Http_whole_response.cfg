SPECIFICATION HttpSpec
CONSTANTS
    ServerEvents = {"more", "last", "disconnect"}
    AppEvents = {"start", "body.more", "body.last", "other"}
    BackpressureSize = 1
    MaxMessages = 3
    KeepsEndpoints = FALSE
INVARIANT WholeResponseServed
CHECK_DEADLOCK FALSE
