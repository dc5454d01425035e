SPECIFICATION FairHttpSpec
CONSTANTS
    ServerEvents = {"more", "last", "disconnect"}
    AppEvents = {"start", "body.more", "body.last", "other"}
    BackpressureSize = 1
    MaxMessages = 3
    KeepsEndpoints = TRUE
INVARIANTS HttpTypeOK CompleteMeansWhole RequestWellFormed RefusedMeansOver
PROPERTIES RequestAnswered AppReleased
CHECK_DEADLOCK FALSE
