SPECIFICATION FairWsSpec
CONSTANTS
    ServerEvents = {"connect", "receive", "disconnect"}
    AppEvents = {"accept", "send", "close", "other"}
    BackpressureSize = 1
    MaxMessages = 3
    KeepsEndpoints = TRUE
INVARIANTS WsTypeOK ServedMeansAccepted WsEventOrder CloseIsTold NormalCloseDeliversAll
PROPERTIES AppEndsConnection ClientLossEnds
CHECK_DEADLOCK FALSE
