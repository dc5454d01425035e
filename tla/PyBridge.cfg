SPECIFICATION FairBridgeSpec
CONSTANTS
    ServerEvents = {"WebsocketReceive", "WebsocketDisconnect"}
    AppEvents <- SendEvents
    BackpressureSize = 1
    Tasks = {t1, t2}
    SentVariants = {"WebsocketSend"}
    MaxMessages = 2
    MaxCalls = 2
INVARIANTS BridgeTypeOK SentAsAsked ReceivedInOrder
PROPERTY CallsEnd
CHECK_DEADLOCK FALSE
