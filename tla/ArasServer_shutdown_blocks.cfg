SPECIFICATION FairServerSpec
CONSTANTS
    ServerEvents = {"startup", "shutdown"}
    AppEvents = {"startup.complete", "startup.failed", "shutdown.complete", "shutdown.failed", "other"}
    BackpressureSize = 1
    MaxMessages = 2
    MaxConnections = 1
    KeepsEndpoints = FALSE
PROPERTY CancelledStops
CHECK_DEADLOCK FALSE
