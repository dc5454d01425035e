SPECIFICATION FairServerSpec
CONSTANTS
    ServerEvents = {"startup", "shutdown"}
    AppEvents = {"startup.complete", "startup.failed", "shutdown.complete", "shutdown.failed", "other"}
    BackpressureSize = 2
    MaxMessages = 2
    MaxConnections = 1
    KeepsEndpoints = TRUE
INVARIANTS ServerTypeOK ServingMeansStarted LifespanOrder OkMeansShutDown
PROPERTIES StartupEnded CancelledStops
CHECK_DEADLOCK FALSE
