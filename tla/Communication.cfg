SPECIFICATION FairCommSpec
CONSTANTS
    ServerEvents = {"request"}
    AppEvents = {"response"}
    BackpressureSize = 1
    MaxMessages = 2
    KeepsEndpoints = TRUE
INVARIANTS ErrorMeansDrained DisconnectMeansDrained TruthfulResults CommInv
PROPERTIES CacheWriteOnce CallsReturn ImplementsLink
