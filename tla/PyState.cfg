SPECIFICATION FairPyStateSpec
CONSTANTS
    Threads = {t1, t2}
    Calls = {"lifespan", "request1", "request2"}
    Methods = {"get", "__setitem__", "pop"}
    Values = {"one", "two"}
    MaxDepth = 2
    MaxUses = 3
INVARIANT PyStateTypeOK
PROPERTIES ReadsLatest UsesEnd
CHECK_DEADLOCK FALSE
