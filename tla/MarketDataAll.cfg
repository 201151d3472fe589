SPECIFICATION FairSpec
CONSTANTS
    Markets = {m1, m2}
    SaveMayFail = {"acknowledge"}
    MaxSnapshots = 2
    MaxFailures = 1
    MaxCrashes = 1
    Cleaners = {w1, w2}
    Nobody = nobody
    MaxAttempts = 2
    MaxStalls = 1
INVARIANTS DeletionsAreTrue
PROPERTIES ImplementsBatchLog ClearedStaysCleared WorkIsDone
