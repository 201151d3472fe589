SPECIFICATION Spec
CONSTANTS
    Markets = {m1, m2}
    SaveMayFail = {"stage", "acknowledge"}
    MaxSnapshots = 2
    MaxFailures = 1
    MaxCrashes = 1
    Cleaners = {w1}
    Nobody = nobody
    MaxAttempts = 2
    MaxStalls = 1
INVARIANTS NumbersAreNotReused
