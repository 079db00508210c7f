SPECIFICATION Spec
CONSTANTS
    Filter = {f1, f2}
    Worker = {w1, w2}
    MaxTime = 2
    MaxTimeout = 2
    MaxOps = 2
    MaxFaults = 0
    MaxCrashes = 0
CHECK_DEADLOCK FALSE
INVARIANT
    CacheIsCurrent
