SPECIFICATION FairSpec
CONSTANTS
    Filter = {f1, f2}
    Worker = {w1, w2}
    MaxTime = 2
    MaxTimeout = 1
    MaxOps = 2
    MaxFaults = 1
    MaxCrashes = 1
CHECK_DEADLOCK FALSE
INVARIANTS
    TypeOK
    CacheCatchesUp
    TimerCoversAllow
PROPERTIES
    FlipsOnlyDue
    DenyClearsDate
    ExpiryHappens
