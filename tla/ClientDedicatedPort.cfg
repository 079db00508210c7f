\* The same with a port per client. A removed client comes to rest
SPECIFICATION ClientSpec
CONSTANTS
    Socket = {s1, s2, s3}
    MaxSockets = 2
    UniquePort = FALSE
    AuthMode = {TRUE}
SYMMETRY Symmetry
CHECK_DEADLOCK FALSE
INVARIANTS
    NoDoubleUse
    VerifiedWithinLimit
PROPERTY
    ImplementsPool
