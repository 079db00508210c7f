\* Three connections compete for the two sockets of a client of the shared port
SPECIFICATION FairClientSpec
CONSTANTS
    Socket = {s1, s2, s3}
    MaxSockets = 2
    UniquePort = TRUE
    AuthMode = {TRUE, FALSE}
INVARIANTS
    ClientTypeOK
    NoDoubleUse
    VerifiedWithinLimit
    OnlyVerifiedServe
    NoDeadReference
    GraceCoversOffline
    GraceOnlyWhenOffline
PROPERTIES
    RefusedOnlyWhenFull
    ImplementsPool
    UnverifiedIsClosed
    AbsentClientRemoved
    ClosedClientLetsGo
