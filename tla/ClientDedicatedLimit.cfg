\* Two connections of a client that may have two
SPECIFICATION ClientSpec
CONSTANTS
    Socket = {s1, s2}
    MaxSockets = 2
    UniquePort = FALSE
    AuthMode = {TRUE}
CHECK_DEADLOCK FALSE
PROPERTY
    RefusedOnlyWhenFull
