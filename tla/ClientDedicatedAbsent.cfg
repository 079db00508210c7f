\* One connection that may stay silent
SPECIFICATION FairClientSpec
CONSTANTS
    Socket = {s1}
    MaxSockets = 2
    UniquePort = FALSE
    AuthMode = {TRUE}
CHECK_DEADLOCK FALSE
PROPERTY
    AbsentClientRemoved
