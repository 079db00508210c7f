\* Two creations, two ids, one public port to fight for
SPECIFICATION FairManagerSpec
CONSTANTS
    Id = {i1, i2}
    Creation = {c1, c2}
    Nobody = Nobody
    Kind = {"http", "tcp", "udp"}
    Port = {1}
    PortMode = {TRUE, FALSE}
    MaxFaults = 1
CHECK_DEADLOCK FALSE
INVARIANTS
    TypeOK
    NoLeakedClient
    FailedLeavesNothing
    PooledOnce
    TunnelIsPublished
PROPERTY
    CreationAnswered
