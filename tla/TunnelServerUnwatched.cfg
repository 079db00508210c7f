\* One tunnel that no stream watches
SPECIFICATION ServerSpec
CONSTANTS
    i1 = i1
    i2 = i2
    Id = {i1, i2}
    Creation = {c1}
    Nobody = Nobody
    Kind = {"http"}
    Port = {}
    PortMode = {FALSE}
    MaxFaults = 0
    Watcher = {w1, w2}
    Pattern <- OverlappingPatterns
    DefaultFilters <- AllowAll
    MaxPriority = 2
    MaxFilters = 2
    MaxChanges = 2
CHECK_DEADLOCK FALSE
INVARIANT
    RevokedTunnelIsCut
