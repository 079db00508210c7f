\* Two streams over two ids, filters that overlap, one client per id at a time
SPECIFICATION FairServerSpec
CONSTANTS
    i1 = i1
    i2 = i2
    Id = {i1, i2}
    Creation = {c1}
    Nobody = Nobody
    Kind = {"http"}
    Port = {}
    PortMode = {FALSE}
    MaxFaults = 0
    Watcher = {w1, w2}
    Pattern <- OverlappingPatterns
    DefaultFilters <- AllowAll
    MaxPriority = 2
    MaxFilters = 2
    MaxChanges = 2
INVARIANTS
    ServerTypeOK
    HighestPriorityDecides
    PendingIsWatched
    WatchersAreCurrent
PROPERTIES
    RevocationCuts
    NewsArrives
