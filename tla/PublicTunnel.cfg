\* Two tunnel sockets, two external connections and two sources of datagrams
SPECIFICATION FairTunnelSpec
CONSTANTS
    Socket = {s1, s2}
    External = {x1, x2}
    NoExternal = noExternal
    Source = {k1, k2}
    NoSource = noSource
    NoSocket = noSocket
    Radix <- MCRadix
    Json <- MCJson
    Reply <- MCReply
    MaxReplies = 2
INVARIANTS
    TunnelTypeOK
    NoOrphanSocket
    SessionIsCurrent
    RepliesInOrder
    ClosedTunnelIsSilent
PROPERTIES
    UsesPool
    IdleSessionEnds
CHECK_DEADLOCK FALSE
