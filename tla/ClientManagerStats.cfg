\* Two clients that want the same public port
SPECIFICATION ManagerSpec
CONSTANTS
    Id = {i1, i2}
    Creation = {c1, c2}
    Nobody = Nobody
    Kind = {"tcp"}
    Port = {1}
    PortMode = {FALSE}
    MaxFaults = 0
CHECK_DEADLOCK FALSE
INVARIANT
    StatsCountTunnels
