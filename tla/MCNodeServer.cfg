CONSTANTS
    c1 = c1
    c2 = c2
    c3 = c3
    i1 = i1
    i2 = i2
    Conns <- MCConns
    Ips <- MCIps
    Source <- MCSource
    PeerIds = {p1, p2}
    MaxPeers = 1
    DownlinkCap = 1
    NoConn = NoConn
    NoPeer = NoPeer
    Configs <- MCConfigs
    Names = {n1}
    Addrs = {a1, a2}
    Blocked = {a2}
    AllowPrivate = FALSE
    MaxEntries = 1
    MaxLookups = 1
    NoTarget = NoTarget
    NoAddr = NoAddr
SPECIFICATION Spec
INVARIANTS
    DialsAllowed
    RegistryOwned
PROPERTIES
    EntryKept
    AdmissionKept
    NobodyHangs
CHECK_DEADLOCK FALSE
