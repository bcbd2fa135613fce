SPECIFICATION Spec
CONSTANTS
    Conns = {c1, c2}
    Slots = {1, 2}
    MaxFlows = 1
    UpCap = 1
    DownCap = 2
    TxCap = 1
    RxCap = 1
    UpBytes <- MCBytes
    DownBytes <- MCBytes
    First = c1
    None = None
    NoFlow = NoFlow
    Srcs = {s1, s2}
    Dsts = {d1, d2, d3}
    Direct = {d1, d2}
    Ids = {1, 2}
    MaxSessions = 1
    AllowCap = 1
    CmdCap = 1
    MaxRelayed = 1
    Addrs = {a1, a2, a3}
    V6Slots = 2
    Exempt <- MCExempt
    Exempt6 <- MCExempt6
    MaxStarts = 2
    Bits = 3
    Ports = {1, 2}
    Builtin = {7}
    CnRanges <- MCCnRanges
    Hosts <- MCHosts
    RuleNames <- MCRuleNames
    CnSuffixes <- MCCnSuffixes
    Loopback <- MCLoopback
    Localhost = "localhost"
    Cn = "cn"
    MaxLines = 3
    Threshold = 2
CHECK_DEADLOCK FALSE
INVARIANT FirstRuleWins
