SPECIFICATION BothSpec
CONSTANTS
    w1 = w1
    w2 = w2
    v1 = v1
    v2 = v2
    NoTag = NoTag
    NoFile = NoFile
    Workers = {w1, w2}
    Versions = {v1, v2}
    Tag <- MCTag
    Size <- MCSize
    MAX_ATTEMPTS = 1
    MAX_ROUNDS = 2
    MaxRuns = 2
    MaxChanges = 1
    Expected = {NoTag, v1}
    WritesMayFail = TRUE
    f1 = f1
    dns = dns
    NoSession = NoSession
    Flows = {f1}
    Targets = {dns}
    DstOf <- MCDstOf
    DnsTargets = {dns}
    MaxSid = 2
    UpCap = 1
    DownCap = 1
    MaxNodeSessions = 1
    Gens = {1, 2}
INVARIANTS
    DamageConfined
    PartSound
    NodeTableBounded
PROPERTIES
    RunEnds
    ZombiesLeave
CHECK_DEADLOCK FALSE
