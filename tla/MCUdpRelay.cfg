SPECIFICATION Spec
CONSTANTS
    f1 = f1
    f2 = f2
    f3 = f3
    dns = dns
    web = web
    NoFlow = NoFlow
    NoSession = NoSession
    Flows = {f1, f2, f3}
    Targets = {dns, web}
    DstOf <- MCDstOf
    DnsTargets = {}
    MaxSid = 1
    UpCap = 2
    DownCap = 1
    MaxLocalSessions = 2
    MaxNodeSessions = 1
    Gens = {1, 2}
INVARIANTS
    SidsDistinct
    TablesAgree
    MisdeliveryConfined
PROPERTIES
    ChannelSpec
