SPECIFICATION AppsSpec
CONSTANTS
    MaxStarts = 2
    MaxDeaths = 1
    Addrs = {a, b}
    Names = {n, m}
    None = None
    MaxQueue = 2
    MaxUpdates = 1
    MaxWaiting = 3
    MaxVpnStarts = 2
    ChanCap = 2
    Messages = {m1, m2}
    NoMessage = NoMessage
    RingCap = 2
    MaxPushes = 5
INVARIANTS Restored Captured BookSound DescriptorsOwned LogsSound
PROPERTIES SessionsApart SettlesDown BackgroundEnds DeathReported
CHECK_DEADLOCK FALSE
