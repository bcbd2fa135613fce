SPECIFICATION Spec
CONSTANTS
    MaxStarts = 2
    MaxDeaths = 1
    Addrs = {a, b}
    Names = {n, m}
    None = None
    MaxQueue = 2
    MaxUpdates = 1
    MaxWaiting = 3
INVARIANT KdeGivenBack
