SPECIFICATION AndroidSpec
CONSTANTS
    MaxVpnStarts = 3
    ChanCap = 1
    Messages = {m1, m2}
    NoMessage = NoMessage
    RingCap = 2
    MaxPushes = 5

PROPERTY DropEnds
CHECK_DEADLOCK FALSE
