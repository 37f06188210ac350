CONSTANTS
    t1 = t1
    t2 = t2
    Texts = {t1, t2}
    MaxEvents = 1
    MaxRequests = 2
    MaxFaults = 0
    NoText = NoText
SPECIFICATION HeartbeatSpec
INVARIANT AckKeepsNoSessionAlive
CHECK_DEADLOCK FALSE
