CONSTANTS
    t1 = t1
    t2 = t2
    Texts = {t1, t2}
    MaxEvents = 1
    MaxRequests = 5
    MaxFaults = 1
    NoText = NoText
SPECIFICATION HeartbeatSpec
PROPERTIES EveryWakeIsAnswered 
CHECK_DEADLOCK FALSE
