SPECIFICATION MCSpec
CONSTANTS
    Inbound = {p}
    Outbound = {q}
    Notify = {q}
    Continues = {o1}
    Parallel = FALSE
    MaxConcurrentCalls = 2
    MaxFaults = 1
    MaxUnderWay = 1
    MaxHangUps = 2
    None = None
INVARIANTS GreetedOnce ActiveCallsAreFound EndedStaysEnded
PROPERTIES AnsweredCallsEnd EveryContinueReturns
CHECK_DEADLOCK FALSE
