CONSTANTS
    i1 = i1
    i2 = i2
    Incidents = {i1, i2}
    Tasked = {i1}
    Routed = {i1, i2}
    Size <- MCSize
    Key <- MCKey
    NoKey = NoKey
    MaxFaults = 1
SPECIFICATION OrchestratorSpec
INVARIANTS NothingIsPassedOver HandedOutOnce
PROPERTIES EveryIncidentIsDealtWith
CHECK_DEADLOCK FALSE
