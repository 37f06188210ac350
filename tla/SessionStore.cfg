CONSTANTS
    update = update
    whole = whole
    route = route
    gateway = gateway
    cli = cli
    main = main
    Processes = {gateway, cli}
    Calls = {update, whole, route}
    In <- MCIn
    Kind <- MCKind
    Keys = {main}
    Key <- MCKey
    MaxFaults = 2
    Nobody = Nobody
SPECIFICATION Spec
INVARIANTS NoUpdateIsLost
PROPERTIES EveryCallEnds
CHECK_DEADLOCK FALSE
