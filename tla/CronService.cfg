CONSTANTS
    j1 = j1
    j2 = j2
    Jobs = {j1, j2}
    Schedules <- MCSchedules
    Stored <- MCStored
    Requests <- MCRequests
    MaxRequests = 1
    MaxTime = 4
    MaxGenerations = 2
    CanCrash = TRUE
    CanReload = TRUE
    DiskCanFail = TRUE
    NotLoaded = NotLoaded
    NoJob = NoJob
    Keep = Keep
    Intervals <- MCIntervals
SPECIFICATION Spec
INVARIANTS TimerCoversNextRuns TicksDoNotPileUp NextIsNearestSlot
PROPERTIES OneShotStaysDone EveryDueJobRuns
CHECK_DEADLOCK FALSE
