SPECIFICATION Spec
CONSTANTS
    Runs = {keep, gone}
    Deleting = {gone}
    MaxFaults = 2
    NoEntry = NoEntry
INVARIANTS AnnouncedOnce
PROPERTIES EveryEndIsAnnounced
CHECK_DEADLOCK FALSE
