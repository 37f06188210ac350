CONSTANTS
    Lanes = {main, session}
    Tasks = {t1, t2, t3}
    Widths <- MCWidths
SPECIFICATION FairSpec
INVARIANTS ActiveCountsRunning NoStrandedWork
PROPERTIES ImplementsLaneQueue EveryTaskSettles
