CONSTANTS
    s1 = s1
    s2 = s2
    r1 = r1
    r2 = r2
    r3 = r3
    d1 = d1
    None = None
    Sessions = {s1, s2}
    Replies = {r1, r2, r3}
    Directs = {d1}
    SessionOf <- MCSessionOf
    Modes = {"collect", "steer", "interrupt"}
    Width = 2
    TypingAwaits = TRUE
    Deletable = {s1}
SPECIFICATION SafetySpec
SYMMETRY MCSymmetry
INVARIANTS OneRunPerSession RegistryMatchesRuns FollowupsKept
PROPERTY DeletionWaits
CHECK_DEADLOCK FALSE
