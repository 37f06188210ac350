CONSTANTS
    s1 = s1
    s2 = s2
    r1 = r1
    r2 = r2
    r3 = r3
    d1 = d1
    None = None
    Sessions = {s1, s2}
    Replies = {r1, r2, r3}
    Directs = {}
    SessionOf <- MCSessionOf
    Modes = {"collect", "steer"}
    Width = 1
    TypingAwaits = FALSE
    Deletable = {}
SPECIFICATION Spec
PROPERTIES EveryFollowupIsAnswered EveryRunEnds
CHECK_DEADLOCK FALSE
