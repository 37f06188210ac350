CONSTANTS
    MaxIntervals = 1
    MaxBlocks = 3
    Configs <- MCConfigs
    MinChars = 1
    MaxChars = 2
    MaxTools = 1
    MaxAttempts = 2
SPECIFICATION Spec
INVARIANTS NothingLost NoBlockTwice SentInOrder TypingEndsWithReply
PROPERTIES TypingStops
CHECK_DEADLOCK FALSE
