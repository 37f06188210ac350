CONSTANTS
    m1 = m1
    m2 = m2
    m3 = m3
    m4 = m4
    topic = topic
    chat = chat
    Messages = {m1, m2, m3, m4}
    Route <- MCRoute
    Places = {chat}
    Named = {m2}
    NumberThreads = {topic}
    TextThreads = {}
    Settings <- MCSettings
    DedupeMode = "message-id"
    StableDrop = TRUE
    Drains = {d1, d2}
    MaxArrivals = 3
SPECIFICATION Spec
INVARIANTS RepliesGoHome Accounting OneTurnAtATime
PROPERTIES AnsweredInOrder EveryDropIsReported EveryQueuedIsTaken
CHECK_DEADLOCK FALSE
