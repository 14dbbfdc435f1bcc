CONSTANTS
    QUEUE_CAPACITY = 2
    ClockMod = 6
    BmsAddress = 1
    DEFAULT_RESPONSE_TIMEOUT_MS = 1
    DEFAULT_INTERFRAME_TIMEOUT_MS = 1
    DEFAULT_MAX_RETRIES = 1
    ResponseTimeouts = {3}
    InterframeTimeouts = {2}
    RetryLimits = {0}
    TxHandlers = {TRUE, FALSE}
    EventHandlers = {TRUE, FALSE}
    Polls <- FewPolls
    Frames <- FewFrames
    FrameErrors = {}
    TickSteps = {2}
    MaxRequests = 2
    MaxReplyFrames = 2
    MaxDepth = 1
    PollWhenIdle = FALSE
SPECIFICATION FairSpec
INVARIANTS
    DeadlineAhead
    NoStrandedWork
PROPERTIES
    EventuallySettled
