CONSTANTS
    QUEUE_CAPACITY = 1
    ClockMod = 4
    BmsAddress = 1
    DEFAULT_RESPONSE_TIMEOUT_MS = 1
    DEFAULT_INTERFRAME_TIMEOUT_MS = 1
    DEFAULT_MAX_RETRIES = 1
    ResponseTimeouts = {}
    InterframeTimeouts = {}
    RetryLimits = {}
    TxHandlers = {TRUE}
    EventHandlers = {}
    Polls <- StreamPolls
    Frames <- StreamFrames
    FrameErrors = {}
    TickSteps = {1}
    MaxRequests = 1
    MaxReplyFrames = 256
    MaxDepth = 1
    PollWhenIdle = FALSE
SPECIFICATION Spec
PROPERTIES
    ResendOnlyWhenSilent
