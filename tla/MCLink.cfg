CONSTANTS
    QUEUE_CAPACITY = 2
    ClockMod = 12
    BmsAddress = 1
    DEFAULT_RESPONSE_TIMEOUT_MS = 5
    DEFAULT_INTERFRAME_TIMEOUT_MS = 4
    DEFAULT_MAX_RETRIES = 1
    ResponseTimeouts = {}
    InterframeTimeouts = {}
    RetryLimits = {}
    TxHandlers = {}
    EventHandlers = {}
    Polls <- LinkPolls
    Frames = {}
    FrameErrors = {}
    TickSteps = {}
    MaxRequests = 3
    MaxReplyFrames = 4
    MaxDepth = 1
    PollWhenIdle = FALSE
    LoopPeriod = 1
    MaxDelay = 1
    MaxGap = 1
    MaxFrames = 2
SPECIFICATION LinkSpec
INVARIANTS
    AnswersItsOwn
    PromptReplyHeard
