CONSTANTS
    QUEUE_CAPACITY = 2
    ClockMod = 4
    BmsAddress = 1
    DEFAULT_RESPONSE_TIMEOUT_MS = 1
    DEFAULT_INTERFRAME_TIMEOUT_MS = 1
    DEFAULT_MAX_RETRIES = 1
    ResponseTimeouts = {}
    InterframeTimeouts = {}
    RetryLimits = {}
    TxHandlers = {TRUE}
    EventHandlers = {TRUE}
    Polls <- AllPolls
    Frames <- AllFrames
    FrameErrors = {"CHECKSUM"}
    TickSteps = {1}
    MaxRequests = 3
    MaxReplyFrames = 4
    MaxDepth = 1
    PollWhenIdle = FALSE
SPECIFICATION Spec
INVARIANTS
    TypeOK
    QueueInOrder
    NoStrandedWork
    OneOutcome
    WireMatchesHead
    SizedByLatestCount
    VerdictMatchesTraffic
PROPERTIES
    OneOutstanding
    ResendOnlyWhenSilent
    NoTxInsideHandler
    KeepsPromise
