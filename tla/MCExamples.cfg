CONSTANTS
    QUEUE_CAPACITY = 2
    ClockMod = 8
    BmsAddress = 1
    DEFAULT_RESPONSE_TIMEOUT_MS = 2
    DEFAULT_INTERFRAME_TIMEOUT_MS = 2
    DEFAULT_MAX_RETRIES = 1
    ResponseTimeouts = {}
    InterframeTimeouts = {}
    RetryLimits = {}
    TxHandlers = {}
    EventHandlers = {}
    Polls = {}
    Frames <- SmallFrames
    FrameErrors = {"CHECKSUM"}
    TickSteps = {1}
    MaxRequests = 4
    MaxReplyFrames = 8
    MaxDepth = 1
    PollWhenIdle = FALSE
    Schedule <- SmallSchedule
    Sweeps = 2
    PROBE_GUARD_MS = 3
    interval_ms = 3
    Startup <- SmallStartup
    Sweep <- SmallSweep
    sweep_ms = 3
    ReadBatch = 2
SPECIFICATION ExamplesSpec
CHECK_DEADLOCK FALSE
INVARIANTS
    LinesClosed
    OutcomeUnderItsLabel
    NothingRefused
    NoneStoredIsSaidRightly
PROPERTIES
    Finishes
