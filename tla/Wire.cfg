SPECIFICATION MCSpec
CONSTANTS
    Parts = {"deadlines", "feed", "gateway", "bridge"}
    a = a
    PlayerCount = 2
    ScorelessLimit = 2
    Clients = {a}
    Timer = Timer
    Commands <- MCOneMove
    TurnDuration = 1
    TimeoutResponse = "pass"
    InvalidAttemptLimit = 2
    InvalidAttemptResponse = "reject_only"
    NoRow = NoRow
    MaxVersion = 2
    Horizon = 2
    Sockets = {"w1", "w2"}
    WebsocketSlots = 1
    Buffer = 2
    LastGameVersion = 2
    McpRequests = {"r1", "r2"}
    McpTokens = {"t1", "t2"}
    TokenSeat <- MCTokenSeat
    SessionIds = {1, 2}
    NoSession = NoSession
    MaxMcpSessions = 1
    FrameBuffer = 1
    MaxReads = 3
    MaxNotes = 2
INVARIANTS
    BridgeSafety
PROPERTIES
    FeedSafety GatewaySafety  ToldOrGone ShutdownCompletes
\* Games end, and so does the bridge.
CHECK_DEADLOCK FALSE
