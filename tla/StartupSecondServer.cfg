SPECIFICATION MCSpec
CONSTANTS
    Parts = {"startup"}
    i1 = i1
    i2 = i2
    i3 = i3
    c1 = c1
    c2 = c2
    c3 = c3
    c4 = c4
    Ids = {i1, i2, i3}
    Calls = {c1, c2, c3, c4}
    None = None
    Practice = {}
    Requests <- MCRequests
    Tokens <- MCTokens
    Questions <- MCQuestions
    Expiries = {2}
    MaxDelay = 0
    Horizon = 1
    ServerProcesses = {"s1", "s2"}
    LastVersion = 3
    SeatTables <- MCSeatTables
    Indexed <- MCIndexed
    Nobody = "nobody"
    Creators = {"c1", "c2"}
    CreationKeys = {"k1", "k2"}
    Payloads = {"en", "fr"}
    GameIds = {"g1", "g2"}
    PreviewWindowMs = 3
    PreviewMax = 2
    LatestTime = 6
    MaxSteps = 8
    MaxSetbacks = 2
    Capacities = {1, 2, 3}
    RefillTokens = {1, 2, 5}
    Intervals = {1, 3, 4}
    BucketHorizon = 5
    MaxFrameBytes = 8
    MaxResponseBytes = 14
    SseInputs <- MCSseInputs
    MaxLines = 4
INVARIANT OnlyAbandonedAreInterrupted
CHECK_DEADLOCK FALSE
