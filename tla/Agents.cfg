SPECIFICATION MCSpec
CONSTANTS
    Parts = {"driver", "budget", "workspace", "redaction", "runs", "sanitizer", "match"}
    Pids = {p1, p2}
    NoPid = NoPid
    Turns = {t1, t2}
    NoTurn = NoTurn
    CanReattach = TRUE
    PipeSize = 1
    BudgetLimit <- MCLimits
    WallTime = 2
    Saturation = 4
    MaxLimitEvents = 3
    MaxMetered = 2
    MaxUsage = 1
    Provisioners = {"w1", "w2"}
    Requests = {"q1", "q2"}
    RetentionOf <- MCRetention
    Bytes = {"a", "b", "n"}
    Newline = "n"
    Secrets <- MCSecrets
    ChunkBytes = 1
    MaxWritten = 4
    MaxWrite = 2
    RunIds = {"r1", "r2"}
    NoRow = NoRow
    Manifests = {"m1", "m2"}
    GameSeats <- MCGameSeats
    HumanSeat <- MCHumanSeat
    RunOutcomes = {"finished"}
    LastTime = 1
    JsonDepth = 3
    MaxArchived = 1
    MatchSeats = 2
    HumanSeats = {2}
    Runners = {1, 2}
    LastVersion = 1
    ReadFaults = 1

     
PROPERTIES
    DriverSafety  RunsSafety  
CHECK_DEADLOCK FALSE
