SPECIFICATION MCSpec
CONSTANTS
    Parts = {"packs", "engine", "schedule", "store", "ratings", "statistics", "exports"}
    Packs = {"v1", "v2"}
    PackRequests <- MCPackRequests
    PackFiles = {"words", "notice"}
    Installers = {"p1", "p2"}
    MaxTrash = 1
    Size = 3
    Letters = {"a", "b"}
    Face <- MCFace
    LetterValue <- MCLetterValue
    PremiumAt <- MCPremiumAt
    Dictionary <- MCDictionary
    Players = 2
    RackCapacity = 2
    ExchangeMinimum = 2
    BingoBonus = 5
    ScorelessTurnLimit = 2
    Seeds = {0, 1}
    LastMove = 3
    StaticSpecs <- MCStatic
    SwissSpecs <- MCSwiss
    StoreClients = {c1, c2}
    StoreTimes = {1, 2}
    LastLifecycle = 4
    NoTournament = NoTournament
    RatingPools = {"en"}
    PeriodIds = {"p1", "p2"}
    RatedMatches <- MCRatedMatches
    Raters = {c1, c2}
    RatingRange = 4
    RatingAfter <- MCRatingAfter
    LastPeriod = 1
    SourceIds = {1, 2}
    Logs <- MCLogs
    Metrics <- MCMetrics
    IdLength <- MCIdLength
    IdLimit = 6
    SeatSuffix = 2
    CounterLimit = 10
    Recorders = {c1, c2}
    ExportFamilies = {"public_replay", "ratings", "operator_analytics"}
    RecordIds = {1, 2}
    RecordSizes = {1, 3}
    MaxRecordBytes = 2
    MaxTotalBytes = 4
INVARIANTS
    GameIsSound ReplayReproduces ScheduleIsSound RatingSafety StatisticsSafety 
PROPERTIES
    StoreSafety 
\* Games end, schedules are finished, tournaments close.
CHECK_DEADLOCK FALSE
