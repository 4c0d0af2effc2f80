CONSTANTS
    PerDay = 2
    MaxNow = 6
    Markets <- MCMarkets
    Rows = {"day", "days", "hour"}
    RowOf <- MCRowOf
    Logs = {"near", "far", "flat"}
    Watched = {{"day"}, {"days"}, {"hour"}, {"near", "far"}, {"flat"}}
    LogOf <- MCLogOf
    Evaluators = {"scheduler", "robot"}
    Edge = 16
    Providers = {"sonar"}
    ModelOf <- MCModelOf
    MethodOf <- MCMethodOf
    Trackers = {"scheduled", "late"}
    Alpha = 20
    MaxCount = 2
    MaxEdits = 1
SPECIFICATION RatingSpec
CHECK_DEADLOCK FALSE
INVARIANTS
    BarsAreSound
    VerdictsAreSound
    AccuracyIsEarned
PROPERTY
    EverySignalIsJudged
