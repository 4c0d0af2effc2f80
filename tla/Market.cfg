CONSTANTS
    Start = 7
    MaxNow = 10
    MaxFailures = 1
    Long = 7
    Short = 2
    Least = 1
    Margin = 1
    StaleDays = 1
    Fast = 2
    Middle = 4
    Slow = 6
    Period = 2
    Scale = 12
    Casts = {{"update", "forecast"}, {"backfill", "forecast"}, {"update", "backfill"}, {"robot"}}
    Robots = {"robot1", "robot2"}
    Markets <- MCMarkets
SPECIFICATION RobotSpec
INVARIANTS
    PricesAreSound
    ClaimsHaveNoBias
PROPERTIES
    RobotEndsAndTableCatchesUp
