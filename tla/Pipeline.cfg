CONSTANTS
    Runs = {"scheduler", "robot"}
    Tickers = {"BTC"}
    Configs <- Gated
    MaxRows = 2
    Recalcs = {"recalc"}
    PendingTask = "pending_task"
SPECIFICATION Spec
CHECK_DEADLOCK FALSE
INVARIANTS
    OrdersAreEarned
PROPERTIES
    SettledStays
    WorkEnds
