CONSTANTS
    Calls <- MCCalls
    Answers <- MCAnswers
    Price = 100
    Situations <- MCSituations
    Settings <- MCSettings
    Overrides <- MCOverrides
    Equities = {2000, 400000, 3000000}
    Risk <- MCRisk
    Instrument <- MCInstrument
    Middles = {199, 190}
    Tolerance = 5
    Requests <- MCRequests
    Sizer <- MCSizer
    Coin = 100
SPECIFICATION ManualSpec
CHECK_DEADLOCK FALSE
INVARIANTS
    TradeIsSound
    VoteIsFair
    OrderIsSound
