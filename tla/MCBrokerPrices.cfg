SPECIFICATION Spec
CONSTANTS
    CommissionBps = 1000
    MinCommission = 1
    SlippageBps = 0
    FixedTick = 1
    ExecutionModel = "deterministic"
    InitialCash = 40
    AllowShort = FALSE
    DailyBars = TRUE
    Bars <- MCBarsGaps
    MaxBars = 4
    WarmupBars = 0
    Tickets <- PricedTickets
    Amendments <- PriceAmendments
    MaxQuantity = 2
    MaxOrders = 2
INVARIANTS
    BuysAreFunded
PROPERTIES
    LimitsAreHonoured
CHECK_DEADLOCK FALSE
