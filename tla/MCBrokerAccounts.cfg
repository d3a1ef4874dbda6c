SPECIFICATION Spec
CONSTANTS
    CommissionBps = 1000
    MinCommission = 1
    SlippageBps = 0
    FixedTick = 1
    ExecutionModel = "conservative"
    InitialCash = 40
    AllowShort = TRUE
    DailyBars = FALSE
    Bars <- MCBarsThin
    MaxBars = 3
    WarmupBars = 1
    Tickets <- MixedTickets
    Amendments <- QuantityOnly
    MaxQuantity = 2
    MaxOrders = 3
INVARIANTS
    BooksBalance
    PendingSellsAreCovered
    FillsExplainTheAccount
    FillsAreTimely
    ReversalsOpenOnce
CHECK_DEADLOCK FALSE
