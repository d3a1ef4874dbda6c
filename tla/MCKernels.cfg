SPECIFICATION KernelsSpec
CONSTANTS
    Symbols <- TwoSymbols
    Order <- AThenB
    Weight <- TwoToOne
    TotalWeight = 3
    InitialCash = 900
    CommissionBps = 1000
    MinCommission = 100
    SlippageBps = 1000
    Periodic = TRUE
    Opens <- TwoOpens
    MaxDays = 4
    Base = "K_60M"
    BarTypes <- Types
    Minutes <- Hours
    Moments <- SixMoments
    Prices = {1, 2}
    MaxBars = 4
    NoType = "none"
    NoMinute = 99
    NaN = NaN
    Selects = {1, 2, 3}
    Periods = {1, 2}
    Averages <- OneTwo
    Fast = 1
    Slow = 2
    Signal = 2
    RunLength = 2
    Back = 1
    Lengths = {1, 2, 3, 4, 5, 6, 7, 8, 9, 10, 11, 12, 13, 14, 15, 16, 17, 18, 19, 20, 30, 31, 100, 365}
    Listeners = {l1, l2}
    QueueSize = 2
    MaxEvents = 7
SYMMETRY ListenerSymmetry
INVARIANTS
    RebalancesSettle
    AnswersAreHistory
    WindowsTile
    NewestEventsArrive
CHECK_DEADLOCK FALSE
