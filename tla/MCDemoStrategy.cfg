SPECIFICATION Spec
CONSTANTS
    LastMinute = 12
    EntryMinutes <- MCEntryMinutes
    FlatMinutes <- MCFlatMinutes
    SignalMinutes = 2
    MaxGap = 2
    LotSizes = {1, 2}
    MaxLots = 2
    Slots <- MCSlots
    MaxSignalAttempts = 2
    MaxDailyTrades = 1
    MaxConsecutiveLosses = 1
    H1MaxWait = 1
    SecondBottomMaxWait = 3
    PositionSyncBars = 3
    StopPartialGrace = 1
    FastFailBars = 1
    NoProgressBars = 1
    MaxHoldBars = 2
    TopStop = 3
INVARIANTS
    TypeOK
    NothingIsOrphaned
    HeldIsProtected
    EverySaleIsBookedOnce
    EntriesAreLimited
