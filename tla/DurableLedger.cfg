SPECIFICATION GuardedSpec
CONSTANTS
    Services <- MCServices
    Directions = {"LONG", "SHORT"}
    MaxOrders = 4
    Lifetime = 2
    MaxTime = 9
    MaxOpen = 2
    MaxOpenLong = 1
    MaxOpenShort = 2
    MaxActive = 1
    LongProfiles = {"long"}
    ShortProfiles = {"short"}
    Raws = {"RANGE_LOW", "DOWN_LEG"}
    History = 2
    MinGap = 1
    FailedToRest = 2
    FailedWindow = 1
    WaveCooldown = 2
    LossStreak = 2
    ProfileCooldown = 2
    SequenceStreak = 3
    SequenceCooldown = 1
    EdgeSamples = 3
    EdgeRate = 30
    EdgeEv = 5
    WinPnl = 40
    LossPnl = 50
    MaxFaults = 1
INVARIANTS StakeProvenance ReservationBound Capacity RestAfterLosses SecondStageInItsWave
PROPERTIES TerminalRowsStand
CHECK_DEADLOCK FALSE
