SPECIFICATION ReplaySpec
CONSTANTS
    Profiles = {1, 2}
    Shorts = {2}
    DayLength = 3
    Activation = 2
    Life = 1
    KlineWindow = 3
    FastDays = 1
    StableDays = 2
    MinSamples = 1
    MinRate = 60
    JointFailures = 2
    Limits = {0, 1}
    LongMaxWins = 1
    ShortMaxWins = 1
    ShortFloor = 60
    FastWins = {1}
    HealthEvery = 2
    HealthLookback = 3
    MinHealth = 1
    Warmup = 1
    ActiveWins = 1
    PausedMaxWins = 0
    Full = 2
    Lookback = 5
    WinPnl = 8
    LossPnl = 10
    Histories <- MCHistories
    Databases <- MCDatabases
    Policies = {"BASELINE", "ADAPTIVE", "ADMISSION"}
    Morning = 1
    MaxOpenOrders = 2
    MaxPerDirection = 1
    MinGap = 2
    LossPause = 1
    LateTimes = {1, 2, 3, 4, 5, 6}
    SharedTimes = {1, 3, 6}
    StartTime = 3
    MaxTime = 12
    MaxObservations = 2
    MaxReplayed = 6
    MaxRestarts = 1
    MaxFaults = 1
INVARIANTS ReplayIsExact ReplayIsCausal RecalculationStands DaysBeforeExit ScheduleAgrees AdmittedOnRecord
CHECK_DEADLOCK FALSE
