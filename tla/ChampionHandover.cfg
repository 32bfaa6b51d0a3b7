CONSTANTS
    Policies = {p0, p1}
    BasePolicy = p0
    Symbols = {btc}
    FirstSymbol = btc
    Deadline = 1
    MaxTime = 3
    MaxRequests = 2
    MaxExperiments = 2
    MaxSwitches = 1
    MaxRestarts = 1
    MaxFaults = 1
    QueueSize = 1
SPECIFICATION FairSpec
INVARIANTS ReceiptBeforeChampion ChampionAgrees
PROPERTIES SwapsExpected RequestAnswered
CHECK_DEADLOCK FALSE
