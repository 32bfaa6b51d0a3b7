SPECIFICATION Spec
CONSTANTS
    Directions = {"SHORT"}
    MaxOrders = 3
    Lifetime = 2
    MaxTime = 5
    MaxOpen = 2
    MaxOpenLong = 1
    MaxOpenShort = 2
    MinGap = 1
    EnabledChoices = {TRUE, FALSE}
    MaxActiveChoices = {1, 2}
    WaveReadyChoices = {TRUE, FALSE}
    Prices = {1, 2}
    MaxFaults = 1
    MaxSwitches = 0
INVARIANTS
    CreditsWithinSettings
    SettledAtExpiryPrice
    DurableProvenance
    OpeningsApart
    MemoryMatchesDisk
    NeverRefused
