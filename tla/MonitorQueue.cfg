SPECIFICATION FairSpec
CONSTANTS
    Directions = {"SHORT"}
    MaxOrders = 2
    Lifetime = 2
    MaxTime = 4
    MaxOpen = 2
    MaxOpenLong = 1
    MaxOpenShort = 2
    MinGap = 1
    EnabledChoices = {TRUE}
    MaxActiveChoices = {2}
    WaveReadyChoices = {TRUE, FALSE}
    Prices = {1, 2}
    MaxFaults = 2
    MaxSwitches = 0
PROPERTIES
    QueueDrains
